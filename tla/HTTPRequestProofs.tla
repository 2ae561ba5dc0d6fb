------------------------- MODULE HTTPRequestProofs --------------------------
(***************************************************************************)
(* Theorems about HTTPRequest and the service map it extends: for every    *)
(* map, every request and response, in whatever pieces they come, and for  *)
(* every limit on the buffers.                                             *)
(***************************************************************************)
EXTENDS HTTPRequest, TLAPS

-----------------------------------------------------------------------------
\* The service map, for every set of services, hosts, prefixes and deployments.

\* The options Normalize makes: at least one host and one prefix.
Normalized ==
  [hosts : Seq(Hosts) \ {<<>>}, prefixes : (SUBSET Prefixes) \ {{}}, tls : TLSSettings]

OptionMaps == [Names -> Normalized \cup {None}]

\* No two services have a host and a prefix in common.
Disjoint(opts) ==
  \A m, n \in Present(opts) : m # n =>
    \A h \in Hosts : HasHost(opts[m], h) /\ HasHost(opts[n], h) =>
      opts[m].prefixes \cap opts[n].prefixes = {}

MapInv == options \in OptionMaps /\ bindings \in Indexes(options) /\ Disjoint(options)

\* What the routing table knows of the services.
ClaimsOf(opts) ==
  [n \in Names |-> IF opts[n] = None THEN None
                   ELSE [hosts |-> opts[n].hosts, prefixes |-> opts[n].prefixes]]

TLSOf(opts) == [n \in Names |-> IF opts[n] = None THEN DefaultTLS ELSE opts[n].tls]

RoutesOf(index) == [r \in RequestHosts \X Paths |-> serviceFor(index, r[1], r[2]).service]

-----------------------------------------------------------------------------
\* Sets of numbers, and sequences.

\* Sets of numbers have a least element and the empty set has none: facts of the
\* library, from which CountingFacts at the end of the module takes them.
Counting ==
  /\ \A S \in SUBSET Nat : S # {} => \E i \in S : \A j \in S : i <= j
  /\ Cardinality({}) = 0

\* Of two prefixes of one path the shorter is a prefix of the longer.
LEMMA PrefixesNest ==
  ASSUME NEW p, NEW q \in Seq(STRING), NEW r \in Seq(STRING), Matches(q, p), Matches(r, p),
         Len(q) <= Len(r)
  PROVE  Matches(q, r)
  BY DEF Matches

\* Two prefixes of one path that are as long as each other are one.
LEMMA PrefixesEqual ==
  ASSUME NEW p, NEW q \in Seq(STRING), NEW r \in Seq(STRING), Matches(q, p), Matches(r, p),
         Len(q) = Len(r)
  PROVE  q = r
  BY DEF Matches

-----------------------------------------------------------------------------
\* Options and claims.

\* What the type says of a service's options.
LEMMA OptionFields ==
  ASSUME NEW opts \in OptionMaps, NEW n \in Names, opts[n] # None
  PROVE  /\ opts[n] \in Normalized /\ opts[n].hosts \in Seq(Hosts) /\ opts[n].hosts # <<>>
         /\ opts[n].prefixes \subseteq Prefixes /\ opts[n].prefixes # {}
         /\ opts[n].tls \in TLSSettings
  <1>1. opts[n] \in Normalized
    BY DEF OptionMaps
  <1> QED BY <1>1 DEF Normalized

\* Normalize makes normal options.
LEMMA NormalizeNormalizes ==
  ASSUME NEW r \in Requested
  PROVE  Normalize(r) \in Normalized /\ Normalize(r) # None
  <1>1. r.hosts \in Seq(Hosts) /\ r.prefixes \subseteq Prefixes /\ r.tls \in TLSSettings
    BY ServiceMapConstants
  <1>2. <<AnyHost>> \in Seq(Hosts) /\ <<AnyHost>> # <<>> /\ {Root} \subseteq Prefixes
    BY ServiceMapConstants
  <1>3. Normalize(r) \in Normalized
    BY <1>1, <1>2 DEF Normalize, Normalized
  <1>4. Normalized \subseteq OptionsRecord
    BY DEF Normalized, OptionsRecord
  <1> QED BY <1>3, <1>4, ServiceMapConstants

\* A service has claims when it is in the map, and they are its hosts and prefixes.
LEMMA Claimed ==
  ASSUME NEW opts \in OptionMaps, NEW n \in Names
  PROVE  /\ ClaimsOf(opts)[n] = None <=> opts[n] = None
         /\ opts[n] # None => /\ ClaimsOf(opts)[n].hosts = opts[n].hosts
                              /\ ClaimsOf(opts)[n].prefixes = opts[n].prefixes
                              /\ \A h : Table!HasHost(ClaimsOf(opts), n, h) <=> HasHost(opts[n], h)
  <1>1. CASE opts[n] = None
    BY <1>1 DEF ClaimsOf
  <1>2. CASE opts[n] # None
    <2> DEFINE c == [hosts |-> opts[n].hosts, prefixes |-> opts[n].prefixes]
    <2>1. ClaimsOf(opts)[n] = c
      BY <1>2 DEF ClaimsOf
    <2>2. c \in [hosts : Seq(Hosts), prefixes : SUBSET Prefixes]
      BY <1>2, OptionFields
    <2>3. c # None /\ c.hosts = opts[n].hosts /\ c.prefixes = opts[n].prefixes
      BY <2>2, ServiceMapConstants
    <2> HIDE DEF c
    <2> QED BY <1>2, <2>1, <2>3 DEF Table!HasHost, HasHost
  <1> QED BY <1>1, <1>2

LEMMA DeployedIsPresent ==
  ASSUME NEW opts \in OptionMaps
  PROVE  Table!Deployed(ClaimsOf(opts)) = Present(opts)
  BY Claimed DEF Table!Deployed, Present

-----------------------------------------------------------------------------
\* The bindings updateRequestServiceMap makes.

LEMMA BindingFields ==
  ASSUME NEW opts \in OptionMaps, NEW h, NEW b \in BindingsFor(opts, h)
  PROVE  /\ b.prefix \in Prefixes /\ b.service \in Present(opts)
         /\ HasHost(opts[b.service], h) /\ b.prefix \in opts[b.service].prefixes
         /\ b = [prefix |-> b.prefix, service |-> b.service]
  BY DEF BindingsFor, Present

\* A sequence without indexes is empty.
LEMMA NothingIndexed ==
  ASSUME NEW N, NEW S, NEW s \in [1..N -> S], DOMAIN s = {}
  PROVE  s = <<>>
  OBVIOUS

\* A host's bindings are all there is to bind, and nothing else, longest first.
LEMMA IndexAt ==
  ASSUME NEW opts \in OptionMaps, NEW index \in Indexes(opts), NEW h \in Hosts
  PROVE  /\ DOMAIN index[h] \subseteq Nat
         /\ \A i \in DOMAIN index[h] : index[h][i] \in BindingsFor(opts, h)
         /\ \A b \in BindingsFor(opts, h) : \E i \in DOMAIN index[h] : index[h][i] = b
         /\ Sorted(index[h])
         /\ BindingsFor(opts, h) = {} => index[h] = <<>>
  <1> DEFINE bs == BindingsFor(opts, h)
             s == index[h]
  <1>1. s \in Orders(bs)
    BY DEF Indexes
  <1> HIDE DEF s, bs
  <1>2. s \in [1..Cardinality(bs) -> bs] /\ (\A b \in bs : \E i \in DOMAIN s : s[i] = b) /\ Sorted(s)
    BY <1>1 DEF Orders
  <1>3. \A x : 1..x \subseteq Nat
    OBVIOUS
  <1>4. ASSUME bs = {} PROVE s = <<>>
    <2>1. DOMAIN s = {}
      BY Zenon, <1>2, <1>4
    <2> QED BY Zenon, <1>2, <2>1, NothingIndexed
  <1>5. DOMAIN s \subseteq Nat /\ \A i \in DOMAIN s : s[i] \in bs
    BY <1>2, <1>3
  <1> QED BY <1>2, <1>4, <1>5 DEF s, bs

\* A host has bindings when a service has it.
LEMMA Bound ==
  ASSUME NEW opts \in OptionMaps, NEW index \in Indexes(opts), NEW h \in Hosts
  PROVE  index[h] # <<>> <=> \E n \in Present(opts) : HasHost(opts[n], h)
  <1>1. ASSUME NEW n \in Present(opts), HasHost(opts[n], h) PROVE index[h] # <<>>
    <2>1. PICK q \in opts[n].prefixes : q \in Prefixes
      BY OptionFields DEF Present
    <2>2. [prefix |-> q, service |-> n] \in BindingsFor(opts, h)
      BY <1>1, <2>1 DEF BindingsFor, Present
    <2>3. DOMAIN index[h] # {}
      BY <2>2, IndexAt
    <2> QED BY <2>3
  <1>2. ASSUME index[h] # <<>> PROVE \E n \in Present(opts) : HasHost(opts[n], h)
    <2>1. PICK b \in BindingsFor(opts, h) : TRUE
      BY <1>2, IndexAt
    <2> QED BY <2>1, BindingFields
  <1> QED BY <1>1, <1>2

\* bindingsForHost finds the bindings of the host whose services answer for h.
LEMMA BindingsOfAuthority ==
  ASSUME NEW opts \in OptionMaps, NEW index \in Indexes(opts), NEW h
  PROVE  /\ Table!Authority(ClaimsOf(opts), h) \in Hosts
         /\ bindingsForHost(index, h) = index[Table!Authority(ClaimsOf(opts), h)]
  <1> DEFINE cl == ClaimsOf(opts)
             has(g) == \E n \in Table!Deployed(cl) : Table!HasHost(cl, n, g)
  <1>1. ASSUME NEW g PROVE has(g) <=> \E n \in Present(opts) : HasHost(opts[n], g)
    BY Claimed, DeployedIsPresent DEF Present
  <1>2. ASSUME NEW g, NEW n \in Present(opts), HasHost(opts[n], g) PROVE g \in Hosts
    <2>1. opts[n].hosts \in Seq(Hosts)
      BY OptionFields DEF Present
    <2> QED BY <1>2, <2>1 DEF HasHost
  <1>3. ASSUME NEW g PROVE has(g) <=> g \in Hosts /\ index[g] # <<>>
    BY Zenon, <1>1, <1>2, Bound
  <1>4. Table!AnyLabel(h) = Wildcard(h)
    BY DEF Table!AnyLabel, Wildcard
  <1>5. AnyHost \in Hosts /\ AnyHost = <<>>
    BY ServiceMapConstants DEF AnyHost
  <1>6. Table!Authority(cl, h) = IF has(h) THEN h
                                 ELSE IF Len(h) > 1 /\ has(Wildcard(h)) THEN Wildcard(h) ELSE AnyHost
    BY <1>4, <1>5 DEF Table!Authority
  <1> HIDE DEF has, cl
  <1>7. CASE has(h)
    BY <1>3, <1>6, <1>7 DEF bindingsForHost, cl
  <1>8. CASE ~has(h) /\ Len(h) > 1 /\ has(Wildcard(h))
    BY <1>3, <1>6, <1>8 DEF bindingsForHost, cl
  <1>9. CASE ~has(h) /\ ~(Len(h) > 1 /\ has(Wildcard(h)))
    BY <1>3, <1>5, <1>6, <1>9 DEF bindingsForHost, cl
  <1> QED BY <1>7, <1>8, <1>9

-----------------------------------------------------------------------------
\* The table's candidates are the bindings that match.
LEMMA CandidatesAreBindings ==
  ASSUME NEW opts \in OptionMaps, NEW h, NEW p, NEW x
  PROVE  x \in Table!Candidates(ClaimsOf(opts), h, p) <=>
           \E b \in BindingsFor(opts, Table!Authority(ClaimsOf(opts), h)) :
             Matches(b.prefix, p) /\ x = <<b.service, b.prefix>>
  <1> DEFINE cl == ClaimsOf(opts)
             a == Table!Authority(cl, h)
  <1>1. Table!Deployed(cl) = Present(opts)
    BY DeployedIsPresent
  <1>2. ASSUME NEW n \in Present(opts)
        PROVE  /\ cl[n].prefixes = opts[n].prefixes /\ cl[n].prefixes \subseteq Prefixes
               /\ Table!HasHost(cl, n, a) <=> HasHost(opts[n], a)
    BY Claimed, OptionFields DEF Present
  <1>3. ASSUME NEW q PROVE Table!Covers(q, p) <=> Matches(q, p)
    BY DEF Table!Covers, Matches
  <1> HIDE DEF cl, a
  <1>4. ASSUME x \in Table!Candidates(cl, h, p)
        PROVE  \E b \in BindingsFor(opts, a) : Matches(b.prefix, p) /\ x = <<b.service, b.prefix>>
    <2>1. /\ x \in Table!Deployed(cl) \X UNION {cl[n].prefixes : n \in Table!Deployed(cl)}
          /\ Table!HasHost(cl, x[1], a) /\ x[2] \in cl[x[1]].prefixes /\ Table!Covers(x[2], p)
      BY <1>4 DEF Table!Candidates, a
    <2>2. x[1] \in Present(opts) /\ x = <<x[1], x[2]>>
      BY <1>1, <2>1
    <2>3. /\ HasHost(opts[x[1]], a) /\ x[2] \in opts[x[1]].prefixes /\ x[2] \in Prefixes
          /\ Matches(x[2], p)
      BY <1>2, <1>3, <2>1, <2>2
    <2>4. [prefix |-> x[2], service |-> x[1]] \in BindingsFor(opts, a)
      BY <2>2, <2>3 DEF BindingsFor, Present
    <2> QED BY <2>2, <2>3, <2>4
  <1>5. ASSUME NEW b \in BindingsFor(opts, a), Matches(b.prefix, p)
        PROVE  <<b.service, b.prefix>> \in Table!Candidates(cl, h, p)
    <2>1. /\ b.service \in Present(opts) /\ HasHost(opts[b.service], a)
          /\ b.prefix \in opts[b.service].prefixes
      BY BindingFields
    <2>2. /\ b.service \in Table!Deployed(cl) /\ Table!HasHost(cl, b.service, a)
          /\ b.prefix \in cl[b.service].prefixes /\ Table!Covers(b.prefix, p)
      BY <1>1, <1>2, <1>3, <1>5, <2>1
    <2> QED BY <2>2 DEF Table!Candidates, a
  <1> QED BY <1>4, <1>5 DEF cl, a

\* serviceFor finds the service the table chooses.
LEMMA ServiceForIsChosen ==
  ASSUME Counting, NEW opts \in OptionMaps, Disjoint(opts), NEW index \in Indexes(opts), NEW h, NEW p
  PROVE  /\ serviceFor(index, h, p).service = Table!Chosen(ClaimsOf(opts), h, p)
         /\ serviceFor(index, h, p).service \in Present(opts) \cup {None}
  <1> DEFINE cl == ClaimsOf(opts)
             a == Table!Authority(cl, h)
             found == bindingsForHost(index, h)
             hits == {i \in DOMAIN found : Matches(found[i].prefix, p)}
             C == Table!Candidates(cl, h, p)
  <1>1. a \in Hosts /\ found = index[a]
    BY BindingsOfAuthority
  <1>2. /\ DOMAIN found \subseteq Nat
        /\ \A i \in DOMAIN found : found[i] \in BindingsFor(opts, a)
        /\ \A b \in BindingsFor(opts, a) : \E i \in DOMAIN found : found[i] = b
        /\ Sorted(found)
    BY <1>1, IndexAt
  <1>3. ASSUME NEW x
        PROVE  x \in C <=> \E i \in hits : x = <<found[i].service, found[i].prefix>>
    <2>1. x \in C <=> \E b \in BindingsFor(opts, a) : Matches(b.prefix, p) /\ x = <<b.service, b.prefix>>
      BY CandidatesAreBindings
    <2> HIDE DEF a, found, C
    <2> QED BY <1>2, <2>1
  <1>4. CASE hits = {}
    <2>1. C = {}
      BY <1>3, <1>4
    <2>2. serviceFor(index, h, p) = NoBinding
      BY <1>4 DEF serviceFor
    <2>3. Table!Chosen(cl, h, p) = None
      BY <2>1 DEF Table!Chosen
    <2> QED BY <2>2, <2>3 DEF NoBinding
  <1>5. CASE hits # {}
    <2> DEFINE k == CHOOSE i \in hits : \A j \in hits : i <= j
    <2>1. k \in hits /\ \A j \in hits : k <= j
      <3>1. \E i \in hits : \A j \in hits : i <= j
        BY Zenon, <1>2, <1>5 DEF Counting
      <3> HIDE DEF hits
      <3> QED BY <3>1
    <2>2. serviceFor(index, h, p) = found[k]
      BY <1>5 DEF serviceFor
    <2> HIDE DEF k
    <2>3. ASSUME NEW i \in hits
          PROVE  /\ found[i].prefix \in Prefixes /\ found[i].prefix \in Seq(STRING)
                 /\ found[i].service \in Present(opts)
                 /\ HasHost(opts[found[i].service], a)
                 /\ found[i].prefix \in opts[found[i].service].prefixes
                 /\ Matches(found[i].prefix, p)
      <3>1. found[i] \in BindingsFor(opts, a) /\ Matches(found[i].prefix, p)
        BY <1>2, <2>3
      <3> HIDE DEF found, a
      <3>2. found[i].prefix \in Prefixes /\ found[i].prefix \in Seq(STRING)
        BY <3>1, BindingFields, ServiceMapConstants
      <3> QED BY <3>1, <3>2, BindingFields
    <2>4. ASSUME NEW j \in hits PROVE Len(found[j].prefix) <= Len(found[k].prefix)
      <3> SUFFICES ASSUME Len(found[k].prefix) < Len(found[j].prefix) PROVE FALSE
        BY <2>1, <2>3
      <3> DEFINE q == found[k].prefix
                 r == found[j].prefix
      <3>1. q \in Prefixes /\ r \in Prefixes /\ q \in Seq(STRING) /\ r \in Seq(STRING)
            /\ Matches(q, p) /\ Matches(r, p)
        BY <2>1, <2>3, <2>4
      <3>2. Len(q) < Len(r)
        OBVIOUS
      <3>3. j # k /\ k <= j /\ j \in Nat /\ k \in Nat /\ j \in DOMAIN found /\ k \in DOMAIN found
        BY <1>2, <2>1, <2>4, <3>2
      <3>4. Length[q] >= Length[r]
        BY <1>2, <3>3 DEF Sorted
      <3> HIDE DEF q, r
      <3>5. Matches(q, r) /\ q # r
        BY <3>1, <3>2, PrefixesNest
      <3>6. Length[q] < Length[r] /\ Length[q] \in Nat /\ Length[r] \in Nat
        BY <3>1, <3>5, ServiceMapConstants
      <3> QED BY <3>4, <3>6
    <2> DEFINE best(x) == \A y \in C : Len(y[2]) <= Len(x[2])
               top == <<found[k].service, found[k].prefix>>
    <2>5. top \in C /\ best(top)
      <3>1. top \in C
        BY <1>3, <2>1
      <3>2. ASSUME NEW y \in C PROVE Len(y[2]) <= Len(top[2])
        <4>1. PICK j \in hits : y = <<found[j].service, found[j].prefix>>
          BY <1>3, <3>2
        <4> QED BY <2>4, <4>1
      <3> QED BY <3>1, <3>2
    <2>6. ASSUME NEW x \in C, best(x) PROVE x[1] = found[k].service
      <3>1. PICK j \in hits : x = <<found[j].service, found[j].prefix>>
        BY <1>3, <2>6
      <3>2. Len(found[k].prefix) <= Len(found[j].prefix)
        BY <2>5, <2>6, <3>1
      <3>3. Len(found[j].prefix) <= Len(found[k].prefix)
        BY <2>4, <3>1
      <3>4. found[j].prefix = found[k].prefix
        <4>1. Len(found[j].prefix) = Len(found[k].prefix)
          BY <2>3, <3>1, <3>2, <3>3
        <4> QED BY ZenonT(30), <2>1, <2>3, <3>1, <4>1, PrefixesEqual
      <3>5. found[j].service = found[k].service
        BY ZenonT(30), <1>1, <2>1, <2>3, <3>1, <3>4 DEF Disjoint
      <3> QED BY <3>1, <3>5
    <2>p. found[k].service \in Present(opts)
      BY <2>1, <2>3
    <2> HIDE DEF C, found, top
    <2>7. Table!Chosen(cl, h, p) = (CHOOSE x \in C : best(x))[1]
      BY <2>5 DEF Table!Chosen, C
    <2>8. (CHOOSE x \in C : best(x)) \in C /\ best(CHOOSE x \in C : best(x))
      BY <2>5
    <2> QED BY <2>p, <2>2, <2>6, <2>7, <2>8 DEF cl
  <1> QED BY <1>4, <1>5

-----------------------------------------------------------------------------
\* syncTLSOptionsFromRootDomain leaves hosts and prefixes alone and gives every
\* service the settings of the table.
LEMMA SyncSettings ==
  ASSUME Counting, NEW opts \in OptionMaps, Disjoint(opts), NEW index \in Indexes(opts),
         NEW own, \A n \in Present(opts) : own[n] = opts[n].tls,
         NEW new, new = syncTLSOptions(opts, index)
  PROVE  /\ new \in OptionMaps /\ Disjoint(new) /\ index \in Indexes(new)
         /\ ClaimsOf(new) = ClaimsOf(opts)
         /\ TLSOf(new) = Table!Settings(ClaimsOf(opts), own)
  <1> DEFINE root(n) == serviceFor(index, opts[n].hosts[1], Root).service
             synced(n) == [opts[n] EXCEPT !.tls = IF root(n) = None THEN DefaultTLS ELSE opts[root(n)].tls]
             cl == ClaimsOf(opts)
  <1>1. ASSUME NEW n \in Names
        PROVE  /\ root(n) = Table!Chosen(cl, opts[n].hosts[1], Root)
               /\ root(n) \in Present(opts) \cup {None}
    BY ServiceForIsChosen
  <1>2. ASSUME NEW n \in Names
        PROVE  new[n] = IF opts[n] = None \/ servesRootPath(opts[n]) THEN opts[n] ELSE synced(n)
    BY DEF syncTLSOptions
  <1>3. ASSUME NEW n \in Names, opts[n] # None
        PROVE  /\ synced(n) \in Normalized /\ synced(n).hosts = opts[n].hosts
               /\ synced(n).prefixes = opts[n].prefixes
               /\ synced(n).tls = IF root(n) = None THEN DefaultTLS ELSE opts[root(n)].tls
    <2> HIDE DEF root
    <2>1. opts[n] \in Normalized
      BY <1>3, OptionFields
    <2>2. (IF root(n) = None THEN DefaultTLS ELSE opts[root(n)].tls) \in TLSSettings
      BY <1>1, OptionFields, ServiceMapConstants DEF Present
    <2> QED BY <2>1, <2>2 DEF Normalized
  <1> HIDE DEF synced, root
  <1>n. None \notin Normalized
    <2>1. Normalized \subseteq OptionsRecord
      BY DEF Normalized, OptionsRecord
    <2> QED BY <2>1, ServiceMapConstants
  <1>4. ASSUME NEW n \in Names
        PROVE  /\ new[n] = None <=> opts[n] = None
               /\ new[n] \in Normalized \cup {None}
               /\ opts[n] # None => new[n].hosts = opts[n].hosts /\ new[n].prefixes = opts[n].prefixes
    <2>1. opts[n] # None => opts[n] \in Normalized
      BY OptionFields
    <2> QED BY <1>2, <1>3, <1>n, <2>1
  <1>5. new \in OptionMaps
    <2>1. new = [n \in Names |-> new[n]]
      BY Zenon DEF syncTLSOptions
    <2> QED BY Zenon, <1>4, <2>1 DEF OptionMaps
  <1>6. Present(new) = Present(opts)
    BY <1>4 DEF Present
  <1>7. Disjoint(new)
    BY SMTT(30), <1>4, <1>6 DEF Disjoint, HasHost, Present
  <1>8. ASSUME NEW h PROVE BindingsFor(new, h) = BindingsFor(opts, h)
    BY <1>4 DEF BindingsFor, HasHost
  <1>9. index \in Indexes(new)
    BY <1>8 DEF Indexes
  <1>10. ClaimsOf(new) = ClaimsOf(opts)
    BY <1>4 DEF ClaimsOf
  <1>11. ASSUME NEW n \in Names
         PROVE  TLSOf(new)[n] = Table!Settings(cl, own)[n]
    <2>1. CASE opts[n] = None
      <3>1. cl[n] = None
        BY <2>1, Claimed
      <3>2. TLSOf(new)[n] = DefaultTLS
        BY <1>4, <2>1 DEF TLSOf
      <3> QED BY <3>1, <3>2 DEF Table!Settings
    <2>2. CASE opts[n] # None
      <3>1. cl[n] # None /\ cl[n].prefixes = opts[n].prefixes /\ cl[n].hosts = opts[n].hosts
        BY <2>2, Claimed
      <3>2. TLSOf(new)[n] = new[n].tls
        BY <1>4, <2>2 DEF TLSOf
      <3> HIDE DEF cl
      <3>3. CASE <<>> \in opts[n].prefixes
        <4>1. Table!Settings(cl, own)[n] = own[n]
          BY <3>1, <3>3 DEF Table!Settings
        <4>2. new[n] = opts[n] /\ own[n] = opts[n].tls
          BY <1>2, <2>2, <3>3 DEF servesRootPath, Root, Present
        <4> QED BY <3>2, <4>1, <4>2
      <3>4. CASE <<>> \notin opts[n].prefixes
        <4>1. root(n) = Table!Chosen(cl, cl[n].hosts[1], <<>>)
          BY <1>1, <3>1 DEF Root
        <4>2. Table!Settings(cl, own)[n] = IF root(n) = None THEN DefaultTLS ELSE own[root(n)]
          BY SMTT(30), <3>1, <3>4, <4>1 DEF Table!Settings
        <4>3. new[n].tls = IF root(n) = None THEN DefaultTLS ELSE opts[root(n)].tls
          BY <1>2, <1>3, <2>2, <3>4 DEF servesRootPath, Root
        <4>4. root(n) # None => own[root(n)] = opts[root(n)].tls
          BY <1>1
        <4> QED BY <3>2, <4>2, <4>3, <4>4
      <3> QED BY <3>3, <3>4
    <2> QED BY <2>1, <2>2
  <1>12. TLSOf(new) = Table!Settings(cl, own)
    BY SMTT(30), <1>11 DEF TLSOf, Table!Settings
  <1> QED BY <1>5, <1>7, <1>9, <1>10, <1>12

\* The routes of an index are those of the table.
LEMMA RoutesAreTheTables ==
  ASSUME Counting, NEW opts \in OptionMaps, Disjoint(opts), NEW index \in Indexes(opts)
  PROVE  RoutesOf(index) = Table!Routes(ClaimsOf(opts))
  <1>1. ASSUME NEW r \in RequestHosts \X Paths
        PROVE  RoutesOf(index)[r] = Table!Routes(ClaimsOf(opts))[r]
    BY ServiceForIsChosen DEF RoutesOf, Table!Routes
  <1> QED BY <1>1 DEF RoutesOf, Table!Routes

\* A change of the map is one of the table.
LEMMA UpdateRefines ==
  ASSUME Counting, NEW opts \in OptionMaps, Disjoint(opts), updateRequestServiceMap(opts),
         NEW own, \A n \in Present(opts) : own[n] = opts[n].tls
  PROVE  /\ MapInv'
         /\ ClaimsOf(options') = ClaimsOf(opts)
         /\ TLSOf(options') = Table!Settings(ClaimsOf(opts), own)
         /\ RoutesOf(bindings') = Table!Routes(ClaimsOf(opts))
  <1>1. PICK index \in Indexes(opts) : bindings' = index /\ options' = syncTLSOptions(opts, index)
    BY DEF updateRequestServiceMap
  <1>2. /\ options' \in OptionMaps /\ Disjoint(options') /\ index \in Indexes(options')
        /\ ClaimsOf(options') = ClaimsOf(opts)
        /\ TLSOf(options') = Table!Settings(ClaimsOf(opts), own)
    BY <1>1, SyncSettings
  <1> QED BY <1>1, <1>2, RoutesAreTheTables DEF MapInv

-----------------------------------------------------------------------------
\* What CheckAvailability lets through is free of every other service.
LEMMA AvailableIsFree ==
  ASSUME MapInv, NEW n \in Names, NEW o \in Normalized, CheckAvailability(n, o)
  PROVE  \A m \in Present(options) \ {n}, h \in Hosts :
           HasHost(o, h) /\ HasHost(options[m], h) => o.prefixes \cap options[m].prefixes = {}
  <1> SUFFICES ASSUME NEW m \in Present(options) \ {n}, NEW h \in Hosts,
                      HasHost(o, h), HasHost(options[m], h),
                      NEW q \in o.prefixes, q \in options[m].prefixes
               PROVE  FALSE
    BY DEF Present
  <1>1. options \in OptionMaps /\ bindings \in Indexes(options)
    BY DEF MapInv
  <1>2. q \in Prefixes
    BY DEF Normalized
  <1> DEFINE b == [prefix |-> q, service |-> m]
  <1>3. b \in BindingsFor(options, h) /\ b.prefix = q /\ b.service = m
    BY <1>2 DEF BindingsFor, Present
  <1> HIDE DEF b
  <1>4. PICK i \in DOMAIN bindings[h] : bindings[h][i] = b
    BY <1>1, <1>3, IndexAt
  <1>5. b.service = n
    BY <1>3, <1>4 DEF CheckAvailability
  <1> QED BY <1>3, <1>5

\* A deployment of the map is one of the table.
LEMMA SetRefines ==
  ASSUME Counting, MapInv, NEW n \in Names, NEW r \in Requested, Set(n, r)
  PROVE  MapInv' /\ Table!Deploy(n, Normalize(r))
  <1> DEFINE o == Normalize(r)
             opts == [options EXCEPT ![n] = o]
             own == [TLSOf(options) EXCEPT ![n] = o.tls]
  <1>1. options \in OptionMaps /\ Disjoint(options)
    BY DEF MapInv
  <1>2. o \in Normalized /\ o # None
    BY NormalizeNormalizes
  <1>s. CheckAvailability(n, o) /\ updateRequestServiceMap(opts)
    BY DEF Set
  <1>3. \A m \in Present(options) \ {n}, h \in Hosts :
          HasHost(o, h) /\ HasHost(options[m], h) => o.prefixes \cap options[m].prefixes = {}
    BY <1>2, <1>s, AvailableIsFree
  <1>o. o.hosts \in Seq(Hosts)
    BY <1>2 DEF Normalized
  <1> HIDE DEF o
  <1>4. opts \in OptionMaps
    BY <1>1, <1>2 DEF OptionMaps
  <1>5. opts[n] = o /\ \A m \in Names : m # n => opts[m] = options[m]
    BY <1>1 DEF OptionMaps
  <1>6. Present(opts) = Present(options) \cup {n}
    BY <1>2, <1>5 DEF Present
  <1> HIDE DEF opts
  <1>7. Disjoint(opts)
    <2> SUFFICES ASSUME NEW m \in Present(opts), NEW l \in Present(opts), m # l, NEW h \in Hosts,
                        HasHost(opts[m], h), HasHost(opts[l], h)
                 PROVE  opts[m].prefixes \cap opts[l].prefixes = {}
      BY DEF Disjoint
    <2>p. m \in Names /\ l \in Names
      BY DEF Present
    <2>1. CASE m = n
      BY <1>3, <1>5, <1>6, <2>p, <2>1
    <2>2. CASE l = n
      BY <1>3, <1>5, <1>6, <2>p, <2>2
    <2>3. CASE m # n /\ l # n
      BY <1>1, <1>5, <1>6, <2>p, <2>3 DEF Disjoint
    <2> QED BY <2>1, <2>2, <2>3
  <1>8. \A m \in Present(opts) : own[m] = opts[m].tls
    BY <1>5, <1>6 DEF TLSOf, Present
  <1> HIDE DEF own
  <1>9. /\ MapInv'
        /\ ClaimsOf(options') = ClaimsOf(opts)
        /\ TLSOf(options') = Table!Settings(ClaimsOf(opts), own)
        /\ RoutesOf(bindings') = Table!Routes(ClaimsOf(opts))
    BY SMTT(30), <1>4, <1>7, <1>8, <1>s, UpdateRefines
  <1>10. ClaimsOf(opts) = [ClaimsOf(options) EXCEPT ![n] = Table!Claim(o)]
    BY Zenon, <1>2, <1>5 DEF ClaimsOf, Table!Claim
  <1>11. Table!Free(n, o)
    <2> SUFFICES ASSUME NEW m \in Table!Deployed(ClaimsOf(options)) \ {n},
                        NEW i \in 1..Len(o.hosts), Table!HasHost(ClaimsOf(options), m, o.hosts[i])
                 PROVE  o.prefixes \cap ClaimsOf(options)[m].prefixes = {}
      BY ZenonT(30) DEF Table!Free, ClaimsOf
    <2>1. m \in Present(options) \ {n} /\ m \in Names
      BY <1>1, DeployedIsPresent DEF Present
    <2>2. HasHost(options[m], o.hosts[i]) /\ ClaimsOf(options)[m].prefixes = options[m].prefixes
      BY SMTT(30), <1>1, <2>1, Claimed DEF Present
    <2>3. o.hosts[i] \in Hosts /\ HasHost(o, o.hosts[i])
      BY <1>o DEF HasHost
    <2> QED BY SMTT(30), <1>3, <2>1, <2>2, <2>3
  <1> QED BY Zenon, <1>9, <1>10, <1>11 DEF Table!Deploy, Table!Update, ClaimsOf, TLSOf, RoutesOf, own, o

\* A removal is one of the table.
LEMMA RemoveRefines ==
  ASSUME Counting, MapInv, NEW n \in Names, RemoveName(n)
  PROVE  MapInv' /\ Table!Remove(n)
  <1> DEFINE opts == [options EXCEPT ![n] = None]
  <1>1. options \in OptionMaps /\ Disjoint(options)
    BY DEF MapInv
  <1>s. options[n] # None /\ updateRequestServiceMap(opts)
    BY DEF RemoveName
  <1>4. opts \in OptionMaps
    BY <1>1 DEF OptionMaps
  <1>5. opts[n] = None /\ \A m \in Names : m # n => opts[m] = options[m]
    BY <1>1 DEF OptionMaps
  <1> HIDE DEF opts
  <1>6. Present(opts) = Present(options) \ {n}
    BY <1>5 DEF Present
  <1>7. Disjoint(opts)
    BY <1>1, <1>5, <1>6 DEF Disjoint, Present
  <1>8. \A m \in Present(opts) : TLSOf(options)[m] = opts[m].tls
    BY <1>5, <1>6 DEF TLSOf, Present
  <1>9. /\ MapInv'
        /\ ClaimsOf(options') = ClaimsOf(opts)
        /\ TLSOf(options') = Table!Settings(ClaimsOf(opts), TLSOf(options))
        /\ RoutesOf(bindings') = Table!Routes(ClaimsOf(opts))
    BY SMTT(30), <1>4, <1>7, <1>8, <1>s, UpdateRefines
  <1>10. ClaimsOf(opts) = [ClaimsOf(options) EXCEPT ![n] = None]
    BY Zenon, <1>5 DEF ClaimsOf
  <1>11. ClaimsOf(options)[n] # None
    BY <1>1, <1>s, Claimed
  <1> QED BY Zenon, <1>9, <1>10, <1>11 DEF Table!Remove, Table!Update, ClaimsOf, TLSOf, RoutesOf

\* The empty map is the empty table.
LEMMA InitRefines ==
  ASSUME Counting, MapInit
  PROVE  MapInv /\ Table!Init
  <1>1. options \in OptionMaps /\ Present(options) = {}
    BY DEF MapInit, OptionMaps, Present
  <1>2. Disjoint(options)
    BY <1>1 DEF Disjoint
  <1>3. ASSUME NEW h PROVE BindingsFor(options, h) = {}
    BY DEF MapInit, BindingsFor
  <1>4. <<>> \in Orders({})
    <2>1. Cardinality({}) = 0
      BY Zenon DEF Counting
    <2> QED BY <2>1 DEF Orders, Sorted
  <1>5. bindings \in Indexes(options)
    BY Zenon, <1>3, <1>4 DEF MapInit, Indexes
  <1>6. ASSUME NEW r \in RequestHosts \X Paths PROVE serviceFor(bindings, r[1], r[2]).service = None
    <2>1. bindingsForHost(bindings, r[1]) = <<>>
      BY ServiceMapConstants DEF MapInit, bindingsForHost
    <2>2. DOMAIN <<>> = {}
      OBVIOUS
    <2> QED BY <2>1, <2>2 DEF serviceFor, NoBinding
  <1> QED BY <1>1, <1>2, <1>5, <1>6 DEF MapInit, MapInv, Table!Init

-----------------------------------------------------------------------------
\* What a buffer holds after Write and Close, for every limit and every piece.

\* Bytes, as sequences of numbers.
LEMMA LenBytes == \A s \in Seq(Nat) : Len(s) \in Nat
  OBVIOUS

LEMMA Elements == \A s \in Seq(Nat) : \A i \in 1..Len(s) : s[i] \in Nat
  OBVIOUS

LEMMA NoBytes == <<>> \in Seq(Nat) /\ Len(<<>>) = 0 /\ \A s \in Seq(Nat) : Len(s) = 0 => s = <<>>
  OBVIOUS

LEMMA ConcatBytes ==
  \A s, t \in Seq(Nat) :
    /\ s \o t \in Seq(Nat) /\ Len(s \o t) = Len(s) + Len(t)
    /\ \A i \in 1..(Len(s) + Len(t)) : (s \o t)[i] = IF i <= Len(s) THEN s[i] ELSE t[i - Len(s)]
  OBVIOUS

LEMMA ConcatNone == \A s \in Seq(Nat) : s \o <<>> = s /\ <<>> \o s = s
  OBVIOUS

LEMMA SameBytes ==
  \A s, t \in Seq(Nat) : Len(s) = Len(t) /\ (\A i \in 1..Len(s) : s[i] = t[i]) => s = t
  OBVIOUS

LEMMA Part ==
  \A s \in Seq(Nat) : \A m \in Nat \ {0}, n \in Nat : n <= Len(s) =>
    /\ SubSeq(s, m, n) \in Seq(Nat)
    /\ Len(SubSeq(s, m, n)) = (IF m <= n THEN n - m + 1 ELSE 0)
    /\ \A i \in 1..Len(SubSeq(s, m, n)) : SubSeq(s, m, n)[i] = s[m + i - 1]
  OBVIOUS

BufferType == [memory : Seq(Nat), disk : Seq(Nat), created : BOOLEAN, overflowed : BOOLEAN, closed : BOOLEAN]

LEMMA Associative == \A s, t, u \in Seq(Nat) : (s \o t) \o u = s \o (t \o u)
  BY SMTT(30)

LEMMA EmptyBounded ==
  ASSUME NEW maxBytes \in Nat, NEW maxMem \in Nat
  PROVE  EmptyBuffer \in BufferType /\ Bounded(EmptyBuffer, maxBytes, maxMem) /\ Contents(EmptyBuffer) = <<>>
  <1>1. <<>> \in Seq(Nat) /\ Len(<<>>) = 0 /\ <<>> \o <<>> = <<>>
    BY Zenon, NoBytes, ConcatNone
  <1>2. EmptyBuffer.memory = <<>> /\ EmptyBuffer.disk = <<>>
    BY Zenon DEF EmptyBuffer
  <1> QED BY <1>1, <1>2 DEF EmptyBuffer, BufferType, Bounded, Contents, TotalWritten

\* The fields of a buffer that was written to.
LEMMA BufferFields ==
  ASSUME NEW b \in BufferType
  PROVE  /\ b.memory \in Seq(Nat) /\ b.disk \in Seq(Nat) /\ b.created \in BOOLEAN
         /\ b.overflowed \in BOOLEAN /\ b.closed \in BOOLEAN
         /\ Len(b.memory) \in Nat /\ Len(b.disk) \in Nat
  <1>1. /\ b.memory \in Seq(Nat) /\ b.disk \in Seq(Nat) /\ b.created \in BOOLEAN
        /\ b.overflowed \in BOOLEAN /\ b.closed \in BOOLEAN
    BY Zenon DEF BufferType
  <1> QED BY Zenon, <1>1, LenBytes

\* The buffer has a spill file and room for p.
RoomFor(b, p, maxBytes, maxMem) ==
  b.created /\ Len(b.memory) <= maxMem /\ (maxBytes > 0 => TotalWritten(b) + Len(p) <= maxBytes)

\* What comes out of writing p to the file of such a buffer.
WroteToDisk(out, b, p, maxBytes, maxMem) ==
  /\ out.buffer \in BufferType /\ Bounded(out.buffer, maxBytes, maxMem)
  /\ out.buffer.overflowed = b.overflowed
  /\ out.error \in {"none", "disk"}
  /\ out.error = "none" => Contents(out.buffer) = Contents(b) \o p

\* What WriteToDisk makes of a buffer that has room for p.
LEMMA DiskStep ==
  ASSUME NEW maxBytes \in Nat, NEW maxMem \in Nat,
         NEW b \in BufferType, NEW p \in Seq(Nat), RoomFor(b, p, maxBytes, maxMem),
         NEW out \in WriteToDisk(b, p)
  PROVE  WroteToDisk(out, b, p, maxBytes, maxMem)
  <1> SUFFICES /\ out.buffer \in BufferType /\ Bounded(out.buffer, maxBytes, maxMem)
               /\ out.buffer.overflowed = b.overflowed
               /\ out.error \in {"none", "disk"}
               /\ out.error = "none" => Contents(out.buffer) = Contents(b) \o p
    BY Zenon DEF WroteToDisk
  <1>0. b.created /\ Len(b.memory) <= maxMem /\ (maxBytes > 0 => TotalWritten(b) + Len(p) <= maxBytes)
    BY Zenon DEF RoomFor
  <1>b. /\ b.memory \in Seq(Nat) /\ b.disk \in Seq(Nat)
        /\ Len(b.memory) \in Nat /\ Len(b.disk) \in Nat /\ Len(p) \in Nat /\ maxBytes \in Nat
    BY Zenon, BufferFields, LenBytes
  <1>1. ASSUME NEW q \in Seq(Nat), Len(q) <= Len(p)
        PROVE  /\ [b EXCEPT !.disk = @ \o q] \in BufferType
               /\ Bounded([b EXCEPT !.disk = @ \o q], maxBytes, maxMem)
               /\ [b EXCEPT !.disk = @ \o q].overflowed = b.overflowed
    <2>1. b.disk \o q \in Seq(Nat) /\ Len(b.disk \o q) = Len(b.disk) + Len(q) /\ Len(q) \in Nat
      BY <1>b, ConcatBytes, LenBytes
    <2> DEFINE c == [b EXCEPT !.disk = @ \o q]
    <2>2. /\ c \in BufferType /\ c.memory = b.memory /\ c.disk = b.disk \o q
          /\ c.created = b.created /\ c.overflowed = b.overflowed
      BY Zenon, <2>1 DEF BufferType
    <2> HIDE DEF c
    <2>3. Bounded(c, maxBytes, maxMem)
      <3>1. Len(c.memory) <= maxMem
        BY Zenon, <1>0, <2>2
      <3>2. maxBytes > 0 => TotalWritten(c) <= maxBytes
        <4>1. Len(c.memory) = Len(b.memory) /\ Len(c.disk) = Len(b.disk) + Len(q)
          BY Zenon, <2>1, <2>2
        <4>2. /\ Len(b.memory) \in Nat /\ Len(b.disk) \in Nat /\ Len(p) \in Nat /\ Len(q) \in Nat
              /\ maxBytes \in Nat /\ Len(q) <= Len(p)
              /\ maxBytes > 0 => (Len(b.memory) + Len(b.disk)) + Len(p) <= maxBytes
          BY Zenon, <1>0, <1>b, <1>1, <2>1 DEF TotalWritten
        <4>3. \A i, j, k, l, m \in Nat : k <= l /\ (m > 0 => (i + j) + l <= m) => (m > 0 => i + (j + k) <= m)
          OBVIOUS
        <4>4. maxBytes > 0 => Len(b.memory) + (Len(b.disk) + Len(q)) <= maxBytes
          BY Zenon, <4>2, <4>3
        <4> QED BY Zenon, <4>1, <4>4 DEF TotalWritten
      <3>3. c.created
        BY Zenon, <1>0, <2>2
      <3> QED BY Zenon, <3>1, <3>2, <3>3 DEF Bounded
    <2> QED BY Zenon, <2>2, <2>3 DEF c
  <1>2. CASE out = Outcome([b EXCEPT !.disk = @ \o p], "none")
    <2>1. out.buffer = [b EXCEPT !.disk = @ \o p] /\ out.error = "none"
      BY Zenon, <1>2 DEF Outcome
    <2>2. out.buffer.memory = b.memory /\ out.buffer.disk = b.disk \o p
      BY SMTT(30), <2>1 DEF BufferType
    <2>3. Contents(out.buffer) = Contents(b) \o p
      <3>1. (b.memory \o b.disk) \o p = b.memory \o (b.disk \o p)
        BY ZenonT(30), <1>b, Associative
      <3> QED BY Zenon, <2>2, <3>1 DEF Contents
    <2>4. Len(p) <= Len(p)
      BY <1>b
    <2> QED BY Zenon, <1>1, <2>1, <2>3, <2>4
  <1>3. ASSUME NEW n \in 0..(Len(p) - 1), out = Outcome([b EXCEPT !.disk = @ \o SubSeq(p, 1, n)], "disk")
        PROVE  /\ out.buffer \in BufferType /\ Bounded(out.buffer, maxBytes, maxMem)
               /\ out.buffer.overflowed = b.overflowed /\ out.error = "disk"
    <2>1. SubSeq(p, 1, n) \in Seq(Nat) /\ Len(SubSeq(p, 1, n)) <= Len(p)
      <3>1. \A i \in 1..n : p[i] \in Nat
        BY SMTT(30), <1>b, Elements
      <3> QED BY <1>b, <3>1, Part
    <2>2. out.buffer = [b EXCEPT !.disk = @ \o SubSeq(p, 1, n)] /\ out.error = "disk"
      BY Zenon, <1>3 DEF Outcome
    <2> QED BY Zenon, <1>1, <2>1, <2>2
  <1> QED BY Zenon, <1>2, <1>3 DEF WriteToDisk

\* The parts of a piece that go to memory and to the file.
LEMMA Cut ==
  ASSUME NEW p \in Seq(Nat), NEW n \in 0..Len(p)
  PROVE  /\ SubSeq(p, 1, n) \in Seq(Nat) /\ Len(SubSeq(p, 1, n)) = n
         /\ SubSeq(p, n + 1, Len(p)) \in Seq(Nat) /\ Len(SubSeq(p, n + 1, Len(p))) = Len(p) - n
         /\ SubSeq(p, 1, n) \o SubSeq(p, n + 1, Len(p)) = p
  <1>1. \A i \in 1..Len(p) : p[i] \in Nat
    BY Zenon, Elements
  <1>2. Len(p) \in Nat /\ n \in Nat /\ n <= Len(p)
    BY LenBytes
  <1>3. SubSeq(p, 1, n) \in Seq(Nat) /\ Len(SubSeq(p, 1, n)) = n
    BY <1>1, <1>2, Part
  <1>4. SubSeq(p, n + 1, Len(p)) \in Seq(Nat) /\ Len(SubSeq(p, n + 1, Len(p))) = Len(p) - n
    BY <1>1, <1>2, Part
  <1>5. SubSeq(p, 1, n) \o SubSeq(p, n + 1, Len(p)) = p
    <2>1. PICK s, t \in Seq(Nat) : s = SubSeq(p, 1, n) /\ t = SubSeq(p, n + 1, Len(p))
      BY Zenon, <1>3, <1>4
    <2>2. Len(s) = n /\ Len(t) = Len(p) - n
      BY Zenon, <1>3, <1>4, <2>1
    <2>3. \A i \in 1..n : s[i] = p[i]
      BY <1>2, <2>1, <2>2, Part
    <2>4. \A i \in 1..(Len(p) - n) : t[i] = p[n + i]
      BY <1>2, <2>1, <2>2, Part
    <2>5. n + (Len(p) - n) = Len(p)
      BY <1>2
    <2>6. /\ s \o t \in Seq(Nat) /\ Len(s \o t) = Len(p)
          /\ \A i \in 1..Len(p) : (s \o t)[i] = IF i <= n THEN s[i] ELSE t[i - n]
      <3>1. /\ s \o t \in Seq(Nat) /\ Len(s \o t) = Len(s) + Len(t)
            /\ \A i \in 1..(Len(s) + Len(t)) : (s \o t)[i] = IF i <= Len(s) THEN s[i] ELSE t[i - Len(s)]
        BY Zenon, ConcatBytes
      <3>2. Len(s) + Len(t) = Len(p) /\ Len(s) = n
        BY Zenon, <2>2, <2>5
      <3> QED BY Zenon, <3>1, <3>2
    <2>7. ASSUME NEW i \in 1..Len(p)
          PROVE  (s \o t)[i] = p[i]
      <3>1. CASE i <= n
        <4>1. i \in 1..n
          BY <1>2, <3>1
        <4> QED BY Zenon, <2>3, <2>6, <3>1, <4>1
      <3>2. CASE ~(i <= n)
        <4>1. i - n \in 1..(Len(p) - n) /\ n + (i - n) = i
          BY <1>2, <3>2
        <4> QED BY Zenon, <2>4, <2>6, <3>2, <4>1
      <3> QED BY Zenon, <3>1, <3>2
    <2> QED BY Zenon, <2>1, <2>6, <2>7, SameBytes
  <1> QED BY Zenon, <1>3, <1>4, <1>5

\* What Write makes of a buffer.
LEMMA WriteBounded ==
  ASSUME NEW maxBytes \in Nat, NEW maxMem \in Nat,
         NEW b \in BufferType, Bounded(b, maxBytes, maxMem), NEW p \in Seq(Nat),
         NEW out \in Write(b, p, maxBytes, maxMem)
  PROVE  /\ out.buffer \in BufferType /\ Bounded(out.buffer, maxBytes, maxMem)
         /\ out.error \in {"none", "toolarge", "disk"}
         /\ out.error = "none" => Contents(out.buffer) = Contents(b) \o p
         /\ out.error = "toolarge" \/ b.overflowed => out.buffer.overflowed
  <1>b. /\ b.memory \in Seq(Nat) /\ b.disk \in Seq(Nat)
        /\ Len(b.memory) \in Nat /\ Len(b.disk) \in Nat /\ Len(p) \in Nat
    BY Zenon, BufferFields, LenBytes
  <1>m. maxBytes \in Nat /\ maxMem \in Nat /\ Len(b.memory) <= maxMem
    BY Zenon DEF Bounded
  <1>1. CASE Exceeds(b, p, maxBytes)
    <2> DEFINE c == [b EXCEPT !.overflowed = TRUE]
    <2>1. out.buffer = c /\ out.error = "toolarge"
      BY <1>1 DEF Write, Outcome
    <2>2. /\ c \in BufferType /\ c.overflowed /\ c.memory = b.memory /\ c.disk = b.disk
          /\ c.created = b.created
      BY Zenon DEF BufferType
    <2> HIDE DEF c
    <2>3. Bounded(c, maxBytes, maxMem)
      BY Zenon, <2>2 DEF Bounded, TotalWritten
    <2> QED BY Zenon, <2>1, <2>2, <2>3
  <1>2. CASE ~Exceeds(b, p, maxBytes) /\ b.created
    <2>1. maxBytes > 0 => TotalWritten(b) + Len(p) <= maxBytes
      <3>1. ~(maxBytes > 0 /\ TotalWritten(b) + Len(p) > maxBytes)
        BY Zenon, <1>2 DEF Exceeds
      <3>2. \A i, j, l, m \in Nat : ~(m > 0 /\ (i + j) + l > m) => (m > 0 => (i + j) + l <= m)
        OBVIOUS
      <3> QED BY Zenon, <3>1, <3>2, <1>b, <1>m DEF TotalWritten
    <2>2. out \in WriteToDisk(b, p)
      BY Zenon, <1>2 DEF Write
    <2>3. /\ out.buffer \in BufferType /\ Bounded(out.buffer, maxBytes, maxMem)
          /\ out.buffer.overflowed = b.overflowed /\ out.error \in {"none", "disk"}
          /\ out.error = "none" => Contents(out.buffer) = Contents(b) \o p
      <3>1. RoomFor(b, p, maxBytes, maxMem)
        BY Zenon, <1>2, <1>m, <2>1 DEF RoomFor
      <3>2. WroteToDisk(out, b, p, maxBytes, maxMem)
        BY Zenon, <1>m, <2>2, <3>1, DiskStep
      <3> QED BY Zenon, <3>2 DEF WroteToDisk
    <2> QED BY Zenon, <2>3
  <1>3. CASE ~Exceeds(b, p, maxBytes) /\ ~b.created /\ Len(b.memory) + Len(p) <= maxMem
    <2> DEFINE c == [b EXCEPT !.memory = @ \o p]
    <2>1. out.buffer = c /\ out.error = "none"
      BY <1>3 DEF Write, Outcome
    <2>2. b.memory \o p \in Seq(Nat) /\ Len(b.memory \o p) = Len(b.memory) + Len(p)
      BY Zenon, <1>b, ConcatBytes
    <2>3. /\ c \in BufferType /\ c.overflowed = b.overflowed /\ c.memory = b.memory \o p
          /\ c.disk = b.disk /\ c.created = b.created
      BY Zenon, <2>2 DEF BufferType
    <2> HIDE DEF c
    <2>4. b.disk = <<>> /\ Len(b.disk) = 0
      BY Zenon, <1>3, NoBytes DEF Bounded
    <2>5. Len(c.memory) = Len(b.memory) + Len(p) /\ Len(c.disk) = 0
      BY Zenon, <2>2, <2>3, <2>4
    <2>6. Len(c.memory) <= maxMem /\ (maxBytes > 0 => TotalWritten(c) <= maxBytes)
      BY <2>5, <2>4, <1>3, <1>b, <1>m DEF TotalWritten, Exceeds
    <2>7. Bounded(c, maxBytes, maxMem)
      BY Zenon, <2>3, <2>4, <2>6 DEF Bounded
    <2>8. (b.memory \o p) \o <<>> = b.memory \o p /\ b.memory \o <<>> = b.memory
      BY Zenon, <1>b, <2>2, ConcatNone
    <2>9. Contents(c) = Contents(b) \o p
      BY Zenon, <2>3, <2>4, <2>8 DEF Contents
    <2> QED BY Zenon, <2>1, <2>3, <2>7, <2>9
  <1>4. CASE ~Exceeds(b, p, maxBytes) /\ ~b.created /\ ~(Len(b.memory) + Len(p) <= maxMem)
    <2> DEFINE room == maxMem - Len(b.memory)
               head == SubSeq(p, 1, room)
               rest == SubSeq(p, room + 1, Len(p))
               c == [b EXCEPT !.created = TRUE, !.memory = @ \o head]
    <2>1. out = Outcome(b, "disk") \/ out \in WriteToDisk(c, rest)
      BY Zenon, <1>4 DEF Write, Spill
    <2>2. CASE out = Outcome(b, "disk")
      <3>1. out.buffer = b /\ out.error = "disk"
        BY Zenon, <2>2 DEF Outcome
      <3> QED BY Zenon, <3>1
    <2>3. CASE out \in WriteToDisk(c, rest)
      <3>1. room \in 0..Len(p)
        BY <1>4, <1>b, <1>m
      <3>2. /\ head \in Seq(Nat) /\ Len(head) = room /\ rest \in Seq(Nat) /\ Len(rest) = Len(p) - room
            /\ head \o rest = p
        BY Zenon, <3>1, Cut
      <3> HIDE DEF head, rest
      <3>3. b.memory \o head \in Seq(Nat) /\ Len(b.memory \o head) = Len(b.memory) + Len(head)
        BY Zenon, <1>b, <3>2, ConcatBytes
      <3>4. /\ c \in BufferType /\ c.overflowed = b.overflowed /\ c.memory = b.memory \o head
            /\ c.disk = b.disk /\ c.created = TRUE
        BY Zenon, <3>3 DEF BufferType
      <3> HIDE DEF c
      <3>5. b.disk = <<>> /\ Len(b.disk) = 0
        BY Zenon, <1>4, NoBytes DEF Bounded
      <3>6. Len(c.memory) = Len(b.memory) + Len(head) /\ Len(c.disk) = 0
        BY Zenon, <3>3, <3>4, <3>5
      <3>7. Len(c.memory) <= maxMem /\ (maxBytes > 0 => TotalWritten(c) + Len(rest) <= maxBytes)
        BY SMTT(30), <3>6, <3>5, <3>2, <3>1, <1>4, <1>b, <1>m DEF TotalWritten, Exceeds
      <3>8. /\ out.buffer \in BufferType /\ Bounded(out.buffer, maxBytes, maxMem)
            /\ out.buffer.overflowed = c.overflowed /\ out.error \in {"none", "disk"}
            /\ out.error = "none" => Contents(out.buffer) = Contents(c) \o rest
        <4>1. c \in BufferType /\ c.created /\ rest \in Seq(Nat)
          BY Zenon, <3>2, <3>4
        <4>2. PICK d \in BufferType, r \in Seq(Nat) : d = c /\ r = rest
          BY Zenon, <4>1
        <4>3. RoomFor(d, r, maxBytes, maxMem)
          BY Zenon, <3>7, <4>1, <4>2 DEF RoomFor
        <4>4. out \in WriteToDisk(d, r)
          BY Zenon, <2>3, <4>2
        <4>5. WroteToDisk(out, d, r, maxBytes, maxMem)
          BY Zenon, <1>m, <4>3, <4>4, DiskStep
        <4> QED BY Zenon, <4>2, <4>5 DEF WroteToDisk
      <3>9. (b.memory \o head) \o <<>> = b.memory \o head /\ b.memory \o <<>> = b.memory
        BY Zenon, <1>b, <3>3, ConcatNone
      <3>10. (b.memory \o head) \o rest = b.memory \o (head \o rest)
        <4> DEFINE s == b.memory
        <4>2. s \in Seq(Nat) /\ head \in Seq(Nat) /\ rest \in Seq(Nat)
          BY Zenon, <1>b, <3>2
        <4> HIDE DEF s
        <4>3. (s \o head) \o rest = s \o (head \o rest)
          BY SMTT(30), <4>2
        <4> QED BY Zenon, <4>3 DEF s
      <3>11. Contents(c) \o rest = Contents(b) \o p
        BY Zenon, <3>2, <3>4, <3>5, <3>9, <3>10 DEF Contents
      <3> QED BY Zenon, <3>4, <3>8, <3>11
    <2> QED BY Zenon, <2>1, <2>2, <2>3
  <1> QED BY Zenon, <1>1, <1>2, <1>3, <1>4

LEMMA CloseBounded ==
  ASSUME NEW maxBytes \in Nat, NEW maxMem \in Nat,
         NEW b \in BufferType, Bounded(b, maxBytes, maxMem)
  PROVE  /\ Close(b) \in BufferType /\ Bounded(Close(b), maxBytes, maxMem) /\ ~SpillFileLeft(Close(b))
         /\ Close(b).overflowed = b.overflowed
  <1>1. <<>> \in Seq(Nat) /\ Len(<<>>) = 0
    BY Zenon, NoBytes
  <1>2. /\ Close(b) \in BufferType /\ Close(b).closed = TRUE /\ Close(b).disk = <<>>
        /\ Close(b).memory = b.memory /\ Close(b).overflowed = b.overflowed
    BY Zenon, <1>1 DEF Close, BufferType
  <1>3. Len(b.memory) \in Nat /\ Len(b.disk) \in Nat /\ maxBytes \in Nat
    BY Zenon, BufferFields
  <1>4. maxBytes > 0 => Len(b.memory) + 0 <= maxBytes
    <2>1. maxBytes > 0 => Len(b.memory) + Len(b.disk) <= maxBytes
      BY Zenon DEF Bounded, TotalWritten
    <2>2. \A i, j, m \in Nat : (m > 0 => i + j <= m) => (m > 0 => i + 0 <= m)
      OBVIOUS
    <2> QED BY Zenon, <1>3, <2>1, <2>2
  <1> QED BY Zenon, <1>1, <1>2, <1>4 DEF Bounded, TotalWritten, SpillFileLeft

-----------------------------------------------------------------------------
\* The request's state.

\* The stages up to the target's response.
Early == {"idle", "serving", "gate", "claiming", "body", "proxying"}
Late == {"copying", "sending", "pages", "rootpages", "done"}

UpstreamType == [informational : BOOLEAN, status : Nat, stream : BOOLEAN, size : Nat]
WriterType == [status : Nat, headerWritten : BOOLEAN, bypass : BOOLEAN, hijacked : BOOLEAN]
ClientType == [status : Nat, body : Seq(Nat), pages : Nat, conn : {"open", "aborted", "hijacked"}]
SetupType ==
  [bufferRequests : BOOLEAN, bufferResponses : BOOLEAN, strip : BOOLEAN, custom : BOOLEAN, pages : SUBSET Nat]

Typed ==
  /\ stage \in Early \cup Late
  /\ setup \in SetupType
  /\ requestBuffer \in BufferType /\ responseBuffer \in BufferType
  /\ received \in Nat
  /\ upstream \in UpstreamType
  /\ writer \in WriterType
  /\ client \in ClientType
  /\ failure \in Nat /\ raised \in Nat /\ mishap \in BOOLEAN

\* Where there may be a spill file.
SpillsPlaced ==
  /\ stage \notin {"body", "proxying", "copying"} => ~SpillFileLeft(requestBuffer)
  /\ stage \notin {"copying", "sending"} \/ ~setup.bufferResponses => ~SpillFileLeft(responseBuffer)

\* The request's buffer holds what has been read of the body, and what is
\* forwarded is all of it.
BodyKept ==
  /\ stage \in {"idle", "serving", "gate", "claiming"} => requestBuffer = EmptyBuffer /\ received = 0
  /\ stage = "body" => Contents(requestBuffer) = Bytes(0, received)
  /\ ForwardedWhole

\* Before the response, nothing but informational headers has been written.
NothingSent ==
  stage \in Early =>
    /\ client = NewClient /\ responseBuffer = EmptyBuffer
    /\ raised = 0 /\ failure = 0 /\ ~mishap
    /\ upstream.status = 0 /\ upstream.size = 0
    /\ ~writer.bypass /\ ~writer.hijacked
    /\ writer.headerWritten => writer.status = 103 /\ upstream.informational
    /\ upstream.informational => stage = "proxying" /\ (setup.bufferResponses => writer.headerWritten)

\* A response that is buffered has not reached the client before Send: neither
\* one that is no event stream, nor a stream that came after an informational response.
HeldBack ==
  stage \in {"copying", "sending"} /\ upstream.status # 0 /\ setup.bufferResponses
    /\ (~upstream.stream \/ upstream.informational) =>
    /\ client = NewClient /\ ~mishap
    /\ writer.headerWritten /\ ~writer.bypass /\ ~writer.hijacked
    /\ writer.status = IF upstream.informational THEN 103 ELSE upstream.status
    /\ responseBuffer.overflowed \/ Contents(responseBuffer) = Bytes(0, upstream.size)

\* One that is not is at the client.
PassedOn ==
  stage = "copying" =>
    /\ upstream.status >= 200
    /\ ~setup.bufferResponses \/ (upstream.stream /\ ~upstream.informational) =>
         client.body = Bytes(0, upstream.size) /\ (setup.bufferResponses => writer.bypass)

\* What the client has of a buffered response, after Send.
Delivered ==
  \/ /\ client.body = Bytes(0, upstream.size) /\ client.pages = 0
     /\ upstream.informational \/ client.status = upstream.status
  \/ /\ client.body = <<>>
     /\ client.conn = "aborted" \/ (client.status = 500 /\ client.pages = 1)

WholeAfterSend ==
  stage \in {"pages", "rootpages", "done"} /\ upstream.status # 0 /\ setup.bufferResponses
    /\ ~upstream.stream /\ ~mishap => Delivered

\* An error and its page: nothing was sent before it, and it is on its way until
\* one of the middlewares has dealt with it.
ErrorUnderWay ==
  /\ upstream.status # 0 => upstream.status >= 200
  /\ raised = 0 => failure = 0
  /\ raised # 0 =>
       /\ raised >= 200 /\ upstream.status = 0
       /\ client.body = <<>> /\ client.conn = "open"
       /\ stage \in {"sending", "pages"} => failure = raised /\ client = NewClient /\ ~mishap
       /\ stage = "sending" => /\ responseBuffer = EmptyBuffer /\ ~writer.hijacked
                               /\ writer.headerWritten => writer.status = 103
       /\ stage = "rootpages" =>
            \/ /\ failure = raised
               /\ \/ client.pages = 0 /\ client.status \in {0, raised}
                  \/ mishap /\ client.pages = 1 /\ client.status = raised
            \/ failure = 0 /\ client.status = raised /\ client.pages = 1
       /\ stage = "done" => /\ failure = 0 /\ client.status = raised
                            /\ client.pages = 1 \/ (mishap /\ client.pages = 2)
       /\ stage # "copying"

RequestInv ==
  /\ Typed /\ BuffersBounded /\ SpillsPlaced /\ BodyKept /\ NothingSent
  /\ HeldBack /\ PassedOn /\ WholeAfterSend /\ ErrorUnderWay

-----------------------------------------------------------------------------
\* Bytes, and what Write makes of a buffer.

LEMMA BytesSeq ==
  ASSUME NEW m \in Nat, NEW n \in Nat
  PROVE  /\ Bytes(m, n) \in Seq(Nat) /\ Len(Bytes(m, n)) = n
         /\ \A i \in 1..n : Bytes(m, n)[i] = m + i
  BY DEF Bytes

LEMMA BytesEmpty == Bytes(0, 0) = <<>>
  BY Zenon, BytesSeq, NoBytes

LEMMA BytesJoin ==
  ASSUME NEW m \in Nat, NEW n \in Nat
  PROVE  Bytes(0, m) \o Bytes(m, n) = Bytes(0, m + n)
  <1> DEFINE s == Bytes(0, m)  t == Bytes(m, n)  u == Bytes(0, m + n)
  <1>1. /\ s \in Seq(Nat) /\ t \in Seq(Nat) /\ u \in Seq(Nat)
        /\ Len(s) = m /\ Len(t) = n /\ Len(u) = m + n
        /\ \A i \in 1..m : s[i] = i
        /\ \A i \in 1..n : t[i] = m + i
        /\ \A i \in 1..(m + n) : u[i] = i
    <2>1. s \in Seq(Nat) /\ Len(s) = m /\ \A i \in 1..m : s[i] = 0 + i
      BY Zenon, BytesSeq
    <2>2. t \in Seq(Nat) /\ Len(t) = n /\ \A i \in 1..n : t[i] = m + i
      BY Zenon, BytesSeq
    <2>3. u \in Seq(Nat) /\ Len(u) = m + n /\ \A i \in 1..(m + n) : u[i] = 0 + i
      <3>1. m + n \in Nat
        OBVIOUS
      <3> QED BY Zenon, <3>1, BytesSeq
    <2> QED BY <2>1, <2>2, <2>3
  <1> HIDE DEF s, t, u
  <1>2. /\ s \o t \in Seq(Nat) /\ Len(s \o t) = m + n
        /\ \A i \in 1..(m + n) : (s \o t)[i] = IF i <= m THEN s[i] ELSE t[i - m]
    BY SMTT(30), <1>1, ConcatBytes
  <1>3. \A i \in 1..(m + n) : (s \o t)[i] = u[i]
    BY SMTT(30), <1>1, <1>2
  <1>4. s \o t = u
    BY SMTT(30), <1>1, <1>2, <1>3, SameBytes
  <1> QED BY Zenon, <1>4 DEF s, t, u

\* The facts about buffers, at the limits of this proxy.
LEMMA EmptyBufferOK ==
  EmptyBuffer \in BufferType /\ BufferOK(EmptyBuffer) /\ Contents(EmptyBuffer) = <<>>
  BY EmptyBounded, RequestConstants DEF BufferOK

LEMMA WriteStep ==
  ASSUME NEW b \in BufferType, BufferOK(b), NEW p \in Seq(Nat),
         NEW out \in Write(b, p, MaxBytes, MaxMem)
  PROVE  /\ out.buffer \in BufferType /\ BufferOK(out.buffer)
         /\ out.error \in {"none", "toolarge", "disk"}
         /\ out.error = "none" => Contents(out.buffer) = Contents(b) \o p
         /\ out.error = "toolarge" \/ b.overflowed => out.buffer.overflowed
  <1>1. MaxBytes \in Nat /\ MaxMem \in Nat
    BY Zenon, RequestConstants
  <1> QED BY Zenon, <1>1, WriteBounded DEF BufferOK

LEMMA CloseStep ==
  ASSUME NEW b \in BufferType, BufferOK(b)
  PROVE  /\ Close(b) \in BufferType /\ BufferOK(Close(b)) /\ ~SpillFileLeft(Close(b))
         /\ Close(b).overflowed = b.overflowed
  <1>1. MaxBytes \in Nat /\ MaxMem \in Nat
    BY Zenon, RequestConstants
  <1> QED BY Zenon, <1>1, CloseBounded DEF BufferOK

\* What the response writer of net/http makes of the connection.
LEMMA RawWriteHeaderStep ==
  ASSUME NEW c \in ClientType, NEW s \in Nat
  PROVE  /\ RawWriteHeader(c, s) \in ClientType
         /\ RawWriteHeader(c, s).status = IF s < 200 \/ c.status # 0 THEN c.status ELSE s
         /\ RawWriteHeader(c, s).body = c.body /\ RawWriteHeader(c, s).pages = c.pages
         /\ RawWriteHeader(c, s).conn = c.conn
         /\ s < 200 => RawWriteHeader(c, s) = c
  BY ZenonT(30) DEF RawWriteHeader, ClientType

LEMMA RawPageStep ==
  ASSUME NEW c \in ClientType, NEW s \in Nat
  PROVE  /\ RawPage(c, s) \in ClientType
         /\ RawPage(c, s).status = IF s < 200 \/ c.status # 0 THEN c.status ELSE s
         /\ RawPage(c, s).body = c.body /\ RawPage(c, s).pages = c.pages + 1
         /\ RawPage(c, s).conn = c.conn
  <1> DEFINE d == RawWriteHeader(c, s)  e == [d EXCEPT !.pages = @ + 1]
  <1>1. /\ d \in ClientType /\ d.body = c.body /\ d.pages = c.pages /\ d.conn = c.conn
        /\ d.status = IF s < 200 \/ c.status # 0 THEN c.status ELSE s
    BY RawWriteHeaderStep
  <1> HIDE DEF d
  <1>2. e \in ClientType /\ e.body = d.body /\ e.pages = d.pages + 1 /\ e.conn = d.conn /\ e.status = d.status
    BY SMTT(30), <1>1 DEF ClientType
  <1>3. RawPage(c, s) = e
    BY Zenon DEF RawPage, d
  <1> HIDE DEF e
  <1> QED BY ZenonT(30), <1>1, <1>2, <1>3

LEMMA RawWriteStep ==
  ASSUME NEW c \in ClientType, NEW bytes \in Seq(Nat)
  PROVE  /\ RawWrite(c, bytes) \in ClientType
         /\ RawWrite(c, bytes).body = c.body \o bytes
         /\ RawWrite(c, bytes).pages = c.pages /\ RawWrite(c, bytes).conn = c.conn
         /\ bytes = <<>> => RawWrite(c, bytes) = c
         /\ bytes # <<>> => RawWrite(c, bytes).status = RawWriteHeader(c, 200).status
  <1>1. c.body \in Seq(Nat) /\ c.body \o bytes \in Seq(Nat) /\ c.body \o <<>> = c.body
    <2>1. c.body \in Seq(Nat)
      BY Zenon DEF ClientType
    <2> QED BY Zenon, <2>1, ConcatBytes, ConcatNone
  <1>2. /\ RawWriteHeader(c, 200) \in ClientType /\ RawWriteHeader(c, 200).body = c.body
        /\ RawWriteHeader(c, 200).pages = c.pages /\ RawWriteHeader(c, 200).conn = c.conn
    BY RawWriteHeaderStep
  <1>3. CASE bytes = <<>>
    BY ZenonT(30), <1>1, <1>3 DEF RawWrite
  <1>4. CASE bytes # <<>>
    <2> DEFINE d == RawWriteHeader(c, 200)  e == [d EXCEPT !.body = c.body \o bytes]
    <2>1. RawWrite(c, bytes) = e
      BY ZenonT(30), <1>2, <1>4 DEF RawWrite
    <2> HIDE DEF d
    <2>2. d \in ClientType /\ d.pages = c.pages /\ d.conn = c.conn
      BY Zenon, <1>2 DEF d
    <2>3. e \in ClientType /\ e.body = c.body \o bytes /\ e.pages = d.pages /\ e.conn = d.conn /\ e.status = d.status
      BY Zenon, <1>1, <2>2 DEF ClientType
    <2> HIDE DEF e
    <2> QED BY ZenonT(30), <1>4, <2>1, <2>2, <2>3 DEF d
  <1> QED BY SMTT(30), <1>3, <1>4

LEMMA NewClientTyped ==
  /\ NewClient \in ClientType /\ NewClient.status = 0 /\ NewClient.body = <<>>
  /\ NewClient.pages = 0 /\ NewClient.conn = "open"
  BY Zenon, NoBytes DEF NewClient, ClientType

-----------------------------------------------------------------------------
\* The invariant holds initially and where nothing it speaks of changes.

LEMMA RequestInit == Init => RequestInv
  <1> SUFFICES ASSUME Init PROVE RequestInv
    OBVIOUS
  <1>1. Typed
    BY ZenonT(30), EmptyBufferOK, NewClientTyped
    DEF Init, Typed, Early, Late, NoSetup, SetupType, NoUpstream, UpstreamType, NewWriter, WriterType
  <1>2. BuffersBounded /\ SpillsPlaced
    BY Zenon, EmptyBufferOK DEF Init, BuffersBounded, SpillsPlaced, SpillFileLeft, EmptyBuffer
  <1>3. BodyKept
    BY Zenon DEF Init, BodyKept, ForwardedWhole
  <1>4. NothingSent
    BY Zenon DEF Init, NothingSent, NoUpstream, NewWriter
  <1>5. HeldBack /\ PassedOn /\ WholeAfterSend /\ ErrorUnderWay
    BY Zenon DEF Init, HeldBack, PassedOn, WholeAfterSend, ErrorUnderWay, NoUpstream
  <1> QED BY Zenon, <1>1, <1>2, <1>3, <1>4, <1>5 DEF RequestInv

LEMMA Unmoved ==
  RequestInv /\ UNCHANGED <<stage, setup, bodyVars, answerVars, errorVars, client, mishap>> => RequestInv'
  <1> SUFFICES ASSUME RequestInv, UNCHANGED <<stage, setup, bodyVars, answerVars, errorVars, client, mishap>>
               PROVE  RequestInv'
    OBVIOUS
  <1>1. /\ stage' = stage /\ setup' = setup /\ received' = received /\ requestBuffer' = requestBuffer
        /\ forwarded' = forwarded /\ upstream' = upstream /\ writer' = writer
        /\ responseBuffer' = responseBuffer /\ failure' = failure /\ raised' = raised
        /\ client' = client /\ mishap' = mishap
    BY Zenon DEF bodyVars, answerVars, errorVars
  <1>2. Typed' /\ BuffersBounded' /\ SpillsPlaced'
    BY Zenon, <1>1 DEF RequestInv, Typed, BuffersBounded, SpillsPlaced
  <1>3. BodyKept' /\ NothingSent'
    BY <1>1 DEF RequestInv, BodyKept, ForwardedWhole, NothingSent
  <1>4. HeldBack' /\ PassedOn'
    BY <1>1 DEF RequestInv, HeldBack, PassedOn
  <1>5. WholeAfterSend' /\ ErrorUnderWay'
    BY SMTT(30), ZenonT(30), <1>1 DEF RequestInv, WholeAfterSend, Delivered, ErrorUnderWay
  <1> QED BY Zenon, <1>2, <1>3, <1>4, <1>5 DEF RequestInv

-----------------------------------------------------------------------------
\* Up to the claim of a target.

Waiting == {"idle", "serving", "gate", "claiming"}

\* The request goes on.
LEMMA EarlyMove ==
  ASSUME RequestInv, stage \in Waiting, stage' \in Waiting, setup' \in SetupType,
         UNCHANGED <<bodyVars, answerVars, errorVars, client, mishap>>
  PROVE  RequestInv'
  <1>1. /\ received' = received /\ requestBuffer' = requestBuffer
        /\ forwarded' = forwarded /\ upstream' = upstream /\ writer' = writer
        /\ responseBuffer' = responseBuffer /\ failure' = failure /\ raised' = raised
        /\ client' = client /\ mishap' = mishap
    BY Zenon DEF bodyVars, answerVars, errorVars
  <1>2. Typed' /\ BuffersBounded'
    BY Zenon, <1>1 DEF RequestInv, Typed, BuffersBounded, Waiting, Early
  <1>3. SpillsPlaced'
    BY Zenon, <1>1 DEF RequestInv, SpillsPlaced, Waiting
  <1>4. BodyKept' /\ NothingSent'
    BY <1>1 DEF RequestInv, BodyKept, ForwardedWhole, NothingSent, Waiting, Early
  <1>5. HeldBack' /\ PassedOn' /\ WholeAfterSend' /\ ErrorUnderWay'
    BY ZenonT(30), <1>1 DEF RequestInv, HeldBack, PassedOn, WholeAfterSend, ErrorUnderWay, NothingSent, Waiting, Early
  <1> QED BY Zenon, <1>2, <1>3, <1>4, <1>5 DEF RequestInv

\* It is refused with an error, for which there will be a page.
LEMMA EarlyError ==
  ASSUME RequestInv, stage \in Waiting, stage' \in {"pages", "rootpages"}, setup' \in SetupType,
         NEW s \in Nat, s >= 200, SetErrorResponse(s),
         UNCHANGED <<bodyVars, answerVars, client, mishap>>
  PROVE  RequestInv'
  <1>1. /\ received' = received /\ requestBuffer' = requestBuffer
        /\ forwarded' = forwarded /\ upstream' = upstream /\ writer' = writer
        /\ responseBuffer' = responseBuffer /\ failure' = s /\ raised' = s
        /\ client' = client /\ mishap' = mishap
    BY Zenon DEF bodyVars, answerVars, SetErrorResponse
  <1>2. client = NewClient /\ ~mishap /\ upstream.status = 0
    BY Zenon DEF RequestInv, NothingSent, Waiting, Early
  <1>3. Typed' /\ BuffersBounded'
    BY Zenon, <1>1 DEF RequestInv, Typed, BuffersBounded, Late
  <1>4. SpillsPlaced'
    BY Zenon, <1>1 DEF RequestInv, SpillsPlaced, Waiting
  <1>5. BodyKept' /\ NothingSent'
    BY Zenon DEF BodyKept, ForwardedWhole, NothingSent, Early
  <1>6. HeldBack' /\ PassedOn' /\ WholeAfterSend'
    BY Zenon, <1>1, <1>2 DEF HeldBack, PassedOn, WholeAfterSend
  <1>7. ErrorUnderWay'
    BY <1>1, <1>2, NewClientTyped DEF ErrorUnderWay
  <1> QED BY Zenon, <1>3, <1>4, <1>5, <1>6, <1>7 DEF RequestInv

\* It is answered by a header alone.
LEMMA EarlyAnswer ==
  ASSUME RequestInv, stage \in Waiting, stage' = "pages", setup' \in SetupType,
         NEW s \in Nat, client' = RawWriteHeader(client, s),
         UNCHANGED <<bodyVars, answerVars, errorVars, mishap>>
  PROVE  RequestInv'
  <1>1. /\ received' = received /\ requestBuffer' = requestBuffer
        /\ forwarded' = forwarded /\ upstream' = upstream /\ writer' = writer
        /\ responseBuffer' = responseBuffer /\ failure' = failure /\ raised' = raised /\ mishap' = mishap
    BY Zenon DEF bodyVars, answerVars, errorVars
  <1>2. raised = 0 /\ failure = 0 /\ upstream.status = 0
    BY Zenon DEF RequestInv, NothingSent, Waiting, Early
  <1>3. client' \in ClientType
    BY Zenon, RawWriteHeaderStep DEF RequestInv, Typed
  <1>4. Typed' /\ BuffersBounded'
    BY Zenon, <1>1, <1>3 DEF RequestInv, Typed, BuffersBounded, Late
  <1>5. SpillsPlaced'
    BY Zenon, <1>1 DEF RequestInv, SpillsPlaced, Waiting
  <1>6. BodyKept' /\ NothingSent'
    BY Zenon DEF BodyKept, ForwardedWhole, NothingSent, Early
  <1>7. HeldBack' /\ PassedOn' /\ WholeAfterSend' /\ ErrorUnderWay'
    BY SMTT(30), <1>1, <1>2 DEF HeldBack, PassedOn, WholeAfterSend, ErrorUnderWay
  <1> QED BY Zenon, <1>4, <1>5, <1>6, <1>7 DEF RequestInv

LEMMA ArriveStep == ASSUME RequestInv, NEW q \in Requests, Arrive(q) PROVE RequestInv'
  <1>1. setup' \in SetupType /\ stage \in Waiting
    BY Zenon DEF RequestInv, Typed, Arrive, Waiting
  <1>2. UNCHANGED <<bodyVars, answerVars, client, mishap>>
    BY Zenon DEF Arrive
  <1>3. CASE SetErrorResponse(404) /\ stage' = "rootpages"
    BY <1>1, <1>2, <1>3, EarlyError
  <1>4. CASE stage' = "serving" /\ UNCHANGED errorVars
    BY Zenon, <1>1, <1>2, <1>4, EarlyMove DEF Waiting
  <1> QED BY ZenonT(30), <1>3, <1>4 DEF Arrive

LEMMA ServiceRequestStep == ASSUME RequestInv, ServiceRequest PROVE RequestInv'
  <1>1. setup' \in SetupType /\ stage \in Waiting
    BY Zenon, RequestConstants DEF ServiceRequest, Waiting, SetupType
  <1>2. UNCHANGED <<bodyVars, answerVars, mishap>>
    BY Zenon DEF ServiceRequest
  <1>3. CASE stage' = "pages" /\ client' = RawWriteHeader(client, 301) /\ UNCHANGED errorVars
    BY <1>1, <1>2, <1>3, EarlyAnswer
  <1>4. CASE stage' = "pages" /\ SetErrorResponse(503) /\ UNCHANGED client
    BY <1>1, <1>2, <1>4, EarlyError
  <1>5. CASE stage' = "gate" /\ UNCHANGED <<errorVars, client>>
    BY Zenon, <1>1, <1>2, <1>5, EarlyMove DEF Waiting
  <1> QED BY <1>3, <1>4, <1>5 DEF ServiceRequest

LEMMA GateStep ==
  ASSUME RequestInv, AnswerHealthCheck \/ PauseRefuses \/ PauseLetsPass \/ ClaimFails
  PROVE  RequestInv'
  <1>1. setup' \in SetupType /\ stage \in Waiting
    BY SMTT(30) DEF RequestInv, Typed, AnswerHealthCheck, PauseRefuses, PauseLetsPass, ClaimFails, routingVars, Waiting
  <1>2. UNCHANGED <<bodyVars, answerVars, mishap>>
    BY Zenon DEF AnswerHealthCheck, PauseRefuses, PauseLetsPass, ClaimFails
  <1>3. CASE AnswerHealthCheck
    BY <1>1, <1>2, <1>3, EarlyAnswer DEF AnswerHealthCheck
  <1>4. CASE PauseRefuses
    <2>1. PICK s \in {503, 504} : SetErrorResponse(s)
      BY Zenon, <1>4 DEF PauseRefuses
    <2>2. s \in Nat /\ s >= 200
      OBVIOUS
    <2> QED BY <1>1, <1>2, <1>4, <2>1, <2>2, EarlyError DEF PauseRefuses
  <1>5. CASE PauseLetsPass
    BY Zenon, <1>1, <1>2, <1>5, EarlyMove DEF PauseLetsPass, Waiting
  <1>6. CASE ClaimFails
    BY <1>1, <1>2, <1>6, EarlyError DEF ClaimFails
  <1> QED BY Zenon, <1>3, <1>4, <1>5, <1>6

-----------------------------------------------------------------------------
\* The body of the request.

LEMMA ClaimTargetStep == ASSUME RequestInv, ClaimTarget PROVE RequestInv'
  <1>1. /\ setup' = setup /\ received' = received /\ requestBuffer' = requestBuffer
        /\ upstream' = upstream /\ writer' = writer
        /\ responseBuffer' = responseBuffer /\ failure' = failure /\ raised' = raised
        /\ client' = client /\ mishap' = mishap
    BY Zenon DEF ClaimTarget, routingVars, answerVars, errorVars
  <1>2. stage = "claiming" /\ stage' = IF setup.bufferRequests THEN "body" ELSE "proxying"
    BY Zenon DEF ClaimTarget
  <1>3. Typed' /\ BuffersBounded'
    BY Zenon, <1>1, <1>2 DEF RequestInv, Typed, BuffersBounded, Early
  <1>4. SpillsPlaced'
    BY Zenon, <1>1, <1>2 DEF RequestInv, SpillsPlaced
  <1>5. requestBuffer = EmptyBuffer /\ received = 0
    BY Zenon, <1>2 DEF RequestInv, BodyKept
  <1>6. BodyKept'
    BY Zenon, <1>1, <1>2, <1>5, EmptyBufferOK, BytesEmpty DEF BodyKept, ForwardedWhole
  <1>7. NothingSent'
    BY SMTT(30), <1>1, <1>2 DEF RequestInv, NothingSent, Early
  <1>8. HeldBack' /\ PassedOn' /\ WholeAfterSend' /\ ErrorUnderWay'
    BY ZenonT(30), <1>1, <1>2 DEF RequestInv, HeldBack, PassedOn, WholeAfterSend, ErrorUnderWay, NothingSent, Early
  <1> QED BY Zenon, <1>3, <1>4, <1>6, <1>7, <1>8 DEF RequestInv

LEMMA RefuseStep ==
  ASSUME RequestInv, stage = "body", NEW b \in BufferType, BufferOK(b), NEW s \in Nat, Refuse(b, s),
         received' \in Nat, UNCHANGED <<setup, answerVars, errorVars, mishap>>
  PROVE  RequestInv'
  <1>1. /\ setup' = setup /\ requestBuffer' = Close(b) /\ upstream' = upstream /\ writer' = writer
        /\ responseBuffer' = responseBuffer /\ failure' = failure /\ raised' = raised
        /\ client' = RawPage(client, s) /\ mishap' = mishap /\ stage' = "pages"
    BY Zenon DEF Refuse, answerVars, errorVars
  <1>2. client' \in ClientType
    BY SMTT(30), <1>1, RawPageStep DEF RequestInv, Typed
  <1>3. requestBuffer' \in BufferType /\ BufferOK(requestBuffer)' /\ ~SpillFileLeft(requestBuffer)'
    BY Zenon, <1>1, CloseStep DEF BufferOK, Bounded, SpillFileLeft, TotalWritten
  <1>4. Typed'
    BY SMTT(30), <1>1, <1>2, <1>3 DEF RequestInv, Typed, Late
  <1>5. BuffersBounded'
    BY Zenon, <1>1, <1>3 DEF RequestInv, BuffersBounded, BufferOK, Bounded, TotalWritten
  <1>6. SpillsPlaced'
    BY Zenon, <1>1, <1>3 DEF RequestInv, SpillsPlaced
  <1>7. BodyKept' /\ NothingSent'
    BY SMTT(30), <1>1 DEF BodyKept, ForwardedWhole, NothingSent, Early
  <1>8. HeldBack' /\ PassedOn' /\ WholeAfterSend' /\ ErrorUnderWay'
    BY ZenonT(30), <1>1 DEF RequestInv, HeldBack, PassedOn, WholeAfterSend, ErrorUnderWay, NothingSent, Early
  <1> QED BY Zenon, <1>4, <1>5, <1>6, <1>7, <1>8 DEF RequestInv

LEMMA ReadBodyStep == ASSUME RequestInv, NEW n \in Chunks, ReadBody(n) PROVE RequestInv'
  <1>1. /\ setup' = setup /\ upstream' = upstream /\ writer' = writer
        /\ responseBuffer' = responseBuffer /\ failure' = failure /\ raised' = raised /\ mishap' = mishap
        /\ UNCHANGED <<setup, answerVars, errorVars, mishap>>
    BY Zenon DEF ReadBody, routingVars, answerVars, errorVars
  <1>2. stage = "body" /\ n \in Nat /\ received \in Nat /\ received' = received + n /\ received' \in Nat
    BY RequestConstants DEF RequestInv, Typed, ReadBody
  <1>3. requestBuffer \in BufferType /\ BufferOK(requestBuffer)
    BY Zenon DEF RequestInv, Typed, BuffersBounded
  <1>4. Bytes(received, n) \in Seq(Nat)
    BY Zenon, <1>2, BytesSeq
  <1>5. PICK out \in Write(requestBuffer, Bytes(received, n), MaxBytes, MaxMem) :
          CASE out.error = "none" -> requestBuffer' = out.buffer /\ UNCHANGED <<stage, client, forwarded>>
            [] out.error = "toolarge" -> TooLarge(out.buffer)
            [] out.error = "disk" -> Refuse(out.buffer, 500) /\ UNCHANGED forwarded
    BY Zenon DEF ReadBody
  <1>6. /\ out.buffer \in BufferType /\ BufferOK(out.buffer) /\ out.error \in {"none", "toolarge", "disk"}
        /\ out.error = "none" => Contents(out.buffer) = Contents(requestBuffer) \o Bytes(received, n)
    BY Zenon, <1>3, <1>4, WriteStep
  <1>7. CASE out.error = "none"
    <2>1. stage' = stage /\ client' = client /\ forwarded' = forwarded /\ requestBuffer' = out.buffer
      BY Zenon, <1>5, <1>7
    <2>2. BufferOK(requestBuffer)'
      BY Zenon, <2>1, <1>6 DEF BufferOK, Bounded, TotalWritten
    <2>3. Typed' /\ BuffersBounded'
      BY Zenon, <1>1, <1>2, <1>6, <2>1, <2>2 DEF RequestInv, Typed, BuffersBounded, BufferOK, Bounded, TotalWritten
    <2>4. SpillsPlaced'
      BY Zenon, <1>1, <1>2, <2>1 DEF RequestInv, SpillsPlaced
    <2>5. Contents(requestBuffer)' = Bytes(0, received)'
      <3>1. Contents(requestBuffer) = Bytes(0, received)
        BY Zenon, <1>2 DEF RequestInv, BodyKept
      <3>2. Contents(out.buffer) = Bytes(0, received + n)
        BY Zenon, <1>2, <1>6, <1>7, <3>1, BytesJoin
      <3> QED BY Zenon, <1>2, <2>1, <3>2 DEF Contents, Bytes
    <2>6. BodyKept'
      BY Zenon, <1>2, <2>1, <2>5 DEF BodyKept, ForwardedWhole
    <2>7. NothingSent'
      BY SMTT(30), <1>1, <2>1 DEF RequestInv, NothingSent
    <2>8. HeldBack' /\ PassedOn' /\ WholeAfterSend' /\ ErrorUnderWay'
      BY Zenon, <1>1, <1>2, <2>1 DEF RequestInv, HeldBack, PassedOn, WholeAfterSend, ErrorUnderWay, NothingSent, Early
    <2> QED BY Zenon, <2>3, <2>4, <2>6, <2>7, <2>8 DEF RequestInv
  <1>8. CASE out.error = "toolarge"
    <2>1. Refuse(out.buffer, 413)
      BY Zenon, <1>5, <1>8 DEF TooLarge
    <2> QED BY SMTT(30), <1>1, <1>2, <1>6, <2>1, RefuseStep
  <1>9. CASE out.error = "disk"
    <2>1. Refuse(out.buffer, 500)
      BY Zenon, <1>5, <1>9
    <2> QED BY SMTT(30), <1>1, <1>2, <1>6, <2>1, RefuseStep
  <1> QED BY Zenon, <1>6, <1>7, <1>8, <1>9

LEMMA BodyBrokenStep == ASSUME RequestInv, BodyBroken PROVE RequestInv'
  <1>1. /\ stage = "body" /\ Refuse(requestBuffer, 500) /\ received' = received
        /\ UNCHANGED <<setup, answerVars, errorVars, mishap>>
    BY Zenon DEF BodyBroken, routingVars
  <1>2. requestBuffer \in BufferType /\ BufferOK(requestBuffer) /\ received' \in Nat
    BY Zenon, <1>1 DEF RequestInv, Typed, BuffersBounded
  <1> QED BY <1>1, <1>2, RefuseStep

LEMMA BodyEndStep == ASSUME RequestInv, BodyEnd PROVE RequestInv'
  <1>1. /\ setup' = setup /\ received' = received /\ requestBuffer' = requestBuffer
        /\ upstream' = upstream /\ writer' = writer
        /\ responseBuffer' = responseBuffer /\ failure' = failure /\ raised' = raised
        /\ client' = client /\ mishap' = mishap
        /\ stage = "body" /\ stage' = "proxying" /\ forwarded'.body = Contents(requestBuffer)
    BY SMTT(30) DEF BodyEnd, routingVars, answerVars, errorVars
  <1>2. Typed' /\ BuffersBounded'
    BY Zenon, <1>1 DEF RequestInv, Typed, BuffersBounded, Early
  <1>3. SpillsPlaced'
    BY Zenon, <1>1 DEF RequestInv, SpillsPlaced
  <1>4. Contents(requestBuffer) = Bytes(0, received) /\ received \in Nat
    BY Zenon, <1>1 DEF RequestInv, BodyKept, Typed
  <1>5. MaxBytes > 0 => received <= MaxBytes
    <2>1. requestBuffer.memory \in Seq(Nat) /\ requestBuffer.disk \in Seq(Nat)
      BY Zenon, BufferFields DEF RequestInv, Typed
    <2>2. Len(Contents(requestBuffer)) = TotalWritten(requestBuffer)
      BY Zenon, <2>1, ConcatBytes DEF Contents, TotalWritten
    <2>3. Len(Bytes(0, received)) = received
      BY Zenon, <1>4, BytesSeq
    <2>4. MaxBytes > 0 => TotalWritten(requestBuffer) <= MaxBytes
      BY Zenon DEF RequestInv, BuffersBounded, BufferOK, Bounded
    <2> QED BY Zenon, <1>4, <2>2, <2>3, <2>4
  <1>6. BodyKept'
    BY Zenon, <1>1, <1>4, <1>5 DEF BodyKept, ForwardedWhole, Bytes
  <1>7. NothingSent'
    BY SMTT(30), <1>1 DEF RequestInv, NothingSent, Early
  <1>8. HeldBack' /\ PassedOn' /\ WholeAfterSend' /\ ErrorUnderWay'
    BY Zenon, <1>1 DEF RequestInv, HeldBack, PassedOn, WholeAfterSend, ErrorUnderWay, NothingSent, Early
  <1> QED BY Zenon, <1>2, <1>3, <1>6, <1>7, <1>8 DEF RequestInv

-----------------------------------------------------------------------------
\* The reverse proxy and the response writer.

LEMMA SendTyped ==
  ASSUME NEW w \in WriterType, NEW b \in BufferType, NEW c \in ClientType
  PROVE  /\ SendHeader(w, c) \in ClientType /\ Contents(b) \in Seq(Nat) /\ Send(w, b, c) \in ClientType
         /\ SendHeader(w, c).body = c.body /\ SendHeader(w, c).pages = c.pages
         /\ SendHeader(w, c).conn = c.conn
  <1>1. w.status \in Nat
    BY Zenon DEF WriterType
  <1>2. /\ SendHeader(w, c) \in ClientType /\ SendHeader(w, c).body = c.body
        /\ SendHeader(w, c).pages = c.pages /\ SendHeader(w, c).conn = c.conn
    BY SMTT(30), <1>1, RawWriteHeaderStep DEF SendHeader
  <1>3. Contents(b) \in Seq(Nat)
    BY Zenon, BufferFields, ConcatBytes DEF Contents
  <1>4. RawWrite(SendHeader(w, c), Contents(b)) \in ClientType
    BY ZenonT(30), <1>2, <1>3, RawWriteStep
  <1>5. RawPage(c, 500) \in ClientType
    BY RawPageStep
  <1> QED BY Zenon, <1>2, <1>3, <1>4, <1>5 DEF Send

LEMMA WriteHeaderTyped ==
  ASSUME Typed, NEW s \in Nat, NEW stream \in BOOLEAN, WriteHeader(s, stream)
  PROVE  client' \in ClientType /\ writer' \in WriterType
  <1>0. client \in ClientType /\ writer \in WriterType /\ responseBuffer \in BufferType
    BY Zenon DEF Typed
  <1>1. CASE ~setup.bufferResponses
    <2>1. client' = RawWriteHeader(client, s) /\ writer' = writer
      BY Zenon, <1>1 DEF WriteHeader
    <2> QED BY Zenon, <1>0, <2>1, RawWriteHeaderStep
  <1>2. CASE setup.bufferResponses /\ writer.headerWritten
    <2>1. client' = client /\ writer' = writer
      BY Zenon, <1>2 DEF WriteHeader
    <2> QED BY Zenon, <1>0, <2>1
  <1>3. CASE setup.bufferResponses /\ ~writer.headerWritten
    <2>1. /\ writer' = [writer EXCEPT !.status = s, !.headerWritten = TRUE, !.bypass = stream]
          /\ client' = IF writer'.bypass THEN Send(writer', responseBuffer, client) ELSE client
      BY Zenon, <1>3 DEF WriteHeader, ShouldSwitchToUnbuffered
    <2>2. writer' \in WriterType
      BY Zenon, <1>0, <2>1 DEF WriterType
    <2>3. Send(writer', responseBuffer, client) \in ClientType
      BY Zenon, <1>0, <2>2, SendTyped
    <2> QED BY Zenon, <1>0, <2>1, <2>2, <2>3
  <1> QED BY Zenon, <1>1, <1>2, <1>3

\* The proxy returns without a response: an error, a client that has gone, or the
\* end of an upgraded connection.
LEMMA ReturnStep ==
  ASSUME RequestInv, stage = "proxying", ProxyReturns, client' \in ClientType, writer' \in WriterType,
         UNCHANGED <<setup, upstream, responseBuffer, mishap>>,
         \/ UNCHANGED errorVars
         \/ \E s \in Nat : s >= 200 /\ SetErrorResponse(s) /\ UNCHANGED <<client, writer>>
  PROVE  RequestInv'
  <1>1. /\ setup' = setup /\ upstream' = upstream /\ responseBuffer' = responseBuffer /\ mishap' = mishap
        /\ requestBuffer' = Close(requestBuffer) /\ received' = received /\ forwarded' = forwarded
        /\ stage' = IF setup.bufferResponses THEN "sending" ELSE "pages"
    BY Zenon DEF ProxyReturns, CloseBody
  <1>2. /\ client = NewClient /\ responseBuffer = EmptyBuffer /\ raised = 0 /\ failure = 0 /\ ~mishap
        /\ upstream.status = 0 /\ ~writer.hijacked
        /\ writer.headerWritten => writer.status = 103
    BY SMTT(30) DEF RequestInv, NothingSent, Early
  <1>3. requestBuffer' \in BufferType /\ BufferOK(requestBuffer)' /\ ~SpillFileLeft(requestBuffer)'
    <2>1. requestBuffer \in BufferType /\ BufferOK(requestBuffer)
      BY Zenon DEF RequestInv, Typed, BuffersBounded
    <2> QED BY Zenon, <1>1, <2>1, CloseStep DEF BufferOK, Bounded, SpillFileLeft, TotalWritten
  <1>4. failure' \in Nat /\ raised' \in Nat
    BY Zenon DEF SetErrorResponse, RequestInv, Typed, errorVars
  <1>5. Typed'
    BY SMTT(30), <1>1, <1>3, <1>4 DEF RequestInv, Typed, Late
  <1>6. BuffersBounded'
    BY Zenon, <1>1, <1>3 DEF RequestInv, BuffersBounded, BufferOK, Bounded, TotalWritten
  <1>7. SpillsPlaced'
    BY SMTT(60), <1>1, <1>2, <1>3 DEF SpillsPlaced, SpillFileLeft, EmptyBuffer
  <1>8. BodyKept' /\ NothingSent'
    BY ZenonT(30), <1>1 DEF RequestInv, BodyKept, ForwardedWhole, Bytes, NothingSent, Early
  <1>9. HeldBack' /\ PassedOn' /\ WholeAfterSend'
    BY SMTT(30), <1>1, <1>2 DEF HeldBack, PassedOn, WholeAfterSend
  <1>10. ErrorUnderWay'
    <2>1. CASE UNCHANGED errorVars
      BY ZenonT(30), <2>1, <1>1, <1>2 DEF ErrorUnderWay, errorVars
    <2>2. CASE \E s \in Nat : s >= 200 /\ SetErrorResponse(s) /\ UNCHANGED <<client, writer>>
      <3>1. PICK s \in Nat : s >= 200 /\ failure' = s /\ raised' = s /\ client' = client /\ writer' = writer
        BY Zenon, <2>2 DEF SetErrorResponse
      <3>2. s # 0
        BY <3>1
      <3>3. client.body = <<>> /\ client.conn = "open"
        BY Zenon, <1>2, NewClientTyped
      <3> QED BY SMTT(30), ZenonT(30), <1>1, <1>2, <3>1, <3>2, <3>3 DEF ErrorUnderWay
    <2> QED BY Zenon, <2>1, <2>2
  <1> QED BY Zenon, <1>5, <1>6, <1>7, <1>8, <1>9, <1>10 DEF RequestInv

LEMMA RoundTripFailsStep == ASSUME RequestInv, RoundTripFails PROVE RequestInv'
  <1>1. /\ stage = "proxying" /\ ProxyReturns /\ UNCHANGED <<setup, upstream, responseBuffer, mishap>>
    BY Zenon DEF RoundTripFails, routingVars
  <1>2. Typed
    BY Zenon DEF RequestInv
  <1>3. CASE /\ \E kind \in {"timeout", "draining", "other"} : SetErrorResponse(ErrorStatus(kind))
             /\ UNCHANGED <<client, writer>>
    <2>1. \E s \in Nat : s >= 200 /\ SetErrorResponse(s) /\ UNCHANGED <<client, writer>>
      <3>1. PICK kind \in {"timeout", "draining", "other"} : SetErrorResponse(ErrorStatus(kind))
        BY Zenon, <1>3
      <3>2. ErrorStatus(kind) \in Nat /\ ErrorStatus(kind) >= 200
        BY DEF ErrorStatus
      <3> QED BY Zenon, <1>3, <3>1, <3>2
    <2>2. client' \in ClientType /\ writer' \in WriterType
      BY Zenon, <1>2, <1>3 DEF Typed
    <2> QED BY Zenon, <1>1, <2>1, <2>2, ReturnStep
  <1>4. CASE WriteHeader(499, FALSE) /\ UNCHANGED errorVars
    <2>1. client' \in ClientType /\ writer' \in WriterType
      <3>1. 499 \in Nat /\ FALSE \in BOOLEAN
        OBVIOUS
      <3> QED BY ZenonT(30), <3>1, <1>2, <1>4, WriteHeaderTyped
    <2> QED BY Zenon, <1>1, <1>4, <2>1, ReturnStep
  <1> QED BY ZenonT(30), <1>3, <1>4 DEF RoundTripFails

LEMMA UpgradeStep == ASSUME RequestInv, Upgrade PROVE RequestInv'
  <1>1. /\ stage = "proxying" /\ ProxyReturns /\ UNCHANGED <<setup, upstream, responseBuffer, mishap>>
        /\ UNCHANGED errorVars
    BY Zenon DEF Upgrade, routingVars
  <1>2. client' \in ClientType
    BY ZenonT(30) DEF Upgrade, RequestInv, Typed, ClientType
  <1>3. setup.bufferResponses \in BOOLEAN
    BY Zenon DEF RequestInv, Typed, SetupType
  <1>4. writer' \in WriterType
    BY Zenon, <1>3 DEF Upgrade, RequestInv, Typed, WriterType
  <1> QED BY Zenon, <1>1, <1>2, <1>4, ReturnStep

\* What the response writer of the target does with the first header that counts,
\* and with an informational one.
LEMMA WriteHeaderStep ==
  ASSUME RequestInv, stage = "proxying", NEW s \in Nat, NEW stream \in BOOLEAN, WriteHeader(s, stream)
  PROVE  /\ client' \in ClientType /\ writer' \in WriterType
         /\ setup.bufferResponses /\ writer.headerWritten => client' = NewClient /\ writer' = writer
         /\ client'.body = <<>>
         /\ s < 200 \/ (setup.bufferResponses /\ ~stream) => client' = NewClient
         /\ ~setup.bufferResponses => writer' = writer
         /\ setup.bufferResponses /\ ~writer.headerWritten =>
              /\ writer'.status = s /\ writer'.headerWritten /\ ~writer'.hijacked
              /\ writer'.bypass = stream
  <1>1. client' \in ClientType /\ writer' \in WriterType
    BY Zenon, WriteHeaderTyped DEF RequestInv
  <1>2. /\ client = NewClient /\ responseBuffer = EmptyBuffer /\ ~writer.hijacked
        /\ writer.headerWritten => upstream.informational /\ writer.status = 103
    BY SMTT(30) DEF RequestInv, NothingSent, Early
  <1>3. client \in ClientType /\ writer \in WriterType /\ writer.hijacked \in BOOLEAN
    BY Zenon DEF RequestInv, Typed, WriterType
  <1>4. CASE ~setup.bufferResponses
    <2>1. client' = RawWriteHeader(client, s) /\ writer' = writer
      BY Zenon, <1>4 DEF WriteHeader
    <2>2. RawWriteHeader(client, s).body = client.body /\ (s < 200 => RawWriteHeader(client, s) = client)
      BY SMTT(30), <1>3, RawWriteHeaderStep
    <2> QED BY Zenon, <1>1, <1>2, <1>4, <2>1, <2>2, NewClientTyped
  <1>5. CASE setup.bufferResponses /\ writer.headerWritten
    <2>1. client' = client /\ writer' = writer
      BY Zenon, <1>5 DEF WriteHeader
    <2> QED BY SMTT(30), <1>1, <1>2, <1>5, <2>1, NewClientTyped
  <1>6. CASE setup.bufferResponses /\ ~writer.headerWritten
    <2>1. /\ writer' = [writer EXCEPT !.status = s, !.headerWritten = TRUE, !.bypass = stream]
          /\ client' = IF writer'.bypass THEN Send(writer', responseBuffer, client) ELSE client
      BY Zenon, <1>6 DEF WriteHeader, ShouldSwitchToUnbuffered
    <2>2. /\ writer'.status = s /\ writer'.headerWritten /\ writer'.hijacked = writer.hijacked
          /\ writer'.bypass = stream
      BY Zenon, <1>3, <2>1 DEF WriterType
    <2>3. ~writer'.hijacked
      BY Zenon, <1>2, <2>2
    <2>4. Send(writer', responseBuffer, client) = RawWriteHeader(client, s)
      <3>1. ~EmptyBuffer.overflowed
        BY SMTT(30) DEF EmptyBuffer
      <3>2. SendHeader(writer', client) = RawWriteHeader(client, s)
        BY Zenon, <2>2 DEF SendHeader
      <3>3. RawWrite(RawWriteHeader(client, s), <<>>) = RawWriteHeader(client, s)
        BY Zenon DEF RawWrite
      <3> QED BY Zenon, <1>2, <2>3, <3>1, <3>2, <3>3, EmptyBufferOK DEF Send
    <2>5. RawWriteHeader(client, s).body = client.body /\ (s < 200 => RawWriteHeader(client, s) = client)
      BY SMTT(30), <1>3, RawWriteHeaderStep
    <2>6. /\ client' = RawWriteHeader(client, s) \/ client' = client
          /\ ~stream => client' = client
      BY Zenon, <2>1, <2>2, <2>4
    <2> QED BY Zenon, <1>1, <1>2, <1>6, <2>2, <2>3, <2>5, <2>6, NewClientTyped
  <1> QED BY ZenonT(30), <1>4, <1>5, <1>6

LEMMA InformationalStep == ASSUME RequestInv, Informational PROVE RequestInv'
  <1>1. /\ setup' = setup /\ received' = received /\ requestBuffer' = requestBuffer /\ forwarded' = forwarded
        /\ responseBuffer' = responseBuffer /\ failure' = failure /\ raised' = raised
        /\ mishap' = mishap /\ stage = "proxying" /\ stage' = stage
    BY Zenon DEF Informational, routingVars, bodyVars, errorVars
  <1>2. /\ upstream' \in UpstreamType /\ upstream'.informational
        /\ upstream'.status = upstream.status /\ upstream'.size = upstream.size
    BY Zenon DEF Informational, RequestInv, Typed, UpstreamType
  <1>3. /\ client' \in ClientType /\ writer' \in WriterType /\ client' = NewClient
        /\ writer.headerWritten => writer' = writer
        /\ ~setup.bufferResponses => writer' = writer
        /\ setup.bufferResponses /\ ~writer.headerWritten =>
              writer'.status = 103 /\ writer'.headerWritten /\ ~writer'.hijacked /\ writer'.bypass = FALSE
    <2>1. 103 \in Nat /\ FALSE \in BOOLEAN /\ 103 < 200
      OBVIOUS
    <2>2. WriteHeader(103, FALSE)
      BY Zenon DEF Informational
    <2> QED BY ZenonT(30), <1>1, <2>1, <2>2, WriteHeaderStep
  <1>4. Typed' /\ BuffersBounded'
    BY SMTT(30), <1>1, <1>2, <1>3 DEF RequestInv, Typed, BuffersBounded
  <1>5. SpillsPlaced' /\ BodyKept'
    BY SMTT(30), <1>1 DEF RequestInv, SpillsPlaced, BodyKept, ForwardedWhole
  <1>6. NothingSent'
    BY ZenonT(30), <1>1, <1>2, <1>3 DEF RequestInv, NothingSent, Early
  <1>7. HeldBack' /\ PassedOn' /\ WholeAfterSend' /\ ErrorUnderWay'
    BY ZenonT(30), <1>1, <1>2 DEF RequestInv, HeldBack, PassedOn, WholeAfterSend, ErrorUnderWay, NothingSent, Early
  <1> QED BY Zenon, <1>4, <1>5, <1>6, <1>7 DEF RequestInv

LEMMA ResponseHeaderStep ==
  ASSUME RequestInv, NEW s \in Statuses, NEW stream \in BOOLEAN, ResponseHeader(s, stream)
  PROVE  RequestInv'
  <1>1. /\ setup' = setup /\ received' = received /\ requestBuffer' = requestBuffer /\ forwarded' = forwarded
        /\ responseBuffer' = responseBuffer /\ failure' = failure /\ raised' = raised
        /\ mishap' = mishap /\ stage = "proxying" /\ stage' = "copying"
    BY Zenon DEF ResponseHeader, routingVars, bodyVars, errorVars
  <1>2. s \in Nat /\ s >= 200
    BY RequestConstants
  <1>3. /\ upstream' \in UpstreamType /\ upstream'.informational = upstream.informational
        /\ upstream'.status = s /\ upstream'.size = upstream.size /\ upstream'.stream = stream
    BY Zenon, <1>2 DEF ResponseHeader, RequestInv, Typed, UpstreamType
  <1>4. /\ client' \in ClientType /\ writer' \in WriterType /\ client'.body = <<>>
        /\ setup.bufferResponses /\ writer.headerWritten => client' = NewClient /\ writer' = writer
        /\ setup.bufferResponses /\ ~stream => client' = NewClient
        /\ setup.bufferResponses /\ ~writer.headerWritten =>
              writer'.status = s /\ writer'.headerWritten /\ ~writer'.hijacked /\ writer'.bypass = stream
    <2>1. WriteHeader(s, stream)
      BY Zenon DEF ResponseHeader
    <2> QED BY ZenonT(30), <1>1, <1>2, <2>1, WriteHeaderStep
  <1>5. /\ responseBuffer = EmptyBuffer /\ raised = 0 /\ failure = 0 /\ ~mishap
        /\ upstream.size = 0 /\ ~writer.bypass /\ ~writer.hijacked
        /\ writer.headerWritten => writer.status = 103 /\ upstream.informational
        /\ upstream.informational /\ setup.bufferResponses => writer.headerWritten
    BY SMTT(30), <1>1 DEF RequestInv, NothingSent, Early
  <1>6. Typed' /\ BuffersBounded'
    BY ZenonT(30), <1>1, <1>3, <1>4 DEF RequestInv, Typed, BuffersBounded, Late
  <1>7. SpillsPlaced'
    BY ZenonT(30), <1>1, <1>5 DEF SpillsPlaced, SpillFileLeft, EmptyBuffer
  <1>8. BodyKept' /\ NothingSent'
    BY ZenonT(30), <1>1 DEF RequestInv, BodyKept, ForwardedWhole, NothingSent, Early
  <1>9. HeldBack'
    <2> SUFFICES ASSUME setup.bufferResponses, ~stream \/ upstream.informational
                 PROVE  /\ client' = NewClient /\ ~mishap'
                        /\ writer'.headerWritten /\ ~writer'.bypass /\ ~writer'.hijacked
                        /\ writer'.status = IF upstream'.informational THEN 103 ELSE upstream'.status
                        /\ Contents(responseBuffer)' = Bytes(0, upstream.size)'
      BY ZenonT(30), <1>1, <1>3 DEF HeldBack
    <2>1. client' = NewClient /\ ~mishap'
      BY ZenonT(30), <1>1, <1>4, <1>5
    <2>2. Contents(responseBuffer)' = Bytes(0, upstream.size)'
      BY Zenon, <1>1, <1>3, <1>5, EmptyBufferOK, BytesEmpty DEF Contents, Bytes
    <2>3. /\ writer'.headerWritten /\ ~writer'.bypass /\ ~writer'.hijacked
          /\ writer'.status = IF upstream.informational THEN 103 ELSE s
      BY ZenonT(30), <1>4, <1>5
    <2> QED BY Zenon, <1>3, <2>1, <2>2, <2>3
  <1>10. PassedOn'
    <2>1. Bytes(0, upstream.size)' = <<>>
      BY SMTT(30), <1>3, <1>5, BytesEmpty DEF Bytes
    <2>2. setup.bufferResponses /\ stream /\ ~upstream.informational => writer'.bypass
      BY Zenon, <1>4, <1>5
    <2> QED BY Zenon, <1>1, <1>2, <1>3, <1>4, <2>1, <2>2 DEF PassedOn
  <1>11. WholeAfterSend' /\ ErrorUnderWay'
    BY ZenonT(30), <1>1, <1>2, <1>3, <1>5 DEF WholeAfterSend, ErrorUnderWay
  <1> QED BY Zenon, <1>6, <1>7, <1>8, <1>9, <1>10, <1>11 DEF RequestInv

-----------------------------------------------------------------------------
\* The response.

\* The proxy panics: both buffers are closed.
LEMMA AbortStep ==
  ASSUME RequestInv, stage = "copying", Abort, CloseBody,
         NEW b \in BufferType, BufferOK(b), responseBuffer' = Close(b),
         upstream' \in UpstreamType, upstream'.status = upstream.status, upstream'.stream = upstream.stream,
         UNCHANGED <<setup, writer, errorVars, mishap>>
  PROVE  RequestInv'
  <1>1. /\ setup' = setup /\ writer' = writer /\ mishap' = mishap /\ failure' = failure /\ raised' = raised
        /\ requestBuffer' = Close(requestBuffer) /\ received' = received /\ forwarded' = forwarded
        /\ stage' = "done" /\ client' = [client EXCEPT !.conn = "aborted"]
    BY Zenon DEF Abort, CloseBody, errorVars
  <1>2. requestBuffer' \in BufferType /\ BufferOK(requestBuffer)' /\ ~SpillFileLeft(requestBuffer)'
    <2>1. requestBuffer \in BufferType /\ BufferOK(requestBuffer)
      BY SMTT(30) DEF RequestInv, Typed, BuffersBounded
    <2> QED BY Zenon, <1>1, <2>1, CloseStep DEF BufferOK, Bounded, SpillFileLeft, TotalWritten
  <1>3. responseBuffer' \in BufferType /\ BufferOK(responseBuffer)' /\ ~SpillFileLeft(responseBuffer)'
    BY Zenon, CloseStep DEF BufferOK, Bounded, SpillFileLeft, TotalWritten
  <1>4. client' \in ClientType /\ client'.body = client.body /\ client'.conn = "aborted"
    BY ZenonT(30), <1>1 DEF RequestInv, Typed, ClientType
  <1>5. Typed' /\ BuffersBounded' /\ SpillsPlaced'
    BY Zenon, <1>1, <1>2, <1>3, <1>4 DEF RequestInv, Typed, Late, BuffersBounded, SpillsPlaced
  <1>6. BodyKept' /\ NothingSent' /\ HeldBack' /\ PassedOn'
    BY Zenon, <1>1 DEF BodyKept, ForwardedWhole, NothingSent, Early, HeldBack, PassedOn
  <1>7. WholeAfterSend'
    BY Zenon, <1>1, <1>4, NewClientTyped DEF RequestInv, WholeAfterSend, Delivered, HeldBack
  <1>8. ErrorUnderWay'
    BY Zenon, <1>1 DEF RequestInv, ErrorUnderWay
  <1> QED BY ZenonT(30), <1>5, <1>6, <1>7, <1>8 DEF RequestInv

LEMMA ResponseBrokenStep == ASSUME RequestInv, ResponseBroken PROVE RequestInv'
  <1>1. /\ stage = "copying" /\ Abort /\ CloseBody /\ responseBuffer' = Close(responseBuffer)
        /\ upstream' = upstream /\ UNCHANGED <<setup, writer, errorVars, mishap>>
    BY Zenon DEF ResponseBroken, routingVars
  <1>2. responseBuffer \in BufferType /\ BufferOK(responseBuffer) /\ upstream \in UpstreamType
    BY Zenon DEF RequestInv, Typed, BuffersBounded
  <1> QED BY Zenon, <1>1, <1>2, AbortStep

LEMMA ResponseChunkStep == ASSUME RequestInv, NEW n \in Chunks, ResponseChunk(n) PROVE RequestInv'
  <1>1. /\ setup' = setup /\ writer' = writer /\ failure' = failure /\ raised' = raised /\ mishap' = mishap
        /\ stage = "copying" /\ UNCHANGED <<setup, writer, errorVars, mishap>>
    BY Zenon DEF ResponseChunk, routingVars, errorVars
  <1>2. n \in Nat /\ upstream.size \in Nat /\ upstream.size + n \in Nat
    BY SMTT(30), RequestConstants DEF RequestInv, Typed, UpstreamType
  <1>3. /\ upstream' \in UpstreamType /\ upstream'.size = upstream.size + n
        /\ upstream'.status = upstream.status /\ upstream'.stream = upstream.stream
        /\ upstream'.informational = upstream.informational
    BY Zenon, <1>2 DEF ResponseChunk, RequestInv, Typed, UpstreamType
  <1>4. Bytes(upstream.size, n) \in Seq(Nat)
    BY Zenon, <1>2, BytesSeq
  <1>5. responseBuffer \in BufferType /\ BufferOK(responseBuffer)
    BY Zenon DEF RequestInv, Typed, BuffersBounded
  <1>6. Bytes(0, upstream.size) \o Bytes(upstream.size, n) = Bytes(0, upstream.size)'
    BY ZenonT(30), <1>2, <1>3, BytesJoin DEF Bytes
  <1>7. raised = 0 /\ failure = 0
    BY ZenonT(30), <1>1 DEF RequestInv, ErrorUnderWay
  <1>8. CASE ~setup.bufferResponses \/ writer.bypass
    <2>1. /\ client' = RawWrite(client, Bytes(upstream.size, n)) /\ stage' = "copying"
          /\ received' = received /\ requestBuffer' = requestBuffer /\ forwarded' = forwarded
          /\ responseBuffer' = responseBuffer
      BY Zenon, <1>1, <1>8 DEF ResponseChunk, bodyVars
    <2>2. client' \in ClientType /\ client'.body = client.body \o Bytes(upstream.size, n)
      BY ZenonT(30), <1>4, <2>1, RawWriteStep DEF RequestInv, Typed
    <2>3. Typed' /\ BuffersBounded'
      BY ZenonT(30), <1>1, <1>3, <2>1, <2>2 DEF RequestInv, Typed, BuffersBounded, Late
    <2>4. SpillsPlaced' /\ BodyKept'
      BY ZenonT(30), <1>1, <2>1 DEF RequestInv, SpillsPlaced, BodyKept, ForwardedWhole
    <2>5. NothingSent' /\ WholeAfterSend'
      BY SMTT(30), <2>1 DEF NothingSent, WholeAfterSend, Early
    <2>6. HeldBack'
      BY ZenonT(30), <1>1, <1>3, <1>8 DEF RequestInv, HeldBack
    <2>7. PassedOn'
      BY Zenon, <1>1, <1>3, <1>6, <2>2 DEF RequestInv, PassedOn
    <2>8. ErrorUnderWay'
      BY ZenonT(30), <1>1, <1>3, <1>7 DEF RequestInv, ErrorUnderWay
    <2> QED BY Zenon, <2>3, <2>4, <2>5, <2>6, <2>7, <2>8 DEF RequestInv
  <1>9. CASE setup.bufferResponses /\ ~writer.bypass
    <2>1. PICK out \in Write(responseBuffer, Bytes(upstream.size, n), MaxBytes, MaxMem) :
            IF out.error = "disk"
            THEN responseBuffer' = Close(out.buffer) /\ Abort /\ CloseBody
            ELSE responseBuffer' = out.buffer /\ UNCHANGED <<stage, client, bodyVars>>
      BY Zenon, <1>9 DEF ResponseChunk
    <2>2. /\ out.buffer \in BufferType /\ BufferOK(out.buffer) /\ out.error \in {"none", "toolarge", "disk"}
          /\ out.error = "none" => Contents(out.buffer) = Contents(responseBuffer) \o Bytes(upstream.size, n)
          /\ out.error = "toolarge" \/ responseBuffer.overflowed => out.buffer.overflowed
      BY SMTT(30), <1>4, <1>5, WriteStep
    <2>3. CASE out.error = "disk"
      <3>1. responseBuffer' = Close(out.buffer) /\ Abort /\ CloseBody
        BY Zenon, <2>1, <2>3
      <3>2. PICK b \in BufferType : BufferOK(b) /\ responseBuffer' = Close(b)
        BY Zenon, <2>2, <3>1
      <3> QED BY Zenon, <1>1, <1>3, <3>1, <3>2, AbortStep
    <2>4. CASE out.error # "disk"
      <3>1. /\ responseBuffer' = out.buffer /\ stage' = "copying" /\ client' = client
            /\ received' = received /\ requestBuffer' = requestBuffer /\ forwarded' = forwarded
        BY SMTT(30), <1>1, <2>1, <2>4 DEF bodyVars
      <3>2. Typed'
        BY ZenonT(30), <1>1, <1>3, <2>2, <3>1 DEF RequestInv, Typed, Late
      <3>3. BuffersBounded'
        BY Zenon, <2>2, <3>1 DEF RequestInv, BuffersBounded, BufferOK, Bounded, TotalWritten
      <3>4. SpillsPlaced'
        BY SMTT(30), <1>1, <1>9, <3>1 DEF SpillsPlaced
      <3>5. BodyKept'
        BY SMTT(30), <1>1, <3>1 DEF RequestInv, BodyKept, ForwardedWhole
      <3>6. NothingSent' /\ WholeAfterSend'
        BY SMTT(30), <3>1 DEF NothingSent, WholeAfterSend, Early
      <3>7. HeldBack'
        <4>1. responseBuffer.overflowed => responseBuffer'.overflowed
          BY Zenon, <2>2, <3>1
        <4>2. Contents(responseBuffer) = Bytes(0, upstream.size) =>
                responseBuffer'.overflowed \/ Contents(responseBuffer)' = Bytes(0, upstream.size)'
          <5>1. CASE out.error = "toolarge"
            BY Zenon, <2>2, <3>1, <5>1
          <5>2. CASE out.error = "none"
            BY Zenon, <1>6, <2>2, <3>1, <5>2 DEF Contents
          <5> QED BY ZenonT(30), <2>2, <2>4, <5>1, <5>2
        <4>3. CASE upstream.status # 0 /\ (~upstream.stream \/ upstream.informational)
          <5>1. /\ client = NewClient /\ ~mishap
                /\ writer.headerWritten /\ ~writer.bypass /\ ~writer.hijacked
                /\ writer.status = IF upstream.informational THEN 103 ELSE upstream.status
                /\ responseBuffer.overflowed \/ Contents(responseBuffer) = Bytes(0, upstream.size)
            BY ZenonT(30), <1>1, <1>9, <4>3 DEF RequestInv, HeldBack
          <5>2. responseBuffer'.overflowed \/ Contents(responseBuffer)' = Bytes(0, upstream.size)'
            BY Zenon, <4>1, <4>2, <5>1
          <5>3. NewClient' = NewClient
            BY Zenon DEF NewClient
          <5>4. client' = NewClient' /\ ~mishap'
            BY SMTT(30), <1>1, <3>1, <5>1, <5>3
          <5>5. /\ writer'.headerWritten /\ ~writer'.bypass /\ ~writer'.hijacked
                /\ writer'.status = IF upstream'.informational THEN 103 ELSE upstream'.status
            BY Zenon, <1>1, <1>3, <5>1
          <5> QED BY Zenon, <5>2, <5>4, <5>5 DEF HeldBack
        <4>4. CASE upstream.status = 0 \/ (upstream.stream /\ ~upstream.informational)
          BY Zenon, <1>3, <4>4 DEF HeldBack
        <4> QED BY Zenon, <4>3, <4>4
      <3>8. PassedOn'
        BY Zenon, <1>1, <1>3, <1>9, <3>1 DEF RequestInv, PassedOn
      <3>9. ErrorUnderWay'
        BY Zenon, <1>1, <1>3, <1>7 DEF RequestInv, ErrorUnderWay
      <3> QED BY SMTT(30), <3>2, <3>3, <3>4, <3>5, <3>6, <3>7, <3>8, <3>9 DEF RequestInv
    <2> QED BY Zenon, <2>3, <2>4
  <1> QED BY Zenon, <1>8, <1>9

LEMMA ResponseEndStep == ASSUME RequestInv, ResponseEnd PROVE RequestInv'
  <1>1. /\ setup' = setup /\ upstream' = upstream /\ responseBuffer' = responseBuffer /\ mishap' = mishap
        /\ writer' = writer /\ client' = client /\ failure' = failure /\ raised' = raised
        /\ requestBuffer' = Close(requestBuffer) /\ received' = received /\ forwarded' = forwarded
        /\ stage = "copying" /\ stage' = IF setup.bufferResponses THEN "sending" ELSE "pages"
    BY SMTT(30) DEF ResponseEnd, ProxyReturns, CloseBody, routingVars, answerVars, errorVars
  <1>2. requestBuffer' \in BufferType /\ BufferOK(requestBuffer)' /\ ~SpillFileLeft(requestBuffer)'
    <2>1. requestBuffer \in BufferType /\ BufferOK(requestBuffer)
      BY Zenon DEF RequestInv, Typed, BuffersBounded
    <2> QED BY Zenon, <1>1, <2>1, CloseStep DEF BufferOK, Bounded, SpillFileLeft, TotalWritten
  <1>3. Typed'
    BY ZenonT(30), <1>1, <1>2 DEF RequestInv, Typed, Late
  <1>4. BuffersBounded' /\ SpillsPlaced'
    BY Zenon, <1>1, <1>2 DEF RequestInv, BuffersBounded, BufferOK, Bounded, TotalWritten, SpillsPlaced
  <1>5. BodyKept' /\ NothingSent' /\ PassedOn'
    BY ZenonT(30), <1>1 DEF RequestInv, BodyKept, ForwardedWhole, NothingSent, Early, PassedOn
  <1>6. HeldBack' /\ WholeAfterSend'
    BY ZenonT(30), <1>1 DEF RequestInv, HeldBack, WholeAfterSend
  <1>7. ErrorUnderWay'
    BY ZenonT(30), <1>1 DEF RequestInv, ErrorUnderWay
  <1> QED BY SMTT(30), <1>3, <1>4, <1>5, <1>6, <1>7 DEF RequestInv

\* After the proxy: Send has run, and the response's buffer is closed.
LEMMA SentStep ==
  ASSUME RequestInv, stage = "sending", stage' = "pages", responseBuffer' = Close(responseBuffer),
         client' \in ClientType, mishap' \in BOOLEAN,
         UNCHANGED <<setup, bodyVars, upstream, writer, errorVars>>,
         raised # 0 => client' = NewClient /\ ~mishap',
         /\ upstream.status # 0 /\ setup.bufferResponses /\ ~upstream.stream /\ ~mishap'
         => Delivered'
  PROVE  RequestInv'
  <1>1. /\ setup' = setup /\ upstream' = upstream /\ writer' = writer /\ failure' = failure
        /\ raised' = raised /\ requestBuffer' = requestBuffer /\ received' = received
        /\ forwarded' = forwarded
    BY SMTT(30) DEF bodyVars, errorVars
  <1>2. responseBuffer' \in BufferType /\ BufferOK(responseBuffer)' /\ ~SpillFileLeft(responseBuffer)'
    <2>1. responseBuffer \in BufferType /\ BufferOK(responseBuffer)
      BY SMTT(30) DEF RequestInv, Typed, BuffersBounded
    <2> QED BY Zenon, <2>1, CloseStep DEF BufferOK, Bounded, SpillFileLeft, TotalWritten
  <1>3. Typed'
    BY ZenonT(30), <1>1, <1>2 DEF RequestInv, Typed, Late
  <1>4. BuffersBounded' /\ SpillsPlaced'
    BY Zenon, <1>1, <1>2 DEF RequestInv, BuffersBounded, BufferOK, Bounded, TotalWritten, SpillsPlaced
  <1>5. BodyKept' /\ NothingSent' /\ PassedOn' /\ HeldBack'
    BY Zenon DEF BodyKept, ForwardedWhole, NothingSent, Early, PassedOn, HeldBack
  <1>6. WholeAfterSend'
    BY SMTT(30), <1>1 DEF WholeAfterSend
  <1>7. ErrorUnderWay'
    BY ZenonT(30), <1>1, NewClientTyped DEF RequestInv, ErrorUnderWay
  <1> QED BY SMTT(30), <1>3, <1>4, <1>5, <1>6, <1>7 DEF RequestInv

LEMMA SendResponseStep == ASSUME RequestInv, SendResponse PROVE RequestInv'
  <1>1. /\ stage = "sending" /\ stage' = "pages" /\ responseBuffer' = Close(responseBuffer)
        /\ client' = Send(writer, responseBuffer, client) /\ mishap' = mishap
        /\ UNCHANGED <<setup, bodyVars, upstream, writer, errorVars>>
        /\ upstream' = upstream
    BY SMTT(30) DEF SendResponse, routingVars
  <1>2. writer \in WriterType /\ responseBuffer \in BufferType /\ client \in ClientType /\ mishap \in BOOLEAN
    BY SMTT(30) DEF RequestInv, Typed
  <1>3. /\ client' \in ClientType /\ Contents(responseBuffer) \in Seq(Nat)
        /\ SendHeader(writer, client) \in ClientType
    BY SMTT(30), <1>1, <1>2, SendTyped
  <1>4. raised # 0 => client' = NewClient /\ ~mishap
    <2> SUFFICES ASSUME raised # 0 PROVE client' = NewClient /\ ~mishap
      OBVIOUS
    <2>1. /\ client = NewClient /\ ~mishap /\ responseBuffer = EmptyBuffer /\ ~writer.hijacked
          /\ writer.headerWritten => writer.status = 103
      BY ZenonT(30), <1>1 DEF RequestInv, ErrorUnderWay
    <2>2. SendHeader(writer, client) = client
      BY <2>1 DEF SendHeader, RawWriteHeader
    <2>3. RawWrite(client, <<>>) = client /\ ~EmptyBuffer.overflowed
      BY Zenon DEF RawWrite, EmptyBuffer
    <2> QED BY Zenon, <1>1, <2>1, <2>2, <2>3, EmptyBufferOK DEF Send
  <1>5. ASSUME upstream.status # 0, setup.bufferResponses, ~upstream.stream
        PROVE  Delivered'
    <2>1. /\ client = NewClient /\ writer.headerWritten /\ ~writer.hijacked
          /\ writer.status = IF upstream.informational THEN 103 ELSE upstream.status
          /\ responseBuffer.overflowed \/ Contents(responseBuffer) = Bytes(0, upstream.size)
      BY ZenonT(30), <1>1, <1>5 DEF RequestInv, HeldBack
    <2>2. CASE responseBuffer.overflowed
      <3>1. client' = RawPage(NewClient, 500)
        BY Zenon, <1>1, <2>1, <2>2 DEF Send
      <3>2. client'.body = <<>> /\ client'.status = 500 /\ client'.pages = 1
        <4>1. NewClient \in ClientType /\ NewClient.body = <<>> /\ NewClient.status = 0 /\ NewClient.pages = 0
          BY Zenon, NewClientTyped
        <4>2. /\ client'.body = NewClient.body /\ client'.pages = NewClient.pages + 1
              /\ client'.status = IF 500 < 200 \/ NewClient.status # 0 THEN NewClient.status ELSE 500
          <5>1. \A n \in Nat : LET c == RawPage(NewClient, n) IN
                  /\ c.body = NewClient.body /\ c.pages = NewClient.pages + 1
                  /\ c.status = IF n < 200 \/ NewClient.status # 0 THEN NewClient.status ELSE n
            BY Zenon, <4>1, RawPageStep
          <5> QED BY SMTT(30), <3>1, <5>1
        <4> QED BY <4>1, <4>2
      <3> QED BY SMTT(30), <3>2 DEF Delivered
    <2>3. CASE ~responseBuffer.overflowed
      <3> DEFINE d == RawWriteHeader(NewClient, writer.status)  s == Bytes(0, upstream.size)
      <3>1. client' = RawWrite(d, s)
        <4>1. SendHeader(writer, client) = d
          BY Zenon, <2>1 DEF SendHeader
        <4> QED BY Zenon, <1>1, <2>1, <2>3, <4>1 DEF Send
      <3>2. writer.status \in Nat /\ s \in Seq(Nat)
        BY SMTT(30), <1>2, <1>3, <2>1, <2>3 DEF WriterType
      <3>3. /\ d \in ClientType /\ d.body = <<>> /\ d.pages = 0
            /\ d.status = IF writer.status < 200 THEN 0 ELSE writer.status
        BY ZenonT(30), <3>2, RawWriteHeaderStep, NewClientTyped
      <3> HIDE DEF d, s
      <3>4. /\ client'.body = d.body \o s /\ client'.pages = d.pages
            /\ s = <<>> => client' = d
            /\ s # <<>> => client'.status = RawWriteHeader(d, 200).status
        BY ZenonT(30), <3>1, <3>2, <3>3, RawWriteStep
      <3>5. <<>> \o s = s
        BY Zenon, <3>2, ConcatNone
      <3>6. client'.body = s /\ client'.pages = 0
        BY ZenonT(30), <3>3, <3>4, <3>5
      <3>7. upstream.informational \/ client'.status = upstream.status
        <4> SUFFICES ASSUME ~upstream.informational PROVE client'.status = upstream.status
          OBVIOUS
        <4>1. writer.status = upstream.status /\ upstream.status >= 200 /\ upstream.status \in Nat
          BY ZenonT(30), <1>5, <2>1, <3>2 DEF RequestInv, ErrorUnderWay
        <4>2. d.status = upstream.status
          BY SMTT(30), <3>3, <4>1
        <4>3. RawWriteHeader(d, 200).status = d.status
          BY SMTT(60), <3>3, <4>1, <4>2, RawWriteHeaderStep
        <4> QED BY ZenonT(30), <3>4, <4>2, <4>3
      <3>8. Bytes(0, upstream.size)' = s
        BY Zenon, <1>1 DEF s, Bytes
      <3> QED BY ZenonT(30), <1>1, <3>6, <3>7, <3>8 DEF Delivered
    <2> QED BY Zenon, <2>2, <2>3
  <1> QED BY ZenonT(30), <1>1, <1>2, <1>3, <1>4, <1>5, SentStep

LEMMA SendBreaksStep == ASSUME RequestInv, SendBreaks PROVE RequestInv'
  <1>1. /\ stage = "sending" /\ stage' = "pages" /\ responseBuffer' = Close(responseBuffer)
        /\ mishap' = TRUE /\ responseBuffer.created
        /\ UNCHANGED <<setup, bodyVars, upstream, writer, errorVars>>
    BY SMTT(30) DEF SendBreaks, routingVars
  <1>2. writer \in WriterType /\ responseBuffer \in BufferType /\ client \in ClientType
    BY Zenon DEF RequestInv, Typed
  <1>3. PICK n \in 0..(Len(responseBuffer.disk) - 1) :
          client' = RawPage(RawWrite(SendHeader(writer, client),
                                     responseBuffer.memory \o SubSeq(responseBuffer.disk, 1, n)), 500)
    BY SMTT(30) DEF SendBreaks
  <1>4. responseBuffer.memory \in Seq(Nat) /\ responseBuffer.disk \in Seq(Nat)
    BY Zenon, <1>2, BufferFields
  <1>5. SubSeq(responseBuffer.disk, 1, n) \in Seq(Nat)
    <2> DEFINE p == responseBuffer.disk
    <2>1. p \in Seq(Nat) /\ Len(p) \in Nat
      BY Zenon, <1>4, LenBytes
    <2> HIDE DEF p
    <2>2. n \in 0..Len(p)
      BY <2>1 DEF p
    <2>3. SubSeq(p, 1, n) \in Seq(Nat)
      BY SMTT(30), <2>1, <2>2, Cut
    <2> QED BY Zenon, <2>3 DEF p
  <1>6. responseBuffer.memory \o SubSeq(responseBuffer.disk, 1, n) \in Seq(Nat)
    BY SMTT(30), <1>4, <1>5, ConcatBytes
  <1>7. client' \in ClientType
    <2>1. SendHeader(writer, client) \in ClientType
      BY SMTT(30), <1>2, SendTyped
    <2>2. RawWrite(SendHeader(writer, client), responseBuffer.memory \o SubSeq(responseBuffer.disk, 1, n))
            \in ClientType
      BY ZenonT(30), <1>6, <2>1, RawWriteStep
    <2>3. \A c \in ClientType : RawPage(c, 500) \in ClientType
      BY SMTT(30), RawPageStep
    <2> QED BY ZenonT(30), <1>3, <2>2, <2>3
  <1>8. raised = 0
    <2>1. ~EmptyBuffer.created
      BY SMTT(30) DEF EmptyBuffer
    <2> QED BY Zenon, <1>1, <2>1 DEF RequestInv, ErrorUnderWay
  <1> QED BY SMTT(30), <1>1, <1>7, <1>8, SentStep

-----------------------------------------------------------------------------
\* The error pages.

LEMMA ServicePagesStep == ASSUME RequestInv, ServicePages PROVE RequestInv'
  <1>1. /\ setup' = setup /\ upstream' = upstream /\ writer' = writer /\ responseBuffer' = responseBuffer
        /\ requestBuffer' = requestBuffer /\ received' = received /\ forwarded' = forwarded
        /\ raised' = raised /\ stage = "pages" /\ stage' = "rootpages"
    BY SMTT(30), ZenonT(30) DEF ServicePages, routingVars, bodyVars, answerVars
  <1>2. client \in ClientType /\ failure \in Nat /\ raised \in Nat /\ mishap \in BOOLEAN
    BY SMTT(30) DEF RequestInv, Typed
  <1>3. BuffersBounded' /\ SpillsPlaced'
    BY SMTT(30), <1>1 DEF RequestInv, BuffersBounded, SpillsPlaced
  <1>4. BodyKept' /\ NothingSent' /\ PassedOn' /\ HeldBack'
    BY Zenon, <1>1 DEF BodyKept, ForwardedWhole, NothingSent, Early, PassedOn, HeldBack
  <1>5. CASE UNCHANGED <<client, failure, mishap>>
    <2>1. Typed'
      BY SMTT(30), <1>1, <1>5 DEF RequestInv, Typed, Late
    <2>2. WholeAfterSend'
      BY ZenonT(30), <1>1, <1>5 DEF RequestInv, WholeAfterSend, Delivered, Bytes
    <2>3. ErrorUnderWay'
      BY ZenonT(30), <1>1, <1>5, NewClientTyped DEF RequestInv, ErrorUnderWay
    <2> QED BY SMTT(30), <1>3, <1>4, <2>1, <2>2, <2>3 DEF RequestInv
  <1>6. CASE ~(~setup.custom \/ failure = 0)
    <2>1. PICK broke \in (IF failure \in setup.pages THEN BOOLEAN ELSE {FALSE}) :
            /\ client' = IF failure \in setup.pages THEN RawPage(client, failure)
                         ELSE RawWriteHeader(client, failure)
            /\ failure' = IF Handled(failure, broke) THEN 0 ELSE failure
            /\ mishap' = (mishap \/ broke)
      BY Zenon, <1>6 DEF ServicePages
    <2>2. /\ raised # 0 /\ failure = raised /\ raised >= 200 /\ client = NewClient /\ ~mishap
          /\ upstream.status = 0
      BY ZenonT(30), <1>1, <1>6 DEF RequestInv, ErrorUnderWay
    <2>3. mishap' \in BOOLEAN /\ failure' \in Nat
      <3>1. mishap' \in BOOLEAN
        <4>1. (mishap \/ broke) \in BOOLEAN
          OBVIOUS
        <4> QED BY Zenon, <2>1, <4>1
      <3>2. failure' = failure \/ failure' = 0
        BY Zenon, <2>1
      <3> QED BY <1>2, <3>1, <3>2
    <2>4. CASE failure \in setup.pages
      <3>1. client' = RawPage(client, failure)
        BY Zenon, <2>1, <2>4
      <3>2. /\ client' \in ClientType /\ client'.status = raised /\ client'.body = <<>>
            /\ client'.pages = 1 /\ client'.conn = "open"
        <4>1. client.status = 0 /\ client.body = <<>> /\ client.pages = 0 /\ client.conn = "open"
          BY SMTT(30), <2>2, NewClientTyped
        <4>2. failure >= 200 /\ failure = raised
          BY Zenon, <2>2
        <4>3. /\ client' \in ClientType /\ client'.body = client.body /\ client'.pages = client.pages + 1
              /\ client'.conn = client.conn
              /\ client'.status = IF failure < 200 \/ client.status # 0 THEN client.status ELSE failure
          BY ZenonT(30), <1>2, <3>1, RawPageStep
        <4> QED BY SMTT(30), <1>2, <4>1, <4>2, <4>3
      <3>3. failure' = 0 \/ (failure' = raised /\ mishap')
        BY Zenon, <2>1, <2>2, <2>4 DEF Handled
      <3>4. Typed'
        BY ZenonT(30), <1>1, <2>3, <3>2 DEF RequestInv, Typed, Late
      <3>5. WholeAfterSend' /\ ErrorUnderWay'
        BY ZenonT(30), <1>1, <2>2, <3>2, <3>3 DEF WholeAfterSend, ErrorUnderWay
      <3> QED BY ZenonT(30), <1>3, <1>4, <3>4, <3>5 DEF RequestInv
    <2>5. CASE failure \notin setup.pages
      <3>1. client' = RawWriteHeader(client, failure) /\ failure' = failure
        BY Zenon, <2>1, <2>5 DEF Handled
      <3>2. /\ client' \in ClientType /\ client'.status = raised /\ client'.body = <<>>
            /\ client'.pages = 0 /\ client'.conn = "open"
        BY SMTT(60), <1>2, <2>2, <3>1, RawWriteHeaderStep, NewClientTyped
      <3>3. Typed'
        BY ZenonT(30), <1>1, <2>3, <3>2 DEF RequestInv, Typed, Late
      <3>4. WholeAfterSend' /\ ErrorUnderWay'
        BY ZenonT(30), <1>1, <2>2, <3>1, <3>2 DEF WholeAfterSend, ErrorUnderWay
      <3> QED BY ZenonT(30), <1>3, <1>4, <3>3, <3>4 DEF RequestInv
    <2> QED BY SMTT(30), <2>4, <2>5
  <1> QED BY Zenon, <1>5, <1>6 DEF ServicePages

LEMMA RootPagesStep == ASSUME RequestInv, RootPages PROVE RequestInv'
  <1>1. /\ setup' = setup /\ upstream' = upstream /\ writer' = writer /\ responseBuffer' = responseBuffer
        /\ requestBuffer' = requestBuffer /\ received' = received /\ forwarded' = forwarded
        /\ raised' = raised /\ mishap' = mishap /\ failure' = 0
        /\ stage = "rootpages" /\ stage' = "done"
    BY SMTT(30) DEF RootPages, routingVars, bodyVars, answerVars
  <1>2. client \in ClientType /\ failure \in Nat /\ raised \in Nat /\ mishap \in BOOLEAN
        /\ client.status \in Nat /\ client.pages \in Nat
    BY ZenonT(30) DEF RequestInv, Typed, ClientType
  <1>3. BuffersBounded' /\ SpillsPlaced'
    BY SMTT(30), <1>1 DEF RequestInv, BuffersBounded, SpillsPlaced
  <1>4. BodyKept' /\ NothingSent' /\ PassedOn' /\ HeldBack'
    BY Zenon, <1>1 DEF BodyKept, ForwardedWhole, NothingSent, Early, PassedOn, HeldBack
  <1>5. CASE failure # 0
    <2>1. client' = RawPage(client, failure)
      BY Zenon, <1>5 DEF RootPages
    <2>2. /\ raised # 0 /\ failure = raised /\ raised >= 200 /\ upstream.status = 0
          /\ client.body = <<>> /\ client.conn = "open"
          /\ \/ client.pages = 0 /\ client.status \in {0, raised}
             \/ mishap /\ client.pages = 1 /\ client.status = raised
      BY ZenonT(30), <1>1, <1>5 DEF RequestInv, ErrorUnderWay
    <2>3. /\ client' \in ClientType /\ client'.status = raised /\ client'.body = <<>>
          /\ client'.pages = client.pages + 1 /\ client'.conn = "open"
      <3>1. /\ client' \in ClientType /\ client'.body = client.body /\ client'.conn = client.conn
            /\ client'.pages = client.pages + 1
            /\ client'.status = IF failure < 200 \/ client.status # 0 THEN client.status ELSE failure
        BY ZenonT(30), <1>2, <2>1, RawPageStep
      <3>2. ~(failure < 200) /\ client.status \in {0, raised}
        BY <1>2, <2>2
      <3> QED BY Zenon, <2>2, <3>1, <3>2
    <2>4. Typed'
      BY ZenonT(30), <1>1, <2>3 DEF RequestInv, Typed, Late
    <2>5. WholeAfterSend' /\ ErrorUnderWay'
      BY SMTT(60), <1>1, <2>2, <2>3 DEF WholeAfterSend, ErrorUnderWay
    <2> QED BY Zenon, <1>3, <1>4, <2>4, <2>5 DEF RequestInv
  <1>6. CASE failure = 0
    <2>1. client' = RawWriteHeader(client, 200) \/ client' = client
      BY SMTT(30), <1>6 DEF RootPages
    <2>2. /\ client' \in ClientType /\ client'.body = client.body /\ client'.pages = client.pages
          /\ client'.conn = client.conn /\ (client.status # 0 => client'.status = client.status)
      BY SMTT(30), ZenonT(30), <1>2, <2>1, RawWriteHeaderStep
    <2>3. Typed'
      BY SMTT(30), <1>1, <2>2 DEF RequestInv, Typed, Late
    <2>4. WholeAfterSend'
      <3> SUFFICES ASSUME upstream.status # 0, setup.bufferResponses, ~upstream.stream, ~mishap
                   PROVE  Delivered'
        BY SMTT(30), <1>1 DEF WholeAfterSend
      <3>1. Delivered
        BY SMTT(30), <1>1 DEF RequestInv, WholeAfterSend
      <3>2. Bytes(0, upstream.size)' = Bytes(0, upstream.size)
        BY SMTT(30), <1>1 DEF Bytes
      <3> QED BY SMTT(60), <1>1, <2>2, <3>1, <3>2 DEF Delivered
    <2>5. ErrorUnderWay'
      BY ZenonT(30), <1>1, <1>6, <2>2 DEF RequestInv, ErrorUnderWay
    <2> QED BY Zenon, <1>3, <1>4, <2>3, <2>4, <2>5 DEF RequestInv
  <1> QED BY Zenon, <1>5, <1>6

-----------------------------------------------------------------------------
\* Every step preserves the invariant.
LEMMA RequestNext == RequestInv /\ [Next]_vars => RequestInv'
  <1> SUFFICES ASSUME RequestInv, [Next]_vars PROVE RequestInv'
    OBVIOUS
  <1>1. CASE ChangeMap
    BY Zenon, <1>1, Unmoved DEF ChangeMap
  <1>2. CASE RequestStep
    <2>1. CASE \E q \in Requests : Arrive(q)
      BY Zenon, <2>1, ArriveStep
    <2>2. CASE ServiceRequest
      BY Zenon, <2>2, ServiceRequestStep
    <2>3. CASE AnswerHealthCheck \/ PauseRefuses \/ PauseLetsPass \/ ClaimFails
      BY Zenon, <2>3, GateStep
    <2>4. CASE ClaimTarget
      BY Zenon, <2>4, ClaimTargetStep
    <2>5. CASE \E n \in Chunks : ReadBody(n) \/ ResponseChunk(n)
      BY Zenon, <2>5, ReadBodyStep, ResponseChunkStep
    <2>6. CASE BodyBroken \/ BodyEnd
      BY Zenon, <2>6, BodyBrokenStep, BodyEndStep
    <2>7. CASE RoundTripFails \/ Informational \/ Upgrade
      BY Zenon, <2>7, RoundTripFailsStep, InformationalStep, UpgradeStep
    <2>8. CASE \E s \in Statuses, stream \in BOOLEAN : ResponseHeader(s, stream)
      BY Zenon, <2>8, ResponseHeaderStep
    <2>9. CASE ResponseEnd \/ ResponseBroken \/ SendResponse \/ SendBreaks
      BY Zenon, <2>9, ResponseEndStep, ResponseBrokenStep, SendResponseStep, SendBreaksStep
    <2>10. CASE ServicePages \/ RootPages
      BY Zenon, <2>10, ServicePagesStep, RootPagesStep
    <2> QED BY Zenon, <1>2, <2>1, <2>2, <2>3, <2>4, <2>5, <2>6, <2>7, <2>8, <2>9, <2>10 DEF RequestStep
  <1>3. CASE UNCHANGED vars
    BY SMTT(30), <1>3, Unmoved DEF vars, requestVars, routingVars
  <1> QED BY Zenon, <1>1, <1>2, <1>3 DEF Next

THEOREM RequestInvariant == Spec => []RequestInv
  BY RequestInit, RequestNext, PTL DEF Spec

\* Buffer.Write counts before it writes: a body of any size, in any pieces, takes
\* no more memory and no more of memory and disk together than its limits.
THEOREM BuffersStayBounded == Spec => []BuffersBounded
  <1>1. RequestInv => BuffersBounded
    BY Zenon DEF RequestInv
  <1> QED BY RequestInvariant, <1>1, PTL

\* A request that is over has left no spill file behind, however it ended.
THEOREM SpillFilesRemoved == Spec => []NoSpillFileLeft
  <1>1. RequestInv => NoSpillFileLeft
    BY Zenon DEF RequestInv, SpillsPlaced, NoSpillFileLeft
  <1> QED BY RequestInvariant, <1>1, PTL

\* RequestBufferMiddleware forwards a body whole and in order, or not at all.
THEOREM BodiesForwardedWhole == Spec => []ForwardedWhole
  <1>1. RequestInv => ForwardedWhole
    BY Zenon DEF RequestInv, BodyKept
  <1> QED BY RequestInvariant, <1>1, PTL

\* ResponseBufferMiddleware gives the client the response whole, or none of it.
THEOREM ResponsesWholeOrNothing == Spec => []WholeOrNothing
  <1>1. RequestInv => WholeOrNothing
    BY Zenon DEF RequestInv, WholeAfterSend, Delivered, WholeOrNothing
  <1> QED BY RequestInvariant, <1>1, PTL

\* The response buffer passes an event stream on byte by byte, or, after an
\* informational response, holds it back whole.
THEOREM StreamsArePassedOn == Spec => []StreamsPassOn
  <1>1. RequestInv => StreamsPassOn
    <2> SUFFICES ASSUME RequestInv, stage = "copying", upstream.stream
                 PROVE  \/ client.body = Bytes(0, upstream.size)
                        \/ setup.bufferResponses /\ upstream.informational /\ client.body = <<>>
      BY Zenon DEF StreamsPassOn
    <2>1. CASE ~setup.bufferResponses \/ ~upstream.informational
      BY Zenon, <2>1 DEF RequestInv, PassedOn
    <2>2. CASE setup.bufferResponses /\ upstream.informational
      <3>1. upstream.status >= 200
        BY Zenon DEF RequestInv, PassedOn
      <3>2. upstream.status # 0
        BY <3>1
      <3>3. client = NewClient
        BY Zenon, <2>2, <3>2 DEF RequestInv, HeldBack
      <3> QED BY Zenon, <2>2, <3>3, NewClientTyped
    <2> QED BY Zenon, <2>1, <2>2
  <1> QED BY RequestInvariant, <1>1, PTL

\* An error set anywhere below the error pages reaches the client, with one page,
\* or with two if the first broke off midway.
THEOREM ErrorsAnswered == Spec => []ErrorsReachClient
  <1>1. RequestInv => ErrorsReachClient
    BY ZenonT(30) DEF RequestInv, ErrorUnderWay, ErrorsReachClient
  <1> QED BY RequestInvariant, <1>1, PTL

-----------------------------------------------------------------------------
\* A request on its way leaves the map alone.
LEMMA RequestKeepsMap == [Next]_vars => [MapNext]_mapVars
  <1>1. ASSUME NEW q \in Requests, Arrive(q) PROVE UNCHANGED mapVars
    BY Zenon, <1>1 DEF Arrive
  <1>2. ASSUME ServiceRequest \/ AnswerHealthCheck \/ PauseRefuses \/ PauseLetsPass
               \/ ClaimFails \/ ClaimTarget \/ BodyBroken \/ BodyEnd
        PROVE  UNCHANGED mapVars
    BY ZenonT(30), <1>2 DEF ServiceRequest, AnswerHealthCheck, PauseRefuses, PauseLetsPass,
                       ClaimFails, ClaimTarget, BodyBroken, BodyEnd
  <1>3. ASSUME NEW n \in Chunks, ReadBody(n) \/ ResponseChunk(n) PROVE UNCHANGED mapVars
    BY Zenon, <1>3 DEF ReadBody, ResponseChunk
  <1>4. ASSUME NEW s \in Statuses, NEW stream \in BOOLEAN, ResponseHeader(s, stream)
        PROVE  UNCHANGED mapVars
    BY Zenon, <1>4 DEF ResponseHeader
  <1>5. ASSUME RoundTripFails \/ Informational \/ Upgrade \/ ResponseEnd \/ ResponseBroken
               \/ SendResponse \/ SendBreaks \/ ServicePages \/ RootPages
        PROVE  UNCHANGED mapVars
    BY Zenon, <1>5 DEF RoundTripFails, Informational, Upgrade, ResponseEnd, ResponseBroken,
                       SendResponse, SendBreaks, ServicePages, RootPages
  <1>6. RequestStep => UNCHANGED mapVars
    BY Zenon, <1>1, <1>2, <1>3, <1>4, <1>5 DEF RequestStep
  <1>7. ChangeMap => MapNext
    BY Zenon DEF ChangeMap
  <1>8. UNCHANGED vars => UNCHANGED mapVars
    BY DEF vars
  <1> QED BY Zenon, <1>6, <1>7, <1>8 DEF Next

-----------------------------------------------------------------------------
\* The facts about numbers and sets that the service map needs.

Sets == INSTANCE FiniteSetTheorems

\* A set of numbers has a least one.
LEMMA Least ==
  ASSUME NEW S, S \subseteq Nat, S # {}
  PROVE  \E i \in S : \A j \in S : i <= j
  <1>1. PICK i \in S : \A j \in S : ~(<<j, i>> \in Sets!OpToRel(<, Nat))
    BY Zenon, Sets!WFMin, Sets!NatLessThanWellFounded
  <1>2. ASSUME NEW j \in S PROVE i <= j
    <2>1. ~(<<j, i>> \in Sets!OpToRel(<, Nat))
      BY Zenon, <1>1
    <2>2. ~(j < i)
      BY <2>1 DEF Sets!OpToRel
    <2> QED BY <2>2
  <1> QED BY <1>2

LEMMA CountingFacts == Counting
  <1>1. Sets!Cardinality({}) = 0
    BY Zenon, Sets!FS_EmptySet
  <1>2. Cardinality({}) = 0
    BY Zenon, <1>1 DEF Sets!Cardinality, Cardinality
  <1> QED BY Zenon, <1>2, Least DEF Counting

\* The service map implements the routing table: whatever the order in which
\* updateRequestServiceMap bound the services, every request goes to the service with
\* the longest matching prefix at the host that answers for it, and every service
\* has the TLS settings of the service at the root of its first host.
THEOREM MapImplementsTable == MapSpec => RoutesByTable
  <1>1. MapInit => MapInv /\ Table!Init
    BY CountingFacts, InitRefines
  <1>2. MapInv /\ [MapNext]_mapVars => MapInv' /\ [Table!Next]_(Table!vars)
    <2> SUFFICES ASSUME MapInv, [MapNext]_mapVars
                 PROVE  MapInv' /\ [Table!Next]_(Table!vars)
      OBVIOUS
    <2>1. ASSUME NEW n \in Names, RemoveName(n) PROVE MapInv' /\ Table!Next
      BY <2>1, CountingFacts, RemoveRefines DEF Table!Next
    <2>2. ASSUME NEW n \in Names, NEW r \in Requested, Set(n, r) PROVE MapInv' /\ Table!Next
      BY <2>2, CountingFacts, SetRefines DEF Table!Next
    <2>3. CASE UNCHANGED mapVars
      BY <2>3 DEF mapVars, MapInv, Table!vars
    <2> QED BY <2>1, <2>2, <2>3 DEF MapNext
  <1> QED BY <1>1, <1>2, PTL DEF MapSpec, RoutesByTable, Table!Spec

\* So it does while requests are on their way: ServeHTTP only reads it.
THEOREM RequestsFollowTable == Spec => RoutesByTable
  <1>1. Init => MapInit
    BY DEF Init
  <1> QED BY <1>1, RequestKeepsMap, MapImplementsTable, PTL DEF Spec, MapSpec
=============================================================================
