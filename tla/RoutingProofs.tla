--------------------------- MODULE RoutingProofs ---------------------------
(***************************************************************************)
(* Proofs about Routing, for every set of configurations and targets: the  *)
(* table may be asked for anything, in any order.                          *)
(***************************************************************************)
EXTENDS Routing, TLAPS

\* A table without null entries.
Filled(r) == \A k \in DOMAIN r : r[k] # Null

\* What a session may have done to the table it copied: the entries its handlers
\* are taken from are still there and filled.
Reliable(r) ==
  \A k \in {Slash, Bad, PathOf(config, "CrudHandler"), PathOf(config, "MarkdownHandler")} :
    k \in DOMAIN r /\ r[k] # Null

RInv == Reliable(routes) /\ FactoryFound

----------------------------------------------------------------------------
\* No factory is null.
LEMMA FactoriesNotNull ==
  /\ "EchoHandler" # Null /\ "StaticHandler" # Null /\ "CrudHandler" # Null
  /\ "HealthHandler" # Null /\ "SleepHandler" # Null /\ "MarkdownHandler" # Null
  /\ "404Handler" # Null /\ "BadHandler" # Null
<1>1. /\ Handlers[1] = "EchoHandler" /\ Handlers[2] = "StaticHandler"
      /\ Handlers[3] = "CrudHandler" /\ Handlers[4] = "HealthHandler"
      /\ Handlers[5] = "SleepHandler" /\ Handlers[6] = "MarkdownHandler"
      /\ DOMAIN Handlers = 1 .. 6
  BY DEF Handlers
<1>2. \A i \in 1 .. 6 : Handlers[i] \in Factories
  BY <1>1 DEF Factories, Range
<1>3. "404Handler" \in Factories /\ "BadHandler" \in Factories
  BY DEF Factories
<1> QED BY <1>1, <1>2, <1>3, NullAssumption

----------------------------------------------------------------------------
\* An assignment to an entry of a table.
LEMMA EnteredIsFilled ==
  ASSUME NEW r, NEW key, NEW f, Filled(r), f # Null
  PROVE  /\ Filled(Enter(r, key, f))
         /\ key \in DOMAIN Enter(r, key, f)
         /\ \A k \in DOMAIN r : k \in DOMAIN Enter(r, key, f)
BY DEF Enter, Filled

\* configMap: whatever the configuration, and although paths may coincide, no
\* entry is null and the entries relied on are there.
LEMMA TableIsFilled ==
  ASSUME NEW c
  PROVE  /\ Filled(ConfigMap(c))
         /\ {Slash, Bad, PathOf(c, "CrudHandler"), PathOf(c, "MarkdownHandler")}
              \subseteq DOMAIN ConfigMap(c)
<1> DEFINE crud == PathOf(c, "CrudHandler")
           markdown == PathOf(c, "MarkdownHandler")
           with(r, h) == Enter(r, PathOf(c, h), h)
           m0 == [u \in StaticUris(c) |-> "StaticHandler"]
           m1 == with(m0, "EchoHandler")
           m2 == with(m1, "HealthHandler")
           m3 == Enter(m2, Slash, "404Handler")
           m4 == Enter(m3, Bad, "BadHandler")
           m5 == with(m4, "CrudHandler")
           m6 == with(m5, "SleepHandler")
           m7 == with(m6, "MarkdownHandler")
<1>1. ConfigMap(c) = m7
  BY DEF ConfigMap
<1>2. Filled(m0)
  BY FactoriesNotNull DEF Filled
<1> HIDE DEF m0
<1>3. Filled(m1)
  BY <1>2, EnteredIsFilled, FactoriesNotNull
<1> HIDE DEF m1
<1>4. Filled(m2)
  BY <1>3, EnteredIsFilled, FactoriesNotNull
<1> HIDE DEF m2
<1>5. Filled(m3) /\ Slash \in DOMAIN m3
  BY <1>4, EnteredIsFilled, FactoriesNotNull
<1> HIDE DEF m3
<1>6. Filled(m4) /\ Slash \in DOMAIN m4 /\ Bad \in DOMAIN m4
  BY <1>5, EnteredIsFilled, FactoriesNotNull
<1> HIDE DEF m4
<1>7. Filled(m5) /\ Slash \in DOMAIN m5 /\ Bad \in DOMAIN m5 /\ crud \in DOMAIN m5
  BY <1>6, EnteredIsFilled, FactoriesNotNull
<1> HIDE DEF m5
<1>8. Filled(m6) /\ Slash \in DOMAIN m6 /\ Bad \in DOMAIN m6 /\ crud \in DOMAIN m6
  BY <1>7, EnteredIsFilled, FactoriesNotNull
<1> HIDE DEF m6
<1>9. /\ Filled(m7) /\ Slash \in DOMAIN m7 /\ Bad \in DOMAIN m7
      /\ crud \in DOMAIN m7 /\ markdown \in DOMAIN m7
  BY <1>8, EnteredIsFilled, FactoriesNotNull
<1> QED BY <1>1, <1>9

\* A null entry is entered only where there was none, so it hides nothing.
LEMMA LookupKeeps ==
  ASSUME Reliable(routes), NEW key
  PROVE  Reliable(WithEntry(key))
<1>1. CASE key \in DOMAIN routes
  BY <1>1 DEF WithEntry
<1>2. CASE key \notin DOMAIN routes
  <2>1. WithEntry(key) = Enter(routes, key, Null)
    BY <1>2 DEF WithEntry
  <2>2. \A k \in DOMAIN routes :
          k \in DOMAIN Enter(routes, key, Null) /\ Enter(routes, key, Null)[k] = routes[k]
    BY <1>2 DEF Enter
  <2> QED BY <2>1, <2>2 DEF Reliable
<1> QED BY <1>1, <1>2

LEMMA FallbackIsFilled ==
  ASSUME Reliable(routes), NEW key
  PROVE  Fallback(key) # Null
BY DEF Fallback, Reliable

----------------------------------------------------------------------------
LEMMA InitRInv == Init => RInv
BY TableIsFilled DEF Init, RInv, Reliable, FactoryFound, Filled

LEMMA StepRInv == RInv /\ [Next]_vars => RInv'
<1> SUFFICES ASSUME RInv, [Next]_vars PROVE RInv'
  OBVIOUS
<1> USE DEF RInv
<1>1. CASE NewSession
  BY <1>1, TableIsFilled DEF NewSession, Reliable, FactoryFound, Filled
<1>2. ASSUME NEW u \in Uris, Read(u) PROVE RInv'
  <2>0. config' = config
    BY <1>2 DEF Read
  <2>1. CASE Good(u)
    <3>1. Reliable(routes')
      BY <2>1, LookupKeeps DEF Good
    <3>2. \A h \in {"CrudHandler", "MarkdownHandler"} : Entry(PathOf(config, h)) # Null
      BY DEF Entry, Reliable
    <3>3. routes[Slash] # Null
      BY DEF Reliable
    <3>4. factory' # Null
      <4> DEFINE type == RequestType(config, u)
      <4>1. CASE type \in {"CrudHandler", "MarkdownHandler"}
        BY <2>1, <3>2, <4>1 DEF Good
      <4>2. CASE type = "StaticHandler"
        BY <2>1, <3>3, <4>2, FactoriesNotNull DEF Good
      <4>3. CASE type \notin {"CrudHandler", "MarkdownHandler", "StaticHandler"}
        BY <2>1, <4>3, FallbackIsFilled DEF Good
      <4> QED BY <4>1, <4>2, <4>3
    <3> QED BY <2>0, <3>1, <3>4 DEF FactoryFound, Reliable
  <2>2. CASE Invalid
    BY <2>0, <2>2, LookupKeeps, FallbackIsFilled DEF Invalid, FactoryFound, Reliable
  <2>3. CASE Indeterminate(u)
    BY <2>0, <2>3, LookupKeeps, FallbackIsFilled DEF Indeterminate, FactoryFound, Reliable
  <2> QED BY <1>2, <2>1, <2>2, <2>3 DEF Read
<1>3. CASE UNCHANGED vars
  BY <1>3 DEF vars, Reliable, FactoryFound
<1> QED BY <1>1, <1>2, <1>3 DEF Next

\* In every configuration, Clear or not, and after any requests, each request
\* finds a factory: handle_read never calls a handler of a null one.
THEOREM FactoryIsFound == Spec => []FactoryFound
<1>1. RInv => FactoryFound
  BY DEF RInv
<1> QED BY <1>1, InitRInv, StepRInv, PTL DEF Spec

----------------------------------------------------------------------------
(* RoutedAsConfigured: prefixes, and searches that find one location.      *)

LEMMA PrefixOfItself == ASSUME NEW p \in Seq(STRING) PROVE IsPrefix(p, p)
BY DEF IsPrefix

LEMMA PrefixOfLonger ==
  ASSUME NEW p \in Seq(STRING), NEW q \in Seq(STRING) PROVE IsPrefix(p, p \o q)
<1>1. Len(p \o q) = Len(p) + Len(q) /\ Len(p) \in Nat /\ Len(q) \in Nat
  OBVIOUS
<1>2. SubSeq(p \o q, 1, Len(p)) = SubSeq(p, 1, Len(p))
  OBVIOUS
<1> QED BY <1>1, <1>2 DEF IsPrefix

\* Two beginnings of one text: one begins the other.
LEMMA PrefixesNest ==
  ASSUME NEW p \in Seq(STRING), NEW q \in Seq(STRING), NEW u \in Seq(STRING),
         IsPrefix(p, u), IsPrefix(q, u), Len(p) <= Len(q)
  PROVE  IsPrefix(p, q)
<1>1. \A i \in 1 .. Len(p) : p[i] = u[i]
  <2> TAKE i \in 1 .. Len(p)
  <2>1. SubSeq(p, 1, Len(p))[i] = SubSeq(u, 1, Len(p))[i]
    BY DEF IsPrefix
  <2> QED BY <2>1 DEF IsPrefix
<1>2. \A i \in 1 .. Len(q) : q[i] = u[i]
  <2> TAKE i \in 1 .. Len(q)
  <2>1. SubSeq(q, 1, Len(q))[i] = SubSeq(u, 1, Len(q))[i]
    BY DEF IsPrefix
  <2> QED BY <2>1 DEF IsPrefix
<1>3. SubSeq(p, 1, Len(p)) = SubSeq(q, 1, Len(p))
  BY <1>1, <1>2
<1> QED BY <1>3 DEF IsPrefix

LEMMA PrefixOfSlash ==
  ASSUME NEW p \in Seq(STRING), p # Empty, IsPrefix(p, Slash) PROVE p = Slash
<1>1. Len(p) = 1
  BY DEF IsPrefix, Empty, Slash
<1>2. SubSeq(p, 1, 1)[1] = SubSeq(Slash, 1, 1)[1]
  BY <1>1 DEF IsPrefix
<1>3. p[1] = "/"
  BY <1>1, <1>2 DEF Slash
<1>4. p = <<p[1]>>
  BY <1>1
<1> QED BY <1>3, <1>4 DEF Slash

LEMMA Two == ASSUME NEW S, NEW x \in S, NEW y \in S PROVE <<x, y>> \in Seq(S)
OBVIOUS

LEMMA MinOfOne == ASSUME NEW i \in Nat PROVE Min({i}) = i
BY DEF Min

\* get_<handler>_path, of a handler with one location and of one without any.
LEMMA FirstOfOne ==
  ASSUME NEW c \in Seq(Locations), NEW i \in DOMAIN c,
         \A j \in DOMAIN c : c[j].handler = c[i].handler => j = i
  PROVE  FirstPath(c, c[i].handler) = c[i].path
<1> DEFINE I == {j \in 1 .. Len(c) : c[j].handler = c[i].handler}
<1>1. I = {i} /\ i \in Nat /\ i # 0
  OBVIOUS
<1>2. Min(I) = i
  BY <1>1, MinOfOne
<1>3. SelectInSeq(c, LAMBDA l : l.handler = c[i].handler) = i
  BY <1>1, <1>2 DEF SelectInSeq
<1> QED BY <1>1, <1>3 DEF FirstPath

LEMMA FirstOfNone ==
  ASSUME NEW c \in Seq(Locations), NEW h, \A j \in DOMAIN c : c[j].handler # h
  PROVE  FirstPath(c, h) = Empty
<1>1. SelectInSeq(c, LAMBDA l : l.handler = h) = 0
  BY DEF SelectInSeq
<1> QED BY <1>1 DEF FirstPath

LEMMA Backwards ==
  ASSUME NEW c \in Seq(Locations)
  PROVE  /\ Reverse(c) \in Seq(Locations) /\ DOMAIN Reverse(c) = DOMAIN c
         /\ \A i \in DOMAIN c : Len(c) - i + 1 \in DOMAIN c /\ Reverse(c)[i] = c[Len(c) - i + 1]
BY DEF Reverse

LEMMA PathOfOne ==
  ASSUME NEW c \in Seq(Locations), Clear(c), NEW i \in DOMAIN c
  PROVE  PathOf(c, c[i].handler) = c[i].path
<1>1. \A j \in DOMAIN c : c[j].handler = c[i].handler => j = i
  BY DEF Clear
<1>2. FirstPath(c, c[i].handler) = c[i].path
  BY <1>1, FirstOfOne
<1>3. LastPath(c, c[i].handler) = c[i].path
  <2> DEFINE k == Len(c) - i + 1
             r == Reverse(c)
  <2>1. k \in DOMAIN c /\ Len(c) - k + 1 = i
    OBVIOUS
  <2>2. r \in Seq(Locations) /\ DOMAIN r = DOMAIN c /\ k \in DOMAIN r /\ r[k] = c[i]
    BY <2>1, Backwards
  <2>3. \A j \in DOMAIN r : r[j].handler = r[k].handler => j = k
    <3> SUFFICES ASSUME NEW j \in DOMAIN c, r[j].handler = r[k].handler PROVE j = k
      BY <2>2
    <3>1. Len(c) - j + 1 \in DOMAIN c /\ r[j] = c[Len(c) - j + 1]
      BY Backwards
    <3>2. Len(c) - j + 1 = i
      BY <3>1, <2>2, <1>1
    <3> QED BY <3>2
  <2> HIDE DEF r, k
  <2>4. FirstPath(r, r[k].handler) = r[k].path
    BY <2>2, <2>3, FirstOfOne
  <2> QED BY <2>2, <2>4 DEF LastPath, r
<1> QED BY <1>2, <1>3 DEF PathOf

LEMMA PathOfNone ==
  ASSUME NEW c \in Seq(Locations), NEW h, \A j \in DOMAIN c : c[j].handler # h
  PROVE  PathOf(c, h) = Empty
<1>1. \A j \in DOMAIN Reverse(c) : Reverse(c)[j].handler # h
  BY Backwards
<1>2. LastPath(c, h) = Empty
  BY <1>1, Backwards, FirstOfNone DEF LastPath
<1> QED BY <1>2, FirstOfNone DEF PathOf

----------------------------------------------------------------------------
(* In a clear configuration one location at most begins a target.          *)

LEMMA OneBegins ==
  ASSUME NEW c \in Seq(Locations), Clear(c), NEW i \in DOMAIN c, NEW j \in DOMAIN c,
         NEW u \in Seq(STRING), IsPrefix(c[i].path, u), IsPrefix(c[j].path, u)
  PROVE  i = j
<1>0. c[i] \in Locations /\ c[j] \in Locations
  OBVIOUS
<1>1. c[i].path \in Seq(STRING) /\ c[j].path \in Seq(STRING)
  BY <1>0 DEF Locations
<1>2. IsPrefix(c[i].path, c[j].path) \/ IsPrefix(c[j].path, c[i].path)
  <2>1. Len(c[i].path) <= Len(c[j].path) \/ Len(c[j].path) <= Len(c[i].path)
    BY <1>1
  <2> QED BY <1>1, <2>1, PrefixesNest
<1> QED BY <1>2 DEF Clear

\* Each handler has one location or none.
LEMMA PathOfSome ==
  ASSUME NEW c \in Seq(Locations), Clear(c), NEW h, PathOf(c, h) # Empty
  PROVE  \E i \in DOMAIN c : c[i].handler = h /\ c[i].path = PathOf(c, h)
<1>1. PICK i \in DOMAIN c : c[i].handler = h
  BY PathOfNone
<1> QED BY <1>1, PathOfOne

LEMMA HandlersAre ==
  /\ Handlers[1] = "EchoHandler" /\ Handlers[2] = "StaticHandler"
  /\ Handlers[3] = "CrudHandler" /\ Handlers[4] = "HealthHandler"
  /\ Handlers[5] = "SleepHandler" /\ Handlers[6] = "MarkdownHandler"
  /\ DOMAIN Handlers = 1 .. 6 /\ Len(Handlers) = 6
  /\ \A k, l \in 1 .. 6 : Handlers[k] = Handlers[l] => k = l
BY DEF Handlers

\* The type of a target is the handler of the location that begins it.
LEMMA TypeOfOne ==
  ASSUME NEW c \in Seq(Locations), Clear(c), NEW i \in DOMAIN c,
         NEW u \in Seq(STRING), IsPrefix(c[i].path, u)
  PROVE  RequestType(c, u) = c[i].handler
<1>1. PICK k \in 1 .. 6 : c[i].handler = Handlers[k]
  BY HandlersAre DEF Clear, Range
<1> DEFINE I == {l \in 1 .. Len(Handlers) : Begins(PathOf(c, Handlers[l]), u)}
<1>2. \A l \in I : l = k
  <2> SUFFICES ASSUME NEW l \in 1 .. 6, Begins(PathOf(c, Handlers[l]), u) PROVE l = k
    BY HandlersAre
  <2>1. PathOf(c, Handlers[l]) # Empty /\ IsPrefix(PathOf(c, Handlers[l]), u)
    BY DEF Begins
  <2>2. PICK j \in DOMAIN c : c[j].handler = Handlers[l] /\ c[j].path = PathOf(c, Handlers[l])
    BY <2>1, PathOfSome
  <2>3. j = i
    BY <2>1, <2>2, OneBegins
  <2> QED BY <2>2, <2>3, <1>1, HandlersAre
<1>3. k \in I
  <2>1. PathOf(c, Handlers[k]) = c[i].path /\ c[i].path # Empty
    BY <1>1, PathOfOne DEF Clear
  <2> QED BY <2>1, HandlersAre DEF Begins
<1>4. I = {k}
  BY <1>2, <1>3
<1> HIDE DEF I
<1>5. Min(I) = k /\ I # {}
  <2>1. Min({k}) = k
    BY MinOfOne
  <2> QED BY <1>4, <2>1
<1>6. SelectInSeq(Handlers, LAMBDA h : Begins(PathOf(c, h), u)) = IF I # {} THEN Min(I) ELSE 0
  BY Zenon DEF SelectInSeq, I
<1>7. SelectInSeq(Handlers, LAMBDA h : Begins(PathOf(c, h), u)) = k /\ k # 0
  BY <1>5, <1>6
<1> QED BY <1>1, <1>7 DEF RequestType

LEMMA TypeOfNone ==
  ASSUME NEW c \in Seq(Locations), Clear(c), NEW u \in Seq(STRING),
         \A i \in DOMAIN c : ~IsPrefix(c[i].path, u)
  PROVE  RequestType(c, u) = "404Handler"
<1>1. \A l \in 1 .. Len(Handlers) : ~Begins(PathOf(c, Handlers[l]), u)
  BY PathOfSome DEF Begins
<1>2. SelectInSeq(Handlers, LAMBDA h : Begins(PathOf(c, h), u)) = 0
  BY <1>1 DEF SelectInSeq
<1> QED BY <1>2 DEF RequestType

----------------------------------------------------------------------------
(* What the table holds: of several entries for a key the last one.        *)

LEMMA EnteredAt ==
  ASSUME NEW r, NEW key, NEW f, NEW k
  PROVE  /\ k \in DOMAIN Enter(r, key, f) <=> k \in DOMAIN r \/ k = key
         /\ k = key => Enter(r, key, f)[k] = f
         /\ k # key /\ k \in DOMAIN r => Enter(r, key, f)[k] = r[k]
BY DEF Enter

LEMMA TableAt ==
  ASSUME NEW c, NEW k
  PROVE  LET at(h) == PathOf(c, h) IN
    /\ k \in DOMAIN ConfigMap(c) <=>
         \/ k \in StaticUris(c) \cup {Slash, Bad, at("EchoHandler"), at("HealthHandler")}
         \/ k \in {at("CrudHandler"), at("SleepHandler"), at("MarkdownHandler")}
    /\ k \in DOMAIN ConfigMap(c) =>
         ConfigMap(c)[k] =
           IF k = at("MarkdownHandler") THEN "MarkdownHandler"
           ELSE IF k = at("SleepHandler") THEN "SleepHandler"
           ELSE IF k = at("CrudHandler") THEN "CrudHandler"
           ELSE IF k = Bad THEN "BadHandler"
           ELSE IF k = Slash THEN "404Handler"
           ELSE IF k = at("HealthHandler") THEN "HealthHandler"
           ELSE IF k = at("EchoHandler") THEN "EchoHandler"
           ELSE "StaticHandler"
<1> DEFINE at(h) == PathOf(c, h)
           m0 == [u \in StaticUris(c) |-> "StaticHandler"]
           m1 == Enter(m0, at("EchoHandler"), "EchoHandler")
           m2 == Enter(m1, at("HealthHandler"), "HealthHandler")
           m3 == Enter(m2, Slash, "404Handler")
           m4 == Enter(m3, Bad, "BadHandler")
           m5 == Enter(m4, at("CrudHandler"), "CrudHandler")
           m6 == Enter(m5, at("SleepHandler"), "SleepHandler")
           m7 == Enter(m6, at("MarkdownHandler"), "MarkdownHandler")
<1>1. ConfigMap(c) = m7
  BY DEF ConfigMap
<1>2. (k \in DOMAIN m0 <=> k \in StaticUris(c)) /\ (k \in DOMAIN m0 => m0[k] = "StaticHandler")
  OBVIOUS
<1> HIDE DEF m0
<1>3. /\ k \in DOMAIN m1 <=> k \in DOMAIN m0 \/ k = at("EchoHandler")
      /\ k = at("EchoHandler") => m1[k] = "EchoHandler"
      /\ k # at("EchoHandler") /\ k \in DOMAIN m0 => m1[k] = m0[k]
  BY EnteredAt
<1> HIDE DEF m1
<1>4. /\ k \in DOMAIN m2 <=> k \in DOMAIN m1 \/ k = at("HealthHandler")
      /\ k = at("HealthHandler") => m2[k] = "HealthHandler"
      /\ k # at("HealthHandler") /\ k \in DOMAIN m1 => m2[k] = m1[k]
  BY EnteredAt
<1> HIDE DEF m2
<1>5. /\ k \in DOMAIN m3 <=> k \in DOMAIN m2 \/ k = Slash
      /\ k = Slash => m3[k] = "404Handler"
      /\ k # Slash /\ k \in DOMAIN m2 => m3[k] = m2[k]
  BY EnteredAt
<1> HIDE DEF m3
<1>6. /\ k \in DOMAIN m4 <=> k \in DOMAIN m3 \/ k = Bad
      /\ k = Bad => m4[k] = "BadHandler"
      /\ k # Bad /\ k \in DOMAIN m3 => m4[k] = m3[k]
  BY EnteredAt
<1> HIDE DEF m4
<1>7. /\ k \in DOMAIN m5 <=> k \in DOMAIN m4 \/ k = at("CrudHandler")
      /\ k = at("CrudHandler") => m5[k] = "CrudHandler"
      /\ k # at("CrudHandler") /\ k \in DOMAIN m4 => m5[k] = m4[k]
  BY EnteredAt
<1> HIDE DEF m5
<1>8. /\ k \in DOMAIN m6 <=> k \in DOMAIN m5 \/ k = at("SleepHandler")
      /\ k = at("SleepHandler") => m6[k] = "SleepHandler"
      /\ k # at("SleepHandler") /\ k \in DOMAIN m5 => m6[k] = m5[k]
  BY EnteredAt
<1> HIDE DEF m6
<1>9. /\ k \in DOMAIN m7 <=> k \in DOMAIN m6 \/ k = at("MarkdownHandler")
      /\ k = at("MarkdownHandler") => m7[k] = "MarkdownHandler"
      /\ k # at("MarkdownHandler") /\ k \in DOMAIN m6 => m7[k] = m6[k]
  BY EnteredAt
<1> HIDE DEF m7
<1> QED BY <1>1, <1>2, <1>3, <1>4, <1>5, <1>6, <1>7, <1>8, <1>9

\* In a clear configuration no entry is lost.
LEMMA OwnPath ==
  ASSUME NEW c \in Seq(Locations), Clear(c), NEW i \in DOMAIN c, NEW h, h # c[i].handler
  PROVE  PathOf(c, h) # c[i].path
<1> SUFFICES ASSUME PathOf(c, h) = c[i].path PROVE FALSE
  OBVIOUS
<1>1. c[i] \in Locations /\ c[i].path # Empty
  BY DEF Clear
<1>2. PICK j \in DOMAIN c : c[j].handler = h /\ c[j].path = c[i].path
  BY <1>1, PathOfSome
<1>3. IsPrefix(c[i].path, c[i].path) /\ c[i].path \in Seq(STRING)
  BY <1>1, PrefixOfItself DEF Locations
<1>4. i = j
  BY <1>2, <1>3, OneBegins
<1> QED BY <1>2, <1>4

LEMMA SlashEntry ==
  ASSUME NEW c \in Seq(Locations), Clear(c)
  PROVE  Slash \in DOMAIN ConfigMap(c) /\ ConfigMap(c)[Slash] = "404Handler"
<1>1. ASSUME NEW h PROVE PathOf(c, h) # Slash
  <2>1. Empty # Slash
    BY DEF Empty, Slash
  <2> QED BY <2>1, PathOfSome DEF Clear
<1>2. Slash # Bad
  BY DEF Slash, Bad
<1> QED BY <1>1, <1>2, TableAt

LEMMA LocationEntry ==
  ASSUME NEW c \in Seq(Locations), Clear(c), NEW i \in DOMAIN c,
         c[i].handler # "StaticHandler"
  PROVE  c[i].path \in DOMAIN ConfigMap(c) /\ ConfigMap(c)[c[i].path] = c[i].handler
<1>1. PICK k \in 1 .. 6 : c[i].handler = Handlers[k]
  BY HandlersAre DEF Clear, Range
<1>2. c[i].handler \in {"EchoHandler", "CrudHandler", "HealthHandler", "SleepHandler",
                        "MarkdownHandler"}
  BY <1>1, HandlersAre
<1>3. PathOf(c, c[i].handler) = c[i].path /\ c[i].path \notin {Slash, Bad}
  BY PathOfOne DEF Clear
<1> QED BY <1>2, <1>3, OwnPath, TableAt

\* The targets of the files of a StaticHandler location.
LEMMA StaticOfOne ==
  ASSUME NEW c \in Seq(Locations), Clear(c), NEW i \in DOMAIN c, c[i].handler = "StaticHandler"
  PROVE  StaticUris(c) = {c[i].path \o <<"/", f>> : f \in c[i].roots}
<1> DEFINE I == {j \in 1 .. Len(c) : c[j].handler = "StaticHandler"}
<1>1. I = {i} /\ i \in Nat /\ i # 0
  BY DEF Clear
<1>2. SelectInSeq(c, LAMBDA l : l.handler = "StaticHandler") = i
  BY <1>1, MinOfOne DEF SelectInSeq
<1> QED BY <1>1, <1>2 DEF StaticUris

LEMMA StaticOfNone ==
  ASSUME NEW c \in Seq(Locations), \A j \in DOMAIN c : c[j].handler # "StaticHandler"
  PROVE  StaticUris(c) = {}
<1>1. SelectInSeq(c, LAMBDA l : l.handler = "StaticHandler") = 0
  BY DEF SelectInSeq
<1> QED BY <1>1 DEF StaticUris

\* What a location claims begins with its path.
LEMMA ClaimBegins ==
  ASSUME NEW l \in Locations, NEW u \in Seq(STRING), Claims(l, u)
  PROVE  IsPrefix(l.path, u)
<1>0. l.path \in Seq(STRING) /\ l.roots \subseteq STRING
  BY DEF Locations
<1>1. CASE l.handler = "StaticHandler"
  <2>1. PICK f \in l.roots : u = l.path \o <<"/", f>>
    BY <1>1 DEF Claims
  <2>2. f \in STRING /\ "/" \in STRING
    BY <1>0, <2>1
  <2>3. <<"/", f>> \in Seq(STRING)
    BY <2>2, Two
  <2> QED BY <1>0, <2>1, <2>3, PrefixOfLonger
<1>2. CASE l.handler # "StaticHandler"
  BY <1>0, <1>2, PrefixOfItself DEF Claims
<1> QED BY <1>1, <1>2

\* A target in the table that is not the table's own is claimed by a location.
LEMMA EntryIsClaimed ==
  ASSUME NEW c \in Seq(Locations), Clear(c), NEW u \in DOMAIN ConfigMap(c),
         u \notin {Empty, Slash, Bad}
  PROVE  \E i \in DOMAIN c : Claims(c[i], u)
<1>1. CASE u \in StaticUris(c)
  <2>1. PICK i \in DOMAIN c : c[i].handler = "StaticHandler"
    BY <1>1, StaticOfNone
  <2>2. StaticUris(c) = {c[i].path \o <<"/", f>> : f \in c[i].roots}
    BY <2>1, StaticOfOne
  <2>3. PICK f \in c[i].roots : u = c[i].path \o <<"/", f>>
    BY <1>1, <2>2
  <2> QED BY <2>1, <2>3 DEF Claims
<1>2. CASE u \notin StaticUris(c)
  <2>1. PICK h \in {"EchoHandler", "CrudHandler", "HealthHandler", "SleepHandler",
                    "MarkdownHandler"} : u = PathOf(c, h)
    BY <1>2, TableAt
  <2>2. PICK i \in DOMAIN c : c[i].handler = h /\ c[i].path = u
    BY <2>1, PathOfSome
  <2>3. IsPrefix(c[i].path, c[i].path)
    <3>1. c[i] \in Locations
      OBVIOUS
    <3> QED BY <3>1, PrefixOfItself DEF Locations
  <2> QED BY <2>1, <2>2, <2>3 DEF Claims
<1> QED BY <1>1, <1>2

LEMMA ClaimedByOne ==
  ASSUME config \in Seq(Locations), Clear(config), NEW u \in Seq(STRING),
         NEW i \in DOMAIN config, Claims(config[i], u)
  PROVE  Claimants(u) = {config[i].handler}
<1>1. \A j \in DOMAIN config : config[j] \in Locations
  OBVIOUS
<1>2. \A j \in DOMAIN config : Claims(config[j], u) => j = i
  BY <1>1, ClaimBegins, OneBegins
<1> QED BY <1>2 DEF Claimants

----------------------------------------------------------------------------
(* A session's table is the one it copied, and null entries.               *)

Copied ==
  /\ \A k \in DOMAIN ConfigMap(config) :
       k \in DOMAIN routes /\ routes[k] = ConfigMap(config)[k]
  /\ \A k \in DOMAIN routes \ DOMAIN ConfigMap(config) : routes[k] = Null

AInv == config \in Configs /\ Copied /\ RoutedAsConfigured

LEMMA CopyKept ==
  ASSUME Copied, NEW key, routes' = WithEntry(key), config' = config
  PROVE  Copied'
<1>1. CASE key \in DOMAIN routes
  BY <1>1 DEF WithEntry, Copied
<1>2. CASE key \notin DOMAIN routes
  <2>1. routes' = Enter(routes, key, Null)
    BY <1>2 DEF WithEntry
  <2>2. ASSUME NEW k \in DOMAIN ConfigMap(config)
        PROVE  k \in DOMAIN routes' /\ routes'[k] = ConfigMap(config)[k]
    BY <1>2, <2>1, EnteredAt DEF Copied
  <2>3. ASSUME NEW k \in DOMAIN routes' \ DOMAIN ConfigMap(config) PROVE routes'[k] = Null
    BY <2>1, EnteredAt DEF Copied
  <2> QED BY <2>2, <2>3 DEF Copied
<1> QED BY <1>1, <1>2

LEMMA ChooseOne == ASSUME NEW x PROVE (CHOOSE h \in {x} : TRUE) = x
OBVIOUS

\* A whole request of a clear configuration.
LEMMA GoodAsConfigured ==
  ASSUME config \in Seq(Locations), Clear(config), Copied,
         NEW u \in Seq(STRING), u \notin {Empty, Bad}, Good(u)
  PROVE  factory' = IF Claimants(u) = {} THEN "404Handler"
                    ELSE CHOOSE h \in Claimants(u) : TRUE
<1> DEFINE table == ConfigMap(config)
<1>0. \A j \in DOMAIN config : config[j] \in Locations
  OBVIOUS
<1>1. routes[Slash] = "404Handler" /\ Slash \in DOMAIN table /\ table[Slash] = "404Handler"
  BY SlashEntry DEF Copied
<1>2. \A k : Entry(k) = IF k \in DOMAIN table THEN table[k] ELSE Null
  BY DEF Entry, Copied
<1> HIDE DEF table
<1>3. CASE \A i \in DOMAIN config : ~IsPrefix(config[i].path, u)
  <2>1. \A i \in DOMAIN config : ~Claims(config[i], u)
    BY <1>0, <1>3, ClaimBegins
  <2>2. Claimants(u) = {}
    BY <2>1 DEF Claimants
  <2>3. factory' = Fallback(u)
    BY <1>3, TypeOfNone DEF Good
  <2>4. u = Slash \/ u \notin DOMAIN table
    BY <2>1, EntryIsClaimed DEF table
  <2>5. Fallback(u) = "404Handler"
    BY <1>1, <1>2, <2>4 DEF Fallback
  <2> QED BY <2>2, <2>3, <2>5
<1>4. ASSUME NEW i \in DOMAIN config, IsPrefix(config[i].path, u)
      PROVE  factory' = IF Claimants(u) = {} THEN "404Handler"
                        ELSE CHOOSE h \in Claimants(u) : TRUE
  <2> DEFINE l == config[i]
  <2>1. RequestType(config, u) = l.handler
    BY <1>4, TypeOfOne
  <2>2. \A j \in DOMAIN config : Claims(config[j], u) => j = i
    BY <1>0, <1>4, ClaimBegins, OneBegins
  <2>3. Claims(l, u) => Claimants(u) = {l.handler}
    BY ClaimedByOne
  <2>4. ~Claims(l, u) => Claimants(u) = {}
    BY <2>2 DEF Claimants
  <2>5. /\ PathOf(config, l.handler) = l.path
        /\ l.handler # "StaticHandler" =>
             l.path \in DOMAIN table /\ table[l.path] = l.handler
    BY PathOfOne, LocationEntry DEF table
  <2>6. CASE l.handler = "StaticHandler"
    <3>0. StaticUris(config) = {l.path \o <<"/", f>> : f \in l.roots}
      BY <2>6, StaticOfOne
    <3>1. u \in StaticUris(config) <=> Claims(l, u)
      BY <2>6, <3>0 DEF Claims
    <3>2. factory' = IF Claims(l, u) THEN "StaticHandler" ELSE routes[Slash]
      BY <2>1, <2>6, <3>1 DEF Good
    <3> QED BY <1>1, <2>3, <2>4, <2>6, <3>2, ChooseOne
  <2>7. CASE l.handler \in {"CrudHandler", "MarkdownHandler"}
    <3>1. Claims(l, u)
      BY <1>4, <2>7 DEF Claims
    <3>2. factory' = Entry(l.path)
      BY <2>1, <2>5, <2>7 DEF Good
    <3>3. factory' = l.handler
      BY <1>2, <2>5, <2>7, <3>2
    <3> QED BY <2>3, <3>1, <3>3, ChooseOne
  <2>8. CASE l.handler \notin {"StaticHandler", "CrudHandler", "MarkdownHandler"}
    <3>1. factory' = Fallback(u) /\ (Claims(l, u) <=> u = l.path)
      BY <2>1, <2>8 DEF Good, Claims
    <3>2. CASE Claims(l, u)
      <4>1. Entry(u) = l.handler
        BY <1>2, <2>5, <2>8, <3>1, <3>2
      <4>2. l.handler # Null
        BY HandlersAre, NullAssumption DEF Clear, Range, Factories
      <4> QED BY <2>3, <3>1, <3>2, <4>1, <4>2, ChooseOne DEF Fallback
    <3>3. CASE ~Claims(l, u)
      <4>1. u # Slash
        <5>1. l.path \in Seq(STRING) /\ l.path \notin {Empty, Slash}
          BY <1>0 DEF Locations, Clear
        <5> QED BY <1>4, <5>1, PrefixOfSlash
      <4>2. u \notin DOMAIN table
        BY <2>2, <3>3, <4>1, EntryIsClaimed DEF table
      <4> QED BY <1>1, <1>2, <2>4, <3>1, <3>3, <4>2 DEF Fallback
    <3> QED BY <3>2, <3>3
  <2> QED BY <2>6, <2>7, <2>8
<1> QED BY <1>3, <1>4

LEMMA InitAInv == Init => AInv
BY DEF Init, AInv, Copied, RoutedAsConfigured

LEMMA StepAInv == AInv /\ [Next]_vars => AInv'
<1> SUFFICES ASSUME AInv, [Next]_vars PROVE AInv'
  OBVIOUS
<1> USE DEF AInv
<1>1. CASE NewSession
  BY <1>1 DEF NewSession, Copied, RoutedAsConfigured
<1>2. ASSUME NEW u \in Uris, Read(u) PROVE AInv'
  <2>0. config' = config /\ uri' = u
    BY <1>2 DEF Read
  <2>1. Copied'
    <3>1. routes' = WithEntry(u) \/ routes' = WithEntry(Bad)
      BY <1>2 DEF Read, Good, Invalid, Indeterminate
    <3> QED BY <2>0, <3>1, CopyKept
  <2>2. RoutedAsConfigured'
    <3> SUFFICES ASSUME Clear(config), status' = "good", u \notin {Empty, Bad}
                 PROVE  factory' = IF Claimants(u) = {} THEN "404Handler"
                                   ELSE CHOOSE h \in Claimants(u) : TRUE
      BY <2>0 DEF RoutedAsConfigured, Claimants
    <3>1. Good(u)
      BY <1>2 DEF Read
    <3>2. config \in Seq(Locations) /\ u \in Seq(STRING)
      BY ConfigsAssumption
    <3> QED BY <3>1, <3>2, GoodAsConfigured
  <2> QED BY <2>0, <2>1, <2>2
<1>3. CASE UNCHANGED vars
  BY <1>3 DEF vars, Copied, RoutedAsConfigured, Claimants
<1> QED BY <1>1, <1>2, <1>3 DEF Next

\* In every clear configuration a whole request is answered by the location that
\* claims its target, or by the 404 handler, whatever its session was asked before.
THEOREM RoutesAreConfigured == Spec => []RoutedAsConfigured
<1>1. AInv => RoutedAsConfigured
  BY DEF AInv
<1> QED BY <1>1, InitAInv, StepAInv, PTL DEF Spec
=============================================================================
