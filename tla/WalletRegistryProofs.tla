------------------------ MODULE WalletRegistryProofs ------------------------
(***************************************************************************)
(* Proofs about WalletRegistry.  The inductive invariant IInv is kept step  *)
(* by step.  A handler is a row of writes and the app may be killed after   *)
(* any of them, so the first half says what each single write changes, the  *)
(* second half what any number of a handler's writes leave of IInv, part by *)
(* part: Typed, Wallets (those listed or to be recovered), Current (the     *)
(* account shown), Pages (what an open page relies on), and the properties  *)
(* themselves.                                                              *)
(***************************************************************************)
EXTENDS WalletRegistry, WellFoundedInduction, TLAPS

-----------------------------------------------------------------------------
\* Lists.

Less == {p \in Nat \X Nat : p[1] < p[2]}

LEMMA SmallestOf ==
    ASSUME NEW T \in SUBSET Nat, T # {}
    PROVE  \E n \in T : \A m \in T : n <= m
  <1>1. IsWellFoundedOn(Less, Nat)
    <2>1. Less = OpToRel(<, Nat)
      BY DEF Less, OpToRel
    <2> QED
      BY <2>1, NatLessThanWellFounded, Zenon
  <1>2. PICK n \in T : \A m \in T : <<m, n>> \notin Less
    BY <1>1, WFMin, Zenon
  <1>3. \A m \in T : ~(m < n)
    BY <1>2 DEF Less
  <1> QED
    BY <1>2, <1>3

\* The function that Only is defined by, up to n.
KeptSoFar(f, list, S, n) ==
    f = [i \in 0..n |->
            IF i = 0 THEN <<>>
            ELSE IF list[i] \in S THEN Append(f[i - 1], list[i]) ELSE f[i - 1]]

LEMMA KeptExists ==
    ASSUME NEW list, NEW S, NEW len \in Nat
    PROVE  \E f : KeptSoFar(f, list, S, len)
  <1> DEFINE T == {n \in Nat : ~ \E f : KeptSoFar(f, list, S, n)}
  <1> SUFFICES ASSUME T # {} PROVE FALSE
    OBVIOUS
  <1>1. PICK n \in T : \A m \in T : n <= m
    <2>1. T \in SUBSET Nat
      OBVIOUS
    <2> HIDE DEF T
    <2> QED
      BY <2>1, SmallestOf
  <1>2. n \in Nat /\ ~ \E f : KeptSoFar(f, list, S, n)
    BY <1>1
  <1>3. n # 0
    <2>1. KeptSoFar([i \in 0..0 |-> <<>>], list, S, 0)
      BY DEF KeptSoFar
    <2> QED
      BY <1>2, <2>1
  <1>4. n - 1 \in Nat /\ n - 1 \notin T
    BY <1>1, <1>2, <1>3
  <1>5. PICK g : KeptSoFar(g, list, S, n - 1)
    BY <1>4
  <1> DEFINE f == [i \in 0..n |->
                      IF i = n
                      THEN IF list[n] \in S THEN Append(g[n - 1], list[n]) ELSE g[n - 1]
                      ELSE g[i]]
             e == [i \in 0..n |->
                      IF i = 0 THEN <<>>
                      ELSE IF list[i] \in S THEN Append(f[i - 1], list[i]) ELSE f[i - 1]]
  <1>6. ASSUME NEW i \in 0..n PROVE f[i] = e[i]
    <2>1. CASE i = n
      <3>1. f[n - 1] = g[n - 1]
        BY <1>2, <1>3
      <3> QED
        BY <1>2, <1>3, <2>1, <3>1
    <2>2. CASE i # n
      <3>1. i \in 0..(n - 1) /\ f[i] = g[i]
        BY <1>2, <2>2
      <3>2. g[i] = IF i = 0 THEN <<>>
                   ELSE IF list[i] \in S THEN Append(g[i - 1], list[i]) ELSE g[i - 1]
        BY <1>5, <3>1 DEF KeptSoFar
      <3>3. i # 0 => f[i - 1] = g[i - 1]
        BY <1>2, <3>1
      <3> QED
        BY <3>1, <3>2, <3>3
    <2> QED
      BY <2>1, <2>2
  <1>7. f = e
    BY <1>6
  <1> HIDE DEF f
  <1>8. KeptSoFar(f, list, S, n)
    BY <1>7 DEF KeptSoFar
  <1> QED
    BY <1>2, <1>8

\* q is what n elements of the list leave.
LeftOf(q, list, S, n) ==
    /\ q \in Seq(ToSet(list) \cap S)
    /\ \A i \in 1..n : list[i] \in S => \E j \in DOMAIN q : q[j] = list[i]
    /\ \A j \in DOMAIN q : \E i \in 1..n : list[i] = q[j]
    /\ \A j, k \in DOMAIN q : j < k =>
           \E i, l \in 1..n : i < l /\ list[i] = q[j] /\ list[l] = q[k]

LEMMA KeptLeaves ==
    ASSUME NEW L, NEW list \in Seq(L), NEW S, NEW f, KeptSoFar(f, list, S, Len(list))
    PROVE  LeftOf(f[Len(list)], list, S, Len(list))
  <1> DEFINE T == {n \in 0..Len(list) : ~ LeftOf(f[n], list, S, n)}
  <1> SUFFICES ASSUME T # {} PROVE FALSE
    OBVIOUS
  <1>1. PICK n \in T : \A m \in T : n <= m
    <2>1. T \in SUBSET Nat
      OBVIOUS
    <2> HIDE DEF T
    <2> QED
      BY <2>1, SmallestOf
  <1>2. n \in 0..Len(list) /\ ~ LeftOf(f[n], list, S, n)
    BY <1>1
  <1>3. f[0] = <<>>
    BY DEF KeptSoFar
  <1>4. n # 0
    <2>1. LeftOf(<<>>, list, S, 0)
      BY DEF LeftOf
    <2> QED
      BY <1>2, <1>3, <2>1
  <1>5. n - 1 \in 0..Len(list) /\ n - 1 \notin T /\ n \in 1..Len(list)
    BY <1>1, <1>2, <1>4
  <1>6. LeftOf(f[n - 1], list, S, n - 1)
    BY <1>5
  <1>7. f[n] = IF list[n] \in S THEN Append(f[n - 1], list[n]) ELSE f[n - 1]
    <2>1. \A i \in 0..Len(list) :
             f[i] = IF i = 0 THEN <<>>
                    ELSE IF list[i] \in S THEN Append(f[i - 1], list[i]) ELSE f[i - 1]
      BY DEF KeptSoFar
    <2>2. n \in 0..Len(list) /\ n # 0
      BY <1>2, <1>4
    <2> HIDE DEF T
    <2> QED
      BY <2>1, <2>2, Zenon
  <1> DEFINE p == f[n - 1]
             q == f[n]
  <1> HIDE DEF p, q
  <1>8. LeftOf(p, list, S, n - 1) /\ q = IF list[n] \in S THEN Append(p, list[n]) ELSE p
    BY <1>6, <1>7 DEF p, q
  <1>9. CASE list[n] \in S
    <2> DEFINE R == ToSet(list) \cap S
    <2>1. list[n] \in R /\ p \in Seq(R)
      BY <1>5, <1>8, <1>9 DEF LeftOf, ToSet
    <2> HIDE DEF R
    <2>2. /\ q \in Seq(R) /\ DOMAIN q = 1..(Len(p) + 1) /\ DOMAIN p = 1..Len(p)
          /\ \A j \in DOMAIN p : q[j] = p[j]
          /\ q[Len(p) + 1] = list[n] /\ Len(p) \in Nat
      BY <1>8, <1>9, <2>1
    <2>3. \A i \in 1..n : list[i] \in S => \E j \in DOMAIN q : q[j] = list[i]
      <3> SUFFICES ASSUME NEW i \in 1..n, list[i] \in S PROVE \E j \in DOMAIN q : q[j] = list[i]
        OBVIOUS
      <3>1. CASE i = n
        BY <2>2, <3>1
      <3>2. CASE i # n
        <4>1. i \in 1..(n - 1)
          BY <1>5, <3>2
        <4>2. PICK j \in DOMAIN p : p[j] = list[i]
          BY <1>8, <4>1 DEF LeftOf
        <4> QED
          BY <2>2, <4>2
      <3> QED
        BY <3>1, <3>2
    <2>4. ASSUME NEW j \in DOMAIN q, NEW k \in DOMAIN q, j < k
          PROVE  \E i, l \in 1..n : i < l /\ list[i] = q[j] /\ list[l] = q[k]
      <3>1. j \in DOMAIN p
        BY <2>2, <2>4
      <3>2. CASE k \in DOMAIN p
        <4>1. PICK i \in 1..(n - 1), l \in 1..(n - 1) : i < l /\ list[i] = p[j] /\ list[l] = p[k]
          BY <1>8, <2>4, <3>1, <3>2 DEF LeftOf
        <4>2. i \in 1..n /\ l \in 1..n
          BY <1>5, <4>1
        <4> QED
          BY <2>2, <3>1, <3>2, <4>1, <4>2
      <3>3. CASE k = Len(p) + 1
        <4>1. PICK i \in 1..(n - 1) : list[i] = p[j]
          BY <1>8, <3>1 DEF LeftOf
        <4>2. i \in 1..n /\ n \in 1..n /\ i < n
          BY <1>5, <4>1
        <4> QED
          BY <2>2, <3>1, <3>3, <4>1, <4>2
      <3> QED
        BY <2>2, <3>2, <3>3
    <2>5. ASSUME NEW j \in DOMAIN q PROVE \E i \in 1..n : list[i] = q[j]
      <3>1. CASE j \in DOMAIN p
        <4>1. PICK i \in 1..(n - 1) : list[i] = p[j]
          BY <1>8, <3>1 DEF LeftOf
        <4> QED
          BY <1>5, <2>2, <3>1, <4>1
      <3>2. CASE j = Len(p) + 1
        BY <1>5, <2>2, <3>2
      <3> QED
        BY <2>2, <3>1, <3>2
    <2>6. LeftOf(q, list, S, n)
      BY <2>2, <2>3, <2>4, <2>5 DEF LeftOf, R
    <2> QED
      BY <1>2, <2>6 DEF q
  <1>10. CASE list[n] \notin S
    <2>1. \A i \in 1..n : i = n \/ i \in 1..(n - 1)
      BY <1>5
    <2>2. \A i \in 1..(n - 1) : i \in 1..n
      BY <1>5
    <2>3. LeftOf(p, list, S, n)
      <3> HIDE DEF T
      <3>1. /\ p \in Seq(ToSet(list) \cap S)
            /\ \A j \in DOMAIN p : \E i \in 1..n : list[i] = p[j]
        BY <1>8, <2>2, Zenon DEF LeftOf
      <3>2. \A i \in 1..n : list[i] \in S => \E j \in DOMAIN p : p[j] = list[i]
        BY <1>8, <1>10, <2>1, Zenon DEF LeftOf
      <3>3. ASSUME NEW j \in DOMAIN p, NEW k \in DOMAIN p, j < k
            PROVE  \E i, l \in 1..n : i < l /\ list[i] = p[j] /\ list[l] = p[k]
        <4>1. PICK i \in 1..(n - 1), l \in 1..(n - 1) : i < l /\ list[i] = p[j] /\ list[l] = p[k]
          BY <1>8, <3>3 DEF LeftOf
        <4> QED
          BY <2>2, <4>1
      <3> QED
        BY <3>1, <3>2, <3>3 DEF LeftOf
    <2> QED
      BY <1>2, <1>8, <1>10, <2>3 DEF q
  <1> QED
    BY <1>9, <1>10

LEMMA OnlyLeaves ==
    ASSUME NEW L, NEW list \in Seq(L), NEW S
    PROVE  LeftOf(Only(list, S), list, S, Len(list))
  <1> DEFINE g == CHOOSE f : KeptSoFar(f, list, S, Len(list))
  <1>1. Len(list) \in Nat
    OBVIOUS
  <1>2. KeptSoFar(g, list, S, Len(list))
    BY <1>1, KeptExists
  <1>3. Only(list, S) = g[Len(list)]
    BY DEF Only, KeptSoFar
  <1> HIDE DEF g
  <1> QED
    BY <1>2, <1>3, KeptLeaves

\* What Only keeps: the stores in S, each as often as before at most.
LEMMA OnlyFacts ==
    ASSUME NEW L, NEW list \in Seq(L), NEW S
    PROVE  /\ Only(list, S) \in Seq(L)
           /\ ToSet(Only(list, S)) = ToSet(list) \cap S
           /\ \A s : Repeated(Only(list, S), s) => Repeated(list, s)
  <1> DEFINE q == Only(list, S)
  <1>1. LeftOf(q, list, S, Len(list))
    BY OnlyLeaves
  <1> HIDE DEF q
  <1>2. DOMAIN list = 1..Len(list) /\ ToSet(list) \subseteq L
    BY DEF ToSet
  <1>3. q \in Seq(ToSet(list) \cap S)
    BY <1>1 DEF LeftOf
  <1>4. q \in Seq(L) /\ \A j \in DOMAIN q : q[j] \in ToSet(list) \cap S /\ j \in Int
    <2> DEFINE R == ToSet(list) \cap S
    <2>1. q \in Seq(R) /\ R \subseteq L
      BY <1>2, <1>3
    <2> HIDE DEF R
    <2>2. q \in Seq(L) /\ \A j \in DOMAIN q : q[j] \in R /\ j \in Int
      BY <2>1
    <2> QED
      BY <2>2 DEF R
  <1>5. ToSet(q) = ToSet(list) \cap S
    <2>1. ToSet(q) \subseteq ToSet(list) \cap S
      BY <1>4 DEF ToSet
    <2>2. ASSUME NEW v \in ToSet(list), v \in S PROVE v \in ToSet(q)
      BY <1>1, <1>2, <2>2 DEF ToSet, LeftOf
    <2> QED
      BY <2>1, <2>2
  <1>6. ASSUME NEW s, Repeated(q, s) PROVE Repeated(list, s)
    <2>1. PICK j \in DOMAIN q, k \in DOMAIN q : j # k /\ q[j] = s /\ q[k] = s
      BY <1>6 DEF Repeated
    <2>2. j < k \/ k < j
      BY <1>4, <2>1
    <2>3. \E i, l \in 1..Len(list) : i < l /\ list[i] = s /\ list[l] = s
      <3>1. \A a, b \in DOMAIN q : a < b =>
               \E i, l \in 1..Len(list) : i < l /\ list[i] = q[a] /\ list[l] = q[b]
        BY <1>1 DEF LeftOf
      <3>2. CASE j < k
        <4>1. PICK i \in 1..Len(list), l \in 1..Len(list) :
                 i < l /\ list[i] = q[j] /\ list[l] = q[k]
          BY <3>1, <3>2
        <4> QED
          BY <2>1, <4>1
      <3>3. CASE k < j
        <4>1. PICK i \in 1..Len(list), l \in 1..Len(list) :
                 i < l /\ list[i] = q[k] /\ list[l] = q[j]
          BY <3>1, <3>3
        <4> QED
          BY <2>1, <4>1
      <3> QED
        BY <2>2, <3>2, <3>3
    <2> QED
      BY <1>2, <2>3 DEF Repeated
  <1> QED
    BY <1>4, <1>5, <1>6 DEF q

-----------------------------------------------------------------------------
\* The defaults, and what each write changes of them.

Defaults ==
    [mnemonics : Seq(Mnemonic),
     keys      : Seq(Key),
     recover   : Seq(Store),
     addresses : SUBSET Address,
     info      : [Store -> Info \cup {None}],
     pubKeys   : SUBSET Address,
     current   : Account \cup {None},
     draft     : [name : Name \cup {None}, passcode : Passcode \cup {None},
                  mnemonic : Mnemonic \cup {None}],
     slot      : [Address -> 0..MaxSlot],
     child     : [Address -> [parent : Store, slot : 0..MaxSlot] \cup {None}]]

\* The wallets that are listed or can be recovered.
Kept(d) == Listed(d) \cup ToSet(d.recover)

LEMMA AppendFacts ==
    ASSUME NEW L, NEW list \in Seq(L), NEW s \in L
    PROVE  /\ Append(list, s) \in Seq(L)
           /\ ToSet(Append(list, s)) = ToSet(list) \cup {s}
           /\ \A t : Repeated(Append(list, s), t) =>
                 Repeated(list, t) \/ (t = s /\ s \in ToSet(list))
  <1>1. /\ Append(list, s) \in Seq(L)
        /\ DOMAIN list = 1..Len(list) /\ DOMAIN Append(list, s) = 1..(Len(list) + 1)
        /\ \A j \in DOMAIN list : Append(list, s)[j] = list[j]
        /\ Append(list, s)[Len(list) + 1] = s
        /\ Len(list) \in Nat
    OBVIOUS
  <1>2. ToSet(Append(list, s)) = ToSet(list) \cup {s}
    BY <1>1 DEF ToSet
  <1>3. ASSUME NEW t, Repeated(Append(list, s), t)
        PROVE  Repeated(list, t) \/ (t = s /\ s \in ToSet(list))
    <2>1. PICK i \in DOMAIN Append(list, s), j \in DOMAIN Append(list, s) :
             i # j /\ Append(list, s)[i] = t /\ Append(list, s)[j] = t
      BY <1>3 DEF Repeated
    <2>2. CASE i \in DOMAIN list /\ j \in DOMAIN list
      BY <1>1, <2>1, <2>2 DEF Repeated
    <2>3. CASE i = Len(list) + 1 /\ j \in DOMAIN list
      BY <1>1, <2>1, <2>3 DEF ToSet
    <2>4. CASE j = Len(list) + 1 /\ i \in DOMAIN list
      BY <1>1, <2>1, <2>4 DEF ToSet
    <2> QED
      BY <1>1, <2>1, <2>2, <2>3, <2>4
  <1> QED
    BY <1>1, <1>2, <1>3

SameLists(d, e) == e.mnemonics = d.mnemonics /\ e.keys = d.keys

LEMMA SameListsFacts ==
    ASSUME NEW d, NEW e, SameLists(d, e)
    PROVE  Listed(e) = Listed(d) /\ \A s : ListOf(e, s) = ListOf(d, s)
  BY DEF SameLists, Listed, ListOf

LEMMA ListingFields ==
    ASSUME NEW d \in Defaults, NEW s \in Store, NEW e, e = Listing(d, s)
    PROVE  /\ e \in Defaults
           /\ e.recover = d.recover /\ e.addresses = d.addresses
           /\ e.info = d.info /\ e.pubKeys = d.pubKeys /\ e.current = d.current
           /\ e.draft = d.draft /\ e.slot = d.slot /\ e.child = d.child
           /\ Listed(e) = Listed(d) \cup {s}
           /\ \A t : Repeated(ListOf(e, t), t) =>
                 Repeated(ListOf(d, t), t) \/ (t = s /\ s \in ToSet(ListOf(d, s)))
  <1>1. CASE s \in Mnemonic
    <2>1. /\ e.mnemonics = Append(d.mnemonics, s) /\ e.keys = d.keys
          /\ d.mnemonics \in Seq(Mnemonic)
          /\ e.recover = d.recover /\ e.addresses = d.addresses
          /\ e.info = d.info /\ e.pubKeys = d.pubKeys /\ e.current = d.current
          /\ e.draft = d.draft /\ e.slot = d.slot /\ e.child = d.child
      BY <1>1 DEF Listing, Defaults
    <2>2. e.mnemonics \in Seq(Mnemonic)
      BY <1>1, <2>1, AppendFacts
    <2>3. e \in Defaults
      BY <1>1, <2>1, <2>2 DEF Listing, Defaults
    <2>4. /\ ToSet(e.mnemonics) = ToSet(d.mnemonics) \cup {s}
          /\ \A t : Repeated(e.mnemonics, t) =>
                Repeated(d.mnemonics, t) \/ (t = s /\ s \in ToSet(d.mnemonics))
      BY <1>1, <2>1, AppendFacts
    <2> QED
      BY <1>1, <2>1, <2>3, <2>4 DEF Listed, ListOf
  <1>2. CASE s \notin Mnemonic
    <2>1. /\ e.keys = Append(d.keys, s) /\ e.mnemonics = d.mnemonics
          /\ d.keys \in Seq(Key) /\ s \in Key
          /\ e.recover = d.recover /\ e.addresses = d.addresses
          /\ e.info = d.info /\ e.pubKeys = d.pubKeys /\ e.current = d.current
          /\ e.draft = d.draft /\ e.slot = d.slot /\ e.child = d.child
      BY <1>2 DEF Listing, Defaults, Store
    <2>2. e.keys \in Seq(Key)
      BY <2>1, AppendFacts
    <2>3. e \in Defaults
      BY <1>2, <2>1, <2>2 DEF Listing, Defaults
    <2>4. /\ ToSet(e.keys) = ToSet(d.keys) \cup {s}
          /\ \A t : Repeated(e.keys, t) =>
                Repeated(d.keys, t) \/ (t = s /\ s \in ToSet(d.keys))
      BY <2>1, AppendFacts
    <2> QED
      BY <1>2, <2>1, <2>3, <2>4 DEF Listed, ListOf
  <1> QED
    BY <1>1, <1>2

LEMMA InfoNotNone == None \notin Info
  BY NoneAssumption

\* e is d but for what is stored of a wallet.
InfoWritten(d, e, s) ==
    /\ e \in Defaults
    /\ e.mnemonics = d.mnemonics /\ e.keys = d.keys
    /\ e.recover = d.recover /\ e.addresses = d.addresses
    /\ e.pubKeys = d.pubKeys /\ e.current = d.current
    /\ e.draft = d.draft /\ e.slot = d.slot /\ e.child = d.child
    /\ e.info[s] # None
    /\ \A t \in Store \ {s} : e.info[t] = d.info[t]

LEMMA InfoFields ==
    ASSUME NEW d \in Defaults, NEW s \in Store, NEW n \in Names, NEW p \in Passcode
    PROVE  InfoWritten(d, WithInfo(d, s, n, p), s)
  <1> SUFFICES ASSUME NEW e, e = WithInfo(d, s, n, p)
               PROVE  InfoWritten(d, e, s)
    OBVIOUS
  <1>1. [name |-> n, passcode |-> p] \in Info /\ [name |-> n, passcode |-> p] # None
    <2>1. [name |-> n, passcode |-> p] \in Info
      BY DEF Info
    <2> QED
      BY <2>1, InfoNotNone
  <1> DEFINE i == [name |-> n, passcode |-> p]
  <1> HIDE DEF i
  <1>2. i \in Info /\ i # None
    BY <1>1 DEF i
  <1>3. e = [d EXCEPT !.info[s] = i]
    BY DEF WithInfo, i
  <1>4. /\ e \in Defaults
        /\ e.mnemonics = d.mnemonics /\ e.keys = d.keys
        /\ e.recover = d.recover /\ e.addresses = d.addresses
        /\ e.pubKeys = d.pubKeys /\ e.current = d.current
        /\ e.draft = d.draft /\ e.slot = d.slot /\ e.child = d.child
    <2> DEFINE f == [d.info EXCEPT ![s] = i]
    <2>1. f \in [Store -> Info \cup {None}]
      BY <1>2 DEF Defaults
    <2>2. e = [d EXCEPT !.info = f]
      BY <1>3
    <2> HIDE DEF f
    <2>3. e \in Defaults
      BY <2>1, <2>2 DEF Defaults
    <2> QED
      BY <2>2, <2>3 DEF Defaults
  <1>5. e.info = [d.info EXCEPT ![s] = i] /\ d.info \in [Store -> Info \cup {None}]
    BY <1>3 DEF Defaults
  <1>6. e.info[s] = i /\ \A t \in Store \ {s} : e.info[t] = d.info[t]
    BY <1>5
  <1> QED
    BY <1>2, <1>4, <1>6 DEF InfoWritten

LEMMA PubKeyFields ==
    ASSUME NEW d \in Defaults, NEW a \in Address, NEW e, e = WithPubKey(d, a)
    PROVE  /\ e \in Defaults
           /\ e.mnemonics = d.mnemonics /\ e.keys = d.keys
           /\ e.recover = d.recover /\ e.addresses = d.addresses
           /\ e.info = d.info /\ e.current = d.current /\ e.draft = d.draft
           /\ e.slot = d.slot /\ e.child = d.child
           /\ e.pubKeys = d.pubKeys \cup {a}
  BY DEF WithPubKey, Defaults

\* e is d but for the account shown.
CurrentWritten(d, e, c) ==
    /\ e \in Defaults
    /\ e.mnemonics = d.mnemonics /\ e.keys = d.keys
    /\ e.recover = d.recover /\ e.addresses = d.addresses
    /\ e.info = d.info /\ e.pubKeys = d.pubKeys /\ e.draft = d.draft
    /\ e.slot = d.slot /\ e.child = d.child
    /\ e.current = c

LEMMA CurrentFields ==
    ASSUME NEW d \in Defaults, NEW c \in Account \cup {None}
    PROVE  CurrentWritten(d, [d EXCEPT !.current = c], c)
  BY DEF Defaults, CurrentWritten

LEMMA AddressFields ==
    ASSUME NEW d \in Defaults, NEW a \in Address, NEW e,
           e = [d EXCEPT !.addresses = @ \cup {a}]
    PROVE  /\ e \in Defaults
           /\ e.mnemonics = d.mnemonics /\ e.keys = d.keys
           /\ e.recover = d.recover /\ e.info = d.info /\ e.pubKeys = d.pubKeys
           /\ e.current = d.current /\ e.draft = d.draft
           /\ e.slot = d.slot /\ e.child = d.child
           /\ e.addresses = d.addresses \cup {a}
  BY DEF Defaults

LEMMA SlotFields ==
    ASSUME NEW d \in Defaults, NEW a \in Address, d.slot[a] + 1 \in 0..MaxSlot,
           NEW e, e = NextSlot(d, a)
    PROVE  /\ e \in Defaults
           /\ e.mnemonics = d.mnemonics /\ e.keys = d.keys
           /\ e.recover = d.recover /\ e.addresses = d.addresses /\ e.info = d.info
           /\ e.pubKeys = d.pubKeys /\ e.current = d.current /\ e.draft = d.draft
           /\ e.child = d.child
           /\ e.slot[a] = d.slot[a] + 1
           /\ \A b \in Address \ {a} : e.slot[b] = d.slot[b]
  <1>1. e.slot = [d.slot EXCEPT ![a] = @ + 1] /\ d.slot \in [Address -> 0..MaxSlot]
    BY DEF NextSlot, Defaults
  <1>2. e.slot \in [Address -> 0..MaxSlot]
    BY <1>1
  <1>3. /\ e \in Defaults
        /\ e.mnemonics = d.mnemonics /\ e.keys = d.keys
        /\ e.recover = d.recover /\ e.addresses = d.addresses /\ e.info = d.info
        /\ e.pubKeys = d.pubKeys /\ e.current = d.current /\ e.draft = d.draft
        /\ e.child = d.child
    BY <1>2 DEF NextSlot, Defaults
  <1> QED
    BY <1>1, <1>3

LEMMA AccountFields ==
    ASSUME NEW d \in Defaults, NEW s \in Store, d.info[s] # None
    PROVE  /\ AccountOf(d, s) \in Account /\ AccountOf(d, s) # None
           /\ AccountOf(d, s).store = s
           /\ AccountOf(d, s).address = AddressOf[s]
           /\ AccountOf(d, s).name = d.info[s].name
           /\ AddressOf[s] \in Address
  <1>1. AddressOf[s] \in Address
    BY StoreAssumption
  <1>2. d.info[s].name \in Names
    BY DEF Defaults, Info
  <1>3. AccountOf(d, s) \in Account
    BY <1>1, <1>2 DEF AccountOf, Account
  <1> QED
    BY <1>1, <1>3, NoneAssumption DEF AccountOf

-----------------------------------------------------------------------------
\* The inductive invariant.

Memory ==
    [page : {"main", "create", "detail", "passcode", "subAccount"},
     detail : Account \cup {None},
     over : Account \cup {None},
     decrypting : [Tap -> [key : Key, passcode : Passcode] \cup {None}]]

Typed ==
    /\ ud \in Defaults
    /\ app \in Memory
    /\ owned \subseteq Store
    /\ made \subseteq Store
    /\ torn \in BOOLEAN
    /\ crossed \in BOOLEAN

\* A wallet that was not made here has its address registered, so no second one
\* of that account was imported.  Unless the app was killed in a handler, a
\* wallet has its name, passcode and public key.
Wallets ==
    /\ \A s \in Kept(ud) : s \in made \/ AddressOf[s] \in ud.addresses
    /\ \A s, t \in Kept(ud) :
           s # t /\ AddressOf[s] = AddressOf[t] => s \in made \/ t \in made
    /\ ~torn => \A s \in Kept(ud) : ud.info[s] # None /\ AddressOf[s] \in ud.pubKeys

\* The account shown has its wallet's name and passcode, also after a kill.
Current ==
    ud.current # None =>
        /\ ud.info[ud.current.store] # None
        /\ ~torn => /\ ud.current.address \in ud.pubKeys
                    /\ ud.current.store \in Listed(ud)
        /\ ~crossed => ud.current.address = AddressOf[ud.current.store]
        /\ ~torn /\ ~crossed => ud.current.name = ud.info[ud.current.store].name

WalletPages == {"detail", "passcode", "subAccount"}

\* What an open page relies on.
Pages ==
    /\ app.page = "create" =>
          /\ ud.draft.name # None
          /\ ud.draft.passcode # None
          /\ ud.draft.mnemonic # None
    /\ app.page \in WalletPages => app.detail # None /\ ud.current # None
    /\ app.page = "subAccount" => app.over # None /\ app.over.store \in Mnemonic
    /\ \A c \in {app.detail, app.over} : c # None => ud.info[c.store] # None
    /\ ~torn /\ app.page \in WalletPages => app.detail.store \in Listed(ud)
    /\ ~crossed /\ app.over # None => app.over.address = AddressOf[app.over.store]

IInv ==
    /\ Typed
    /\ NothingLost
    /\ ListedOnce
    /\ SlotsCounted
    /\ Wallets
    /\ Current
    /\ Pages

LEMMA TypedIsTypeOK == Typed <=> TypeOK
  BY DEF Typed, TypeOK, Defaults, Memory

LEMMA ToSetIn ==
    ASSUME NEW L, NEW list \in Seq(L)
    PROVE  ToSet(list) \subseteq L
  BY DEF ToSet

LEMMA KeptInStore ==
    ASSUME NEW d \in Defaults
    PROVE  /\ ToSet(d.mnemonics) \subseteq Mnemonic /\ ToSet(d.keys) \subseteq Key
           /\ ToSet(d.recover) \subseteq Store
           /\ Listed(d) \subseteq Store /\ Kept(d) \subseteq Store
  <1>1. d.mnemonics \in Seq(Mnemonic) /\ d.keys \in Seq(Key) /\ d.recover \in Seq(Store)
    BY DEF Defaults
  <1>2. /\ ToSet(d.mnemonics) \subseteq Mnemonic /\ ToSet(d.keys) \subseteq Key
        /\ ToSet(d.recover) \subseteq Store
    BY <1>1, ToSetIn
  <1> QED
    BY <1>2 DEF Listed, Kept, Store

\* A store is in its own list, and in no other.
LEMMA InList ==
    ASSUME NEW d \in Defaults, NEW s \in Store
    PROVE  s \in Listed(d) <=> s \in ToSet(ListOf(d, s))
  BY KeptInStore, StoreAssumption DEF ListOf, Listed, Store

-----------------------------------------------------------------------------
\* Steps, part of the invariant by part.

\* The stores that are new among the kept ones.
Grown(s) ==
    /\ ud' \in Defaults
    /\ Kept(ud') \subseteq Kept(ud) \cup {s}
    /\ ud.addresses \subseteq ud'.addresses
    /\ ud.pubKeys \subseteq ud'.pubKeys
    /\ \A t \in Store : ud.info[t] # None => ud'.info[t] # None
    /\ made \subseteq made'
    /\ torn => torn'

LEMMA WalletsStep ==
    ASSUME Typed, Wallets, NEW s \in Store, Grown(s),
           s \in Kept(ud') \ Kept(ud) =>
               s \in made' \/ (AddressOf[s] \in ud'.addresses \ ud.addresses),
           ~torn' /\ s \in Kept(ud') \ Kept(ud) =>
               ud'.info[s] # None /\ AddressOf[s] \in ud'.pubKeys
    PROVE  Wallets'
  <1>0. Kept(ud) \subseteq Store
    BY KeptInStore DEF Typed
  <1>1. (\A t \in Kept(ud) : t \in made \/ AddressOf[t] \in ud.addresses)
    BY DEF Wallets
  <1>2. \A t \in Kept(ud') : t \in made' \/ AddressOf[t] \in ud'.addresses
    BY <1>1 DEF Grown
  <1>3. ASSUME NEW t \in Kept(ud'), NEW u \in Kept(ud'),
               t # u, AddressOf[t] = AddressOf[u]
        PROVE  t \in made' \/ u \in made'
    <2>1. CASE t \in Kept(ud) /\ u \in Kept(ud)
      BY <1>3, <2>1 DEF Wallets, Grown
    <2>2. CASE t \notin Kept(ud)
      <3>1. t = s /\ u \in Kept(ud)
        BY <1>3, <2>2 DEF Grown
      <3> QED
        BY <1>1, <1>3, <2>2, <3>1 DEF Grown
    <2>3. CASE u \notin Kept(ud)
      <3>1. u = s /\ t \in Kept(ud)
        BY <1>3, <2>3 DEF Grown
      <3> QED
        BY <1>1, <1>3, <2>3, <3>1 DEF Grown
    <2> QED
      BY <2>1, <2>2, <2>3
  <1>4. ASSUME ~torn', NEW t \in Kept(ud')
        PROVE  ud'.info[t] # None /\ AddressOf[t] \in ud'.pubKeys
    <2>1. CASE t \in Kept(ud)
      <3>1. ud.info[t] # None /\ AddressOf[t] \in ud.pubKeys
        BY <1>4, <2>1 DEF Wallets, Grown
      <3> QED
        BY <1>0, <2>1, <3>1 DEF Grown
    <2>2. CASE t \notin Kept(ud)
      BY <1>4, <2>2 DEF Grown
    <2> QED
      BY <2>1, <2>2
  <1> QED
    BY <1>2, <1>3, <1>4 DEF Wallets

LEMMA CurrentStays ==
    ASSUME Typed, Current, ud'.current = ud.current,
           ud.pubKeys \subseteq ud'.pubKeys,
           \A t \in Store : ud.info[t] # None =>
               ud'.info[t] # None /\ (~torn' => ud'.info[t].name = ud.info[t].name),
           ~torn' => Listed(ud) \subseteq Listed(ud'),
           torn => torn', crossed => crossed'
    PROVE  Current'
  <1> SUFFICES ASSUME ud'.current # None
               PROVE  /\ ud'.info[ud'.current.store] # None
                      /\ ~torn' => /\ ud'.current.address \in ud'.pubKeys
                                   /\ ud'.current.store \in Listed(ud')
                      /\ ~crossed' => ud'.current.address = AddressOf[ud'.current.store]
                      /\ ~torn' /\ ~crossed' =>
                            ud'.current.name = ud'.info[ud'.current.store].name
    BY DEF Current
  <1>1. ud.current.store \in Store
    BY DEF Typed, Defaults, Account
  <1> QED
    BY <1>1 DEF Current

LEMMA CurrentIs ==
    ASSUME ud' \in Defaults, NEW s \in Store, ud'.info[s] # None,
           ud'.current = AccountOf(ud', s),
           ~torn' => s \in Listed(ud') /\ AddressOf[s] \in ud'.pubKeys
    PROVE  Current'
  BY AccountFields DEF Current

LEMMA SlotsStay ==
    ASSUME SlotsCounted, ud'.slot = ud.slot, made' \cap Key = made \cap Key,
           crossed => crossed'
    PROVE  SlotsCounted'
  <1>1. \A d \in DOMAIN ChildKey : ChildKey[d] \in Key
    BY StoreAssumption
  <1> QED
    BY <1>1 DEF SlotsCounted

\* The pages are as before, or the app is at its main page again.
Quiet ==
    /\ app' \in Memory
    /\ \/ app'.page = "main" /\ app'.detail = None /\ app'.over = None
       \/ app'.page = app.page /\ app'.detail = app.detail /\ app'.over = app.over

LEMMA PagesStep ==
    ASSUME Typed, Pages, Quiet,
           ud'.draft = ud.draft,
           ud.current # None => ud'.current # None,
           \A t \in Store : ud.info[t] # None => ud'.info[t] # None,
           ~torn' => Listed(ud) \subseteq Listed(ud'),
           torn => torn', crossed => crossed'
    PROVE  Pages'
  <1>1. CASE app'.page = "main" /\ app'.detail = None /\ app'.over = None
    BY <1>1 DEF Pages, WalletPages
  <1>2. CASE app'.page = app.page /\ app'.detail = app.detail /\ app'.over = app.over
    <2>1. \A c \in {app.detail, app.over} : c # None => c.store \in Store
      BY DEF Typed, Memory, Account
    <2> QED
      BY <1>2, <2>1 DEF Pages
  <1> QED
    BY <1>1, <1>2 DEF Quiet

\* Coming back to the main page needs nothing of the defaults.
LEMMA PagesAtMain ==
    ASSUME app'.page = "main", app'.detail = None, app'.over = None
    PROVE  Pages'
  BY DEF Pages, WalletPages

LEMMA LaunchedFacts ==
    /\ Launched \in Memory
    /\ Launched.page = "main" /\ Launched.detail = None /\ Launched.over = None
  BY DEF Launched, Memory

LEMMA GoesFacts ==
    ASSUME Typed, NEW page \in {"main", "create"}
    PROVE  /\ Goes(page) \in Memory
           /\ Goes(page).page = page /\ Goes(page).detail = None /\ Goes(page).over = None
  BY DEF Typed, Goes, Memory

-----------------------------------------------------------------------------
\* Steps of the pages alone.

LEMMA SameData ==
    ASSUME IInv, UNCHANGED <<ud, owned, made, torn, crossed>>
    PROVE  NothingLost' /\ ListedOnce' /\ SlotsCounted' /\ Wallets' /\ Current'
  BY DEF IInv, NothingLost, ListedOnce, SlotsCounted, Wallets, Current, Kept, Listed, ListOf

LEMMA PageOnly ==
    ASSUME IInv, UNCHANGED <<ud, owned, made, torn, crossed>>, app' \in Memory, Pages'
    PROVE  IInv'
  BY SameData DEF IInv, Typed

LEMMA QuietPage ==
    ASSUME IInv, UNCHANGED <<ud, owned, made, torn, crossed>>, Quiet
    PROVE  IInv'
  <1>1. Typed /\ Pages
    BY DEF IInv
  <1>2. Listed(ud) \subseteq Listed(ud')
    OBVIOUS
  <1>3. Pages'
    BY <1>1, <1>2, PagesStep
  <1> QED
    BY <1>3, PageOnly DEF Quiet

LEMMA DecryptedFacts ==
    ASSUME Typed, NEW t \in Tap
    PROVE  /\ Decrypted(t) \in Memory
           /\ Decrypted(t).page = app.page /\ Decrypted(t).detail = app.detail
           /\ Decrypted(t).over = app.over
  BY DEF Typed, Decrypted, Memory

LEMMA TappedStep ==
    ASSUME IInv, NEW t \in Tap, NEW k \in Key, NEW p \in Passcode, KeystoreTapped(t, k, p)
    PROVE  IInv'
  <1> DEFINE c == [key |-> k, passcode |-> p]
  <1>1. c \in [key : Key, passcode : Passcode]
    OBVIOUS
  <1>2. app' = [app EXCEPT !.decrypting[t] = c]
    BY DEF KeystoreTapped
  <1> HIDE DEF c
  <1>3. app \in Memory
    BY DEF IInv, Typed
  <1>4. Quiet
    BY <1>1, <1>2, <1>3 DEF Quiet, Memory
  <1> QED
    BY <1>4, QuietPage DEF KeystoreTapped

LEMMA FailsStep ==
    ASSUME IInv, NEW t \in Tap, KeystoreFails(t)
    PROVE  IInv'
  <1>1. Quiet
    BY DecryptedFacts DEF IInv, KeystoreFails, Quiet
  <1> QED
    BY <1>1, QuietPage DEF KeystoreFails

LEMMA RestartStep ==
    ASSUME IInv, Restart
    PROVE  IInv'
  <1>1. Quiet
    BY LaunchedFacts DEF Restart, Quiet
  <1> QED
    BY <1>1, QuietPage DEF Restart

LEMMA BackStep ==
    ASSUME IInv, Back
    PROVE  IInv'
  <1>1. Typed /\ Pages
    BY DEF IInv
  <1>2. CASE app.page \in {"passcode", "subAccount"}
    <2>1. app' = [app EXCEPT !.page = "detail", !.over = None]
      BY <1>2 DEF Back
    <2>2. app' \in Memory /\ app'.page = "detail" /\ app'.over = None /\ app'.detail = app.detail
      BY <1>1, <2>1 DEF Typed, Memory
    <2>3. Pages'
      BY <1>1, <1>2, <2>2 DEF Pages, WalletPages, Back, Listed
    <2> QED
      BY <2>2, <2>3, PageOnly DEF Back
  <1>3. CASE app.page \notin {"passcode", "subAccount"}
    <2>1. Quiet
      BY <1>1, <1>3, GoesFacts DEF Back, Quiet
    <2> QED
      BY <2>1, QuietPage DEF Back
  <1> QED
    BY <1>2, <1>3

LEMMA OpenPasscodeStep ==
    ASSUME IInv, OpenPasscode
    PROVE  IInv'
  <1>1. Typed /\ Pages
    BY DEF IInv
  <1>2. /\ app' \in Memory /\ app'.page = "passcode"
        /\ app'.over = app.over /\ app'.detail = app.detail
    BY <1>1 DEF OpenPasscode, Typed, Memory
  <1>3. Pages'
    BY <1>1, <1>2 DEF Pages, WalletPages, OpenPasscode, Listed
  <1> QED
    BY <1>2, <1>3, PageOnly DEF OpenPasscode

\* A page that takes over the account shown.
LEMMA TakesOver ==
    ASSUME IInv, UNCHANGED <<ud, owned, made, torn, crossed>>, app.page \in WalletPages,
           app' \in Memory, app'.detail = app.detail,
           app'.over = ud.current \/ app'.over = app.over,
           app'.page \in WalletPages,
           app'.page = "subAccount" => app'.over # None /\ app'.over.store \in Mnemonic
    PROVE  IInv'
  <1>1. Typed /\ Pages /\ Current
    BY DEF IInv
  <1>2. ud.current # None
    BY <1>1 DEF Pages
  <1>3. /\ ud.info[ud.current.store] # None
        /\ ~crossed => ud.current.address = AddressOf[ud.current.store]
    BY <1>1, <1>2 DEF Current
  <1>4. /\ app'.page \in WalletPages => app'.detail # None /\ ud'.current # None
        /\ app'.page = "subAccount" => app'.over # None /\ app'.over.store \in Mnemonic
        /\ ~torn' /\ app'.page \in WalletPages => app'.detail.store \in Listed(ud')
        /\ app'.page # "create"
    BY <1>1, <1>2 DEF Pages, WalletPages, Listed
  <1>5. \A c \in {app'.detail, app'.over} : c # None => ud'.info[c.store] # None
    BY <1>1, <1>3 DEF Pages
  <1>6. ~crossed' /\ app'.over # None => app'.over.address = AddressOf[app'.over.store]
    BY <1>1, <1>3 DEF Pages
  <1>7. Pages'
    BY <1>4, <1>5, <1>6 DEF Pages
  <1> QED
    BY <1>7, PageOnly

LEMMA OwnerFacts ==
    ASSUME IInv, app.page = "passcode"
    PROVE  /\ PasscodeOwner \in Account /\ PasscodeOwner # None
           /\ PasscodeOwner.store \in Store
           /\ ud.info[PasscodeOwner.store] # None
  <1>1. PasscodeOwner \in Account /\ PasscodeOwner # None
    BY DEF IInv, Typed, Pages, WalletPages, PasscodeOwner, Memory, Defaults
  <1>2. PasscodeOwner.store \in Store
    BY <1>1 DEF Account
  <1> QED
    BY <1>1, <1>2 DEF IInv, Pages, Current, PasscodeOwner

LEMMA RefusedStep ==
    ASSUME IInv, PasscodeRefused
    PROVE  IInv'
  <1>1. /\ app' \in Memory /\ app'.page = "passcode" /\ app'.detail = app.detail
        /\ app'.over = PasscodeOwner
    BY OwnerFacts DEF PasscodeRefused, IInv, Typed, Memory
  <1>2. app'.over = ud.current \/ app'.over = app.over
    BY <1>1 DEF PasscodeOwner
  <1> QED
    BY <1>1, <1>2, TakesOver DEF PasscodeRefused, WalletPages

LEMMA OpenSubAccountStep ==
    ASSUME IInv, OpenSubAccount
    PROVE  IInv'
  <1>1. ud.current # None /\ ud.current \in Account \cup {None}
    BY DEF IInv, Typed, Defaults, Pages, WalletPages, OpenSubAccount
  <1>2. /\ app' \in Memory /\ app'.page = "subAccount" /\ app'.detail = app.detail
        /\ app'.over = ud.current
    BY <1>1 DEF OpenSubAccount, IInv, Typed, Memory
  <1> QED
    BY <1>1, <1>2, TakesOver DEF OpenSubAccount, WalletPages

-----------------------------------------------------------------------------
\* Creating a wallet.

\* A step that leaves the wallets alone.
SameWallets ==
    /\ UNCHANGED <<owned, made>>
    /\ ud' \in Defaults
    /\ ud'.mnemonics = ud.mnemonics /\ ud'.keys = ud.keys /\ ud'.recover = ud.recover
    /\ ud'.addresses = ud.addresses /\ ud'.pubKeys = ud.pubKeys /\ ud'.slot = ud.slot
    /\ \A t \in Store : ud.info[t] # None => ud'.info[t] # None

LEMMA SameWalletsStep ==
    ASSUME IInv, SameWallets, torn => torn', crossed => crossed'
    PROVE  NothingLost' /\ ListedOnce' /\ SlotsCounted' /\ Wallets' /\ Listed(ud') = Listed(ud)
  <1>1. Kept(ud') = Kept(ud) /\ Listed(ud') = Listed(ud) /\ Kept(ud) \subseteq Store
    BY KeptInStore DEF SameWallets, Kept, Listed, IInv, Typed
  <1>2. NothingLost' /\ ListedOnce'
    BY DEF IInv, NothingLost, ListedOnce, SameWallets, Listed, ListOf
  <1>3. SlotsCounted'
    BY SlotsStay DEF IInv, SameWallets
  <1>4. Wallets'
    BY <1>1 DEF IInv, Wallets, SameWallets
  <1> QED
    BY <1>1, <1>2, <1>3, <1>4

Draft == [name : Name \cup {None}, passcode : Passcode \cup {None},
          mnemonic : Mnemonic \cup {None}]

LEMMA DraftFields ==
    ASSUME NEW d \in Defaults, NEW f \in Draft, NEW e, e = [d EXCEPT !.draft = f]
    PROVE  /\ e \in Defaults
           /\ e.mnemonics = d.mnemonics /\ e.keys = d.keys /\ e.recover = d.recover
           /\ e.addresses = d.addresses /\ e.pubKeys = d.pubKeys /\ e.slot = d.slot
           /\ e.info = d.info /\ e.current = d.current /\ e.draft = f
  BY DEF Defaults, Draft

LEMMA CreateStep ==
    ASSUME IInv, NEW n \in Name, NEW p \in Passcode, NEW m \in Mnemonic,
           CreateClicked(n, p, m)
    PROVE  IInv'
  <1> DEFINE passcodeSet == [ud EXCEPT !.draft.passcode = p]
             nameSet     == [passcodeSet EXCEPT !.draft.name = n]
             phraseSet   == [nameSet EXCEPT !.draft.mnemonic = m]
  <1>0. Typed /\ Current
    BY DEF IInv
  <1>1. ud' \in {passcodeSet, nameSet, phraseSet}
    BY DEF CreateClicked
  <1>2. /\ ud' \in Defaults
        /\ ud'.mnemonics = ud.mnemonics /\ ud'.keys = ud.keys /\ ud'.recover = ud.recover
        /\ ud'.addresses = ud.addresses /\ ud'.pubKeys = ud.pubKeys /\ ud'.slot = ud.slot
        /\ ud'.info = ud.info /\ ud'.current = ud.current
        /\ ud' = phraseSet => /\ ud'.draft.name = n
                              /\ ud'.draft.passcode = p
                              /\ ud'.draft.mnemonic = m
    <2> DEFINE withPasscode == [ud.draft EXCEPT !.passcode = p]
               withName     == [withPasscode EXCEPT !.name = n]
               withPhrase   == [withName EXCEPT !.mnemonic = m]
    <2>1. ud \in Defaults /\ ud.draft \in Draft
      BY <1>0 DEF Typed, Defaults, Draft
    <2>2. /\ withPasscode \in Draft /\ withName \in Draft /\ withPhrase \in Draft
          /\ withPhrase.name = n /\ withPhrase.passcode = p /\ withPhrase.mnemonic = m
      <3>1. withPasscode \in Draft /\ withPasscode.passcode = p
        BY <2>1 DEF Draft
      <3> HIDE DEF withPasscode
      <3>2. withName \in Draft /\ withName.passcode = p /\ withName.name = n
        BY <3>1 DEF Draft
      <3> HIDE DEF withName
      <3>3. /\ withPhrase \in Draft
            /\ withPhrase.name = n /\ withPhrase.passcode = p /\ withPhrase.mnemonic = m
        BY <3>2 DEF Draft
      <3> QED
        BY <3>1, <3>2, <3>3
    <2>3. passcodeSet = [ud EXCEPT !.draft = withPasscode]
      BY <2>1 DEF Defaults
    <2>4. nameSet = [ud EXCEPT !.draft = withName]
      BY <2>1 DEF Defaults
    <2>5. phraseSet = [ud EXCEPT !.draft = withPhrase]
      BY <2>1 DEF Defaults
    <2> HIDE DEF withPasscode, withName, withPhrase, passcodeSet, nameSet, phraseSet
    <2>6. PICK f \in {withPasscode, withName, withPhrase} :
             ud' = [ud EXCEPT !.draft = f]
      BY <1>1, <2>3, <2>4, <2>5
    <2>7. f \in Draft
      BY <2>2
    <2>8. ud' = phraseSet => ud'.draft = withPhrase
      BY <2>1, <2>2, <2>5, DraftFields
    <2> QED
      BY <2>1, <2>2, <2>6, <2>7, <2>8, DraftFields
  <1>3. UNCHANGED <<owned, made, torn, crossed>>
    BY DEF CreateClicked
  <1>4. NothingLost' /\ ListedOnce' /\ SlotsCounted' /\ Wallets' /\ Listed(ud') = Listed(ud)
    BY <1>2, <1>3, SameWalletsStep DEF SameWallets
  <1>5. Current'
    BY <1>0, <1>2, <1>3, <1>4 DEF Current
  <1>6. app' \in Memory /\ Pages'
    <2>1. CASE app' = Launched
      BY <2>1, LaunchedFacts, PagesAtMain
    <2>2. CASE ud' = phraseSet /\ app' = Goes("create")
      <3>1. /\ app' \in Memory /\ app'.page = "create"
            /\ app'.detail = None /\ app'.over = None
        BY <1>0, <2>2, GoesFacts
      <3>2. ud'.draft.name = n /\ ud'.draft.passcode = p /\ ud'.draft.mnemonic = m
        <4> HIDE DEF phraseSet
        <4> QED
          BY <1>2, <2>2
      <3>3. n # None /\ p # None /\ m # None
        BY NoneAssumption, StoreAssumption DEF Store
      <3> QED
        BY <3>1, <3>2, <3>3 DEF Pages, WalletPages
    <2> QED
      BY <2>1, <2>2 DEF CreateClicked
  <1> QED
    BY <1>0, <1>2, <1>3, <1>4, <1>5, <1>6 DEF IInv, Typed

-----------------------------------------------------------------------------
\* Steps that list a wallet and choose it.

\* What some or all of a handler's writes for wallet s make of d.
Adds(d, e, s) ==
    /\ e \in Defaults
    /\ e.recover = d.recover /\ e.draft = d.draft
    /\ Listed(d) \subseteq Listed(e) /\ Listed(e) \subseteq Listed(d) \cup {s}
    /\ d.addresses \subseteq e.addresses /\ d.pubKeys \subseteq e.pubKeys
    /\ \A t \in Store : Repeated(ListOf(e, t), t) =>
           Repeated(ListOf(d, t), t) \/ (t = s /\ s \in Listed(d))
    /\ \A t \in Store : d.info[t] # None => e.info[t] # None
    /\ e.current = d.current \/ (e.info[s] # None /\ e.current = AccountOf(e, s))

\* What all of them make of it.
Added(e, s) ==
    /\ s \in Listed(e)
    /\ e.info[s] # None
    /\ AddressOf[s] \in e.pubKeys
    /\ e.current = AccountOf(e, s)

\* A key that the step may list again.
ListedAgain(s) == s \in Key \cap made' /\ (crossed' \/ AddressOf[s] \in ud'.addresses)

LEMMA AddsData ==
    ASSUME IInv, NEW s \in Store, Adds(ud, ud', s),
           \/ torn'
           \/ Added(ud', s)
           \/ SameLists(ud, ud') /\ ud'.info = ud.info /\ ud'.current = ud.current,
           owned' \subseteq owned \cup Listed(ud'),
           made \subseteq made', made' \subseteq made \cup {s},
           torn' \in BOOLEAN, crossed' \in BOOLEAN, torn => torn', crossed => crossed',
           s \in Listed(ud') \ Listed(ud) =>
               s \in made' \/ (AddressOf[s] \in ud'.addresses \ ud.addresses),
           s \in Listed(ud) => ListedAgain(s) \/ SameLists(ud, ud')
    PROVE  NothingLost' /\ ListedOnce' /\ Wallets' /\ Current'
  <1>0. Typed /\ Wallets /\ Current /\ Pages
    BY DEF IInv
  <1>1. /\ ud' \in Defaults /\ Kept(ud) \subseteq Kept(ud')
        /\ Kept(ud') \subseteq Kept(ud) \cup {s}
        /\ s \in Kept(ud') \ Kept(ud) => s \in Listed(ud') \ Listed(ud)
        /\ Listed(ud') \subseteq Kept(ud') /\ Kept(ud') \subseteq Store
    BY KeptInStore DEF Adds, Kept
  <1>3. NothingLost'
    BY <1>1 DEF IInv, NothingLost, Kept
  <1>4. ListedOnce'
    <2> SUFFICES ASSUME NEW t \in Store, Repeated(ListOf(ud', t), t)
                 PROVE  ListedAgain(t)
      BY DEF ListedOnce, ListedAgain
    <2>1. CASE Repeated(ListOf(ud, t), t)
      BY <2>1 DEF IInv, ListedOnce, ListedAgain, Adds
    <2>2. CASE ~ Repeated(ListOf(ud, t), t)
      <3>1. t = s /\ s \in Listed(ud)
        BY <2>2 DEF Adds
      <3>2. ~ SameLists(ud, ud')
        BY <2>2, SameListsFacts
      <3> QED
        BY <3>1, <3>2
    <2> QED
      BY <2>1, <2>2
  <1>5. Wallets'
    <2>1. Grown(s)
      BY <1>1 DEF Grown, Adds
    <2>2. ~torn' /\ s \in Kept(ud') \ Kept(ud) =>
             ud'.info[s] # None /\ AddressOf[s] \in ud'.pubKeys
      BY <1>1, SameListsFacts DEF Added
    <2> QED
      BY <1>0, <1>1, <2>1, <2>2, WalletsStep
  <1>6. Current'
    <2>1. CASE ud'.info[s] # None /\ ud'.current = AccountOf(ud', s)
      <3>1. ~torn' => s \in Listed(ud') /\ AddressOf[s] \in ud'.pubKeys
        <4>1. CASE Added(ud', s)
          BY <4>1 DEF Added
        <4>2. CASE SameLists(ud, ud') /\ ud'.info = ud.info /\ ud'.current = ud.current
          <5>1. ud.current # None /\ ud.current.store = s /\ ud.current.address = AddressOf[s]
            <6> DEFINE c == AccountOf(ud', s)
            <6>1. c # None /\ c.store = s /\ c.address = AddressOf[s]
              BY <1>1, <2>1, AccountFields
            <6> HIDE DEF c
            <6>2. ud.current = c
              BY <2>1, <4>2 DEF c
            <6> QED
              BY <6>1, <6>2
          <5> QED
            BY <1>0, <4>2, <5>1, SameListsFacts DEF Current, Adds
        <4> QED
          BY <4>1, <4>2
      <3> QED
        BY <1>1, <2>1, <3>1, CurrentIs
    <2>2. CASE ~ (ud'.info[s] # None /\ ud'.current = AccountOf(ud', s))
      <3>1. ud'.current = ud.current /\ (torn' \/ (SameLists(ud, ud') /\ ud'.info = ud.info))
        BY <2>2 DEF Adds, Added
      <3>2. \A t \in Store : ud.info[t] # None =>
               ud'.info[t] # None /\ (~torn' => ud'.info[t].name = ud.info[t].name)
        BY <3>1 DEF Adds
      <3>3. Listed(ud) \subseteq Listed(ud') /\ ud.pubKeys \subseteq ud'.pubKeys
        BY DEF Adds
      <3> QED
        BY <1>0, <3>1, <3>2, <3>3, CurrentStays
    <2> QED
      BY <2>1, <2>2
  <1> QED
    BY <1>3, <1>4, <1>5, <1>6

LEMMA AddsStep ==
    ASSUME IInv, NEW s \in Store, Adds(ud, ud', s),
           \/ torn'
           \/ Added(ud', s)
           \/ SameLists(ud, ud') /\ ud'.info = ud.info /\ ud'.current = ud.current,
           owned' \subseteq owned \cup Listed(ud'),
           made \subseteq made', made' \subseteq made \cup {s},
           torn' \in BOOLEAN, crossed' \in BOOLEAN, torn => torn', crossed => crossed',
           s \in Listed(ud') \ Listed(ud) =>
               s \in made' \/ (AddressOf[s] \in ud'.addresses \ ud.addresses),
           s \in Listed(ud) => ListedAgain(s) \/ SameLists(ud, ud'),
           SlotsCounted', Quiet
    PROVE  IInv'
  <1>0. Typed /\ Pages
    BY DEF IInv
  <1>1. ud' \in Defaults /\ Listed(ud') \subseteq Store
    BY KeptInStore DEF Adds
  <1>2. Typed'
    BY <1>0, <1>1 DEF Typed, Quiet
  <1>3. NothingLost' /\ ListedOnce' /\ Wallets' /\ Current'
    BY AddsData
  <1>4. Pages'
    <2>1. ud.current # None => ud'.current # None
      BY <1>1, AccountFields DEF Adds
    <2>2. /\ ud'.draft = ud.draft /\ Listed(ud) \subseteq Listed(ud')
          /\ \A t \in Store : ud.info[t] # None => ud'.info[t] # None
      BY DEF Adds
    <2> QED
      BY <1>0, <2>1, <2>2, PagesStep
  <1> QED
    BY <1>2, <1>3, <1>4 DEF IInv

\* One more write.
LEMMA AddsNothing ==
    ASSUME NEW d \in Defaults, NEW s \in Store
    PROVE  Adds(d, d, s)
  BY DEF Adds

LEMMA AddsSame ==
    ASSUME NEW d \in Defaults, NEW s \in Store, NEW e, Adds(d, e, s), NEW f \in Defaults,
           SameLists(e, f), f.recover = e.recover, f.draft = e.draft, f.info = e.info,
           e.addresses \subseteq f.addresses, e.pubKeys \subseteq f.pubKeys,
           f.current = e.current
    PROVE  Adds(d, f, s)
  <1>1. Listed(f) = Listed(e) /\ \A t : ListOf(f, t) = ListOf(e, t)
    BY SameListsFacts
  <1>2. AccountOf(f, s) = AccountOf(e, s)
    BY DEF AccountOf
  <1> QED
    BY <1>1, <1>2 DEF Adds

LEMMA AddsListing ==
    ASSUME NEW d \in Defaults, NEW s \in Store, NEW e, Adds(d, e, s), SameLists(d, e),
           NEW f, f = Listing(e, s)
    PROVE  Adds(d, f, s) /\ s \in Listed(f)
  <1>0. e \in Defaults
    BY DEF Adds
  <1>1. /\ f \in Defaults
        /\ f.recover = e.recover /\ f.addresses = e.addresses
        /\ f.info = e.info /\ f.pubKeys = e.pubKeys /\ f.current = e.current
        /\ f.draft = e.draft
        /\ Listed(f) = Listed(e) \cup {s}
        /\ \A t : Repeated(ListOf(f, t), t) =>
              Repeated(ListOf(e, t), t) \/ (t = s /\ s \in ToSet(ListOf(e, s)))
    BY <1>0, ListingFields
  <1>2. Listed(e) = Listed(d) /\ \A t : ListOf(e, t) = ListOf(d, t)
    BY SameListsFacts
  <1>3. s \in ToSet(ListOf(e, s)) => s \in Listed(d)
    BY <1>0, <1>2, InList
  <1>4. AccountOf(f, s) = AccountOf(e, s)
    BY <1>1 DEF AccountOf
  <1> QED
    BY <1>1, <1>2, <1>3, <1>4 DEF Adds

LEMMA AddsInfo ==
    ASSUME NEW d \in Defaults, NEW s \in Store, NEW e, Adds(d, e, s),
           e.current = d.current, NEW n \in Names, NEW p \in Passcode,
           NEW f, f = WithInfo(e, s, n, p)
    PROVE  Adds(d, f, s) /\ f.info[s] # None /\ f.current = d.current
  <1>0. e \in Defaults
    BY DEF Adds
  <1>1. /\ f \in Defaults /\ SameLists(e, f)
        /\ f.recover = e.recover /\ f.addresses = e.addresses
        /\ f.pubKeys = e.pubKeys /\ f.current = e.current /\ f.draft = e.draft
        /\ f.info[s] # None
        /\ \A t \in Store \ {s} : f.info[t] = e.info[t]
    <2>1. InfoWritten(e, f, s)
      BY <1>0, InfoFields
    <2> QED
      BY <2>1 DEF SameLists, InfoWritten
  <1>2. Listed(f) = Listed(e) /\ \A t : ListOf(f, t) = ListOf(e, t)
    BY <1>1, SameListsFacts
  <1> QED
    BY <1>1, <1>2 DEF Adds

LEMMA AddsPubKey ==
    ASSUME NEW d \in Defaults, NEW s \in Store, NEW e, Adds(d, e, s), NEW a \in Address,
           NEW f, f = WithPubKey(e, a)
    PROVE  /\ Adds(d, f, s) /\ a \in f.pubKeys
           /\ f.info = e.info /\ f.current = e.current /\ SameLists(e, f)
  <1>1. /\ f \in Defaults /\ SameLists(e, f)
        /\ f.recover = e.recover /\ f.addresses = e.addresses
        /\ f.info = e.info /\ f.current = e.current /\ f.draft = e.draft
        /\ f.pubKeys = e.pubKeys \cup {a}
    BY PubKeyFields DEF SameLists, Adds
  <1> QED
    BY <1>1, AddsSame

LEMMA ShownWritten ==
    ASSUME NEW e \in Defaults, NEW s \in Store, e.info[s] # None
    PROVE  CurrentWritten(e, [e EXCEPT !.current = AccountOf(e, s)], AccountOf(e, s))
  <1> DEFINE c == AccountOf(e, s)
  <1>1. c \in Account \cup {None}
    BY AccountFields
  <1> HIDE DEF c
  <1>2. CurrentWritten(e, [e EXCEPT !.current = c], c)
    BY <1>1, CurrentFields
  <1> QED
    BY <1>2 DEF c

LEMMA AddsCurrent ==
    ASSUME NEW d \in Defaults, NEW s \in Store, NEW e, Adds(d, e, s), e.info[s] # None,
           NEW f, CurrentWritten(e, f, AccountOf(e, s))
    PROVE  /\ Adds(d, f, s) /\ f.current = AccountOf(f, s)
           /\ f.info = e.info /\ f.pubKeys = e.pubKeys /\ SameLists(e, f)
           /\ f.slot = e.slot /\ f.addresses = e.addresses
  <1> DEFINE c == AccountOf(e, s)
  <1>2. CurrentWritten(e, f, c)
    OBVIOUS
  <1>3. Listed(f) = Listed(e) /\ \A t : ListOf(f, t) = ListOf(e, t)
    BY <1>2, SameListsFacts DEF SameLists, CurrentWritten
  <1>4. AccountOf(f, s) = c
    BY <1>2 DEF AccountOf, c, CurrentWritten
  <1> HIDE DEF c
  <1>5. f.current = c /\ c = AccountOf(e, s)
    BY <1>2 DEF CurrentWritten, c
  <1> QED
    BY <1>2, <1>3, <1>4, <1>5 DEF Adds, CurrentWritten, SameLists

-----------------------------------------------------------------------------
\* A wallet that was created.

LEMMA HandlerOutcome ==
    ASSUME NEW partial, NEW final, NEW next, Handler(partial, final, next), torn \in BOOLEAN
    PROVE  /\ ud' \in partial \cup {final}
           /\ app' \in {next, Launched}
           /\ torn' \in BOOLEAN /\ (torn => torn') /\ (torn' \/ ud' = final)
  <1>1. CASE ud' = final /\ app' = next /\ UNCHANGED torn
    BY <1>1
  <1>2. CASE ud' \in partial /\ app' = Launched /\ torn' = TRUE
    BY <1>2
  <1> QED
    BY <1>1, <1>2 DEF Handler

LEMMA ConfirmStep ==
    ASSUME IInv, ConfirmCreated
    PROVE  IInv'
  <1> DEFINE m == ud.draft.mnemonic
             a == AddressOf[m]
             listed == Listing(ud, m)
             named  == WithInfo(listed, m, ud.draft.name, ud.draft.passcode)
             keyed  == WithPubKey(named, a)
             chosen == [keyed EXCEPT !.current = AccountOf(named, m)]
  <1>0. Typed /\ Pages /\ ud \in Defaults
    BY DEF IInv, Typed
  <1>1. m \in Mnemonic /\ ud.draft.name \in Names /\ ud.draft.passcode \in Passcode
    BY <1>0 DEF ConfirmCreated, Pages, Defaults, Names
  <1>2. m \in Store /\ m \notin Key /\ a \in Address
    BY <1>1, StoreAssumption DEF Store
  <1>3. /\ app.page = "create"
        /\ m \notin ToSet(ud.mnemonics)
        /\ Handler({listed, named, keyed}, chosen, Goes("main"))
        /\ owned' = owned \cup Listed(ud')
        /\ made' = made \cup ({m} \cap Listed(ud'))
        /\ crossed' = crossed
    BY DEF ConfirmCreated, Owns, Makes
  <1>4. m \notin Listed(ud)
    BY <1>0, <1>1, <1>2, <1>3, InList DEF ListOf
  <1> DEFINE n == ud.draft.name
             p == ud.draft.passcode
  <1> HIDE DEF m, n, p, a
  <1>5. Adds(ud, listed, m) /\ m \in Listed(listed)
    BY <1>0, <1>2, AddsNothing, AddsListing DEF SameLists
  <1>6. listed.current = ud.current /\ listed.slot = ud.slot
    BY <1>0, <1>2, ListingFields
  <1>7. named = WithInfo(listed, m, n, p)
    BY DEF n, p, m
  <1> HIDE DEF listed
  <1>8. /\ Adds(ud, named, m) /\ named.info[m] # None /\ m \in Listed(named)
        /\ named.slot = ud.slot
    <2>1. listed \in Defaults
      BY <1>5 DEF Adds
    <2>2. n \in Names /\ p \in Passcode
      BY <1>1 DEF n, p
    <2> HIDE DEF named
    <2>3. Adds(ud, named, m) /\ named.info[m] # None
      BY <1>0, <1>2, <1>5, <1>6, <1>7, <2>2, AddsInfo
    <2>4. named.slot = ud.slot /\ SameLists(listed, named)
      <3>1. InfoWritten(listed, named, m)
        BY <1>2, <1>7, <2>1, <2>2, InfoFields
      <3> QED
        BY <1>6, <3>1 DEF SameLists, InfoWritten
    <2> QED
      BY <1>5, <2>3, <2>4, SameListsFacts
  <1> HIDE DEF named
  <1>9. /\ Adds(ud, keyed, m) /\ keyed.info = named.info /\ m \in Listed(keyed)
        /\ a \in keyed.pubKeys /\ keyed.slot = ud.slot
    BY <1>0, <1>2, <1>8, AddsPubKey, SameListsFacts, PubKeyFields DEF Adds
  <1> HIDE DEF keyed
  <1>10. /\ Adds(ud, chosen, m) /\ Added(chosen, m) /\ m \in Listed(chosen)
         /\ chosen.slot = ud.slot
    <2>1. keyed.info[m] # None
      BY <1>8, <1>9
    <2>2. /\ Adds(ud, chosen, m) /\ chosen.current = AccountOf(chosen, m)
          /\ chosen.info = keyed.info /\ chosen.pubKeys = keyed.pubKeys
          /\ SameLists(keyed, chosen)
      <3>1. AccountOf(named, m) = AccountOf(keyed, m)
        BY <1>9 DEF AccountOf
      <3>2. chosen = [keyed EXCEPT !.current = AccountOf(keyed, m)]
        BY <3>1
      <3> HIDE DEF chosen
      <3>3. CurrentWritten(keyed, chosen, AccountOf(keyed, m))
        BY <1>2, <1>9, <2>1, <3>2, ShownWritten DEF Adds
      <3> QED
        BY <1>0, <1>2, <1>9, <2>1, <3>3, AddsCurrent
    <2>3. chosen.slot = keyed.slot
      BY <1>9 DEF Adds, Defaults
    <2> QED
      BY <1>9, <2>1, <2>2, <2>3, SameListsFacts DEF Added, a
  <1> HIDE DEF chosen
  <1>11. /\ ud' \in {listed, named, keyed, chosen}
         /\ app' \in {Goes("main"), Launched}
         /\ torn' \in BOOLEAN /\ (torn => torn') /\ (torn' \/ Added(ud', m))
    BY <1>0, <1>3, <1>10, HandlerOutcome DEF Typed
  <1>12. Adds(ud, ud', m) /\ m \in Listed(ud') /\ ud'.slot = ud.slot
    BY <1>5, <1>6, <1>8, <1>9, <1>10, <1>11
  <1>13. Quiet
    BY <1>0, <1>11, GoesFacts, LaunchedFacts DEF Quiet
  <1>14. SlotsCounted'
    BY <1>2, <1>3, <1>12, SlotsStay DEF IInv
  <1> QED
    BY <1>0, <1>2, <1>3, <1>4, <1>11, <1>12, <1>13, <1>14, AddsStep DEF Typed

-----------------------------------------------------------------------------
\* The list of wallets.

LEMMA ShownFacts ==
    ASSUME IInv, NEW s \in Store, ListOpens, Row(s),
           ud' = [ud EXCEPT !.current = AccountOf(ud, s)]
    PROVE  /\ Adds(ud, ud', s) /\ Added(ud', s) /\ SameLists(ud, ud')
           /\ ud'.slot = ud.slot /\ ud'.info = ud.info /\ ud'.draft = ud.draft
           /\ AccountOf(ud, s) \in Account /\ AccountOf(ud, s) # None
           /\ AccountOf(ud, s).store = s
           /\ ud'.current = AccountOf(ud, s)
  <1>1. ud \in Defaults /\ s \in Listed(ud) /\ ud.info[s] # None
    BY DEF IInv, Typed, Row
  <1>2. AddressOf[s] \in ud.pubKeys
    BY <1>1 DEF ListOpens
  <1>3. /\ Adds(ud, ud', s) /\ ud'.current = AccountOf(ud', s)
        /\ ud'.info = ud.info /\ ud'.pubKeys = ud.pubKeys /\ SameLists(ud, ud')
    <2>1. Adds(ud, ud, s)
      BY <1>1, AddsNothing
    <2>2. CurrentWritten(ud, ud', AccountOf(ud, s))
      BY <1>1, ShownWritten
    <2>3. ASSUME NEW f, CurrentWritten(ud, f, AccountOf(ud, s))
          PROVE  /\ Adds(ud, f, s) /\ f.current = AccountOf(f, s)
                 /\ f.info = ud.info /\ f.pubKeys = ud.pubKeys /\ SameLists(ud, f)
      BY <1>1, <2>1, <2>3, AddsCurrent
    <2> QED
      BY <2>2, <2>3
  <1>4. /\ AccountOf(ud, s) \in Account /\ AccountOf(ud, s) # None
        /\ AccountOf(ud, s).store = s
    BY <1>1, AccountFields
  <1>5. CurrentWritten(ud, ud', AccountOf(ud, s))
    BY <1>1, <1>4, CurrentFields
  <1> QED
    BY <1>1, <1>2, <1>3, <1>4, <1>5, SameListsFacts DEF Added, CurrentWritten

LEMMA SelectStep ==
    ASSUME IInv, NEW s \in Store, Select(s)
    PROVE  IInv'
  <1>1. /\ Adds(ud, ud', s) /\ Added(ud', s) /\ SameLists(ud, ud')
        /\ ud'.slot = ud.slot
    BY ShownFacts DEF Select
  <1>2. UNCHANGED <<app, owned, made, torn, crossed>> /\ Typed
    BY DEF Select, IInv
  <1>3. SlotsCounted' /\ Quiet /\ torn' \in BOOLEAN /\ crossed' \in BOOLEAN
    BY <1>1, <1>2, SlotsStay DEF IInv, Quiet, Typed
  <1>4. Listed(ud') = Listed(ud)
    BY <1>1, SameListsFacts
  <1> QED
    BY <1>1, <1>2, <1>3, <1>4, AddsStep

LEMMA OpenDetailStep ==
    ASSUME IInv, NEW s \in Store, OpenDetail(s)
    PROVE  IInv'
  <1> DEFINE c == AccountOf(ud, s)
  <1>1. /\ Adds(ud, ud', s) /\ Added(ud', s) /\ SameLists(ud, ud')
        /\ ud'.slot = ud.slot /\ ud'.info = ud.info /\ ud'.draft = ud.draft
        /\ c \in Account /\ c # None /\ c.store = s /\ ud'.current = c
    BY ShownFacts DEF OpenDetail
  <1>2. /\ UNCHANGED <<owned, made, torn, crossed>> /\ Typed /\ Pages
        /\ app.page = "main"
        /\ app' = [app EXCEPT !.page = "detail", !.detail = c]
    BY DEF OpenDetail, IInv, AtMain
  <1> HIDE DEF c
  <1>3. /\ app' \in Memory /\ app'.page = "detail" /\ app'.detail = c
        /\ app'.over = app.over
    BY <1>1, <1>2 DEF Typed, Memory
  <1>4. SlotsCounted' /\ torn' \in BOOLEAN /\ crossed' \in BOOLEAN
    BY <1>1, <1>2, SlotsStay DEF IInv, Typed
  <1>5. Listed(ud') = Listed(ud)
    BY <1>1, SameListsFacts
  <1>6. NothingLost' /\ ListedOnce' /\ Wallets' /\ Current'
    BY <1>1, <1>2, <1>4, <1>5, AddsData
  <1>7. Pages'
    <2>1. \A x \in {app'.detail, app'.over} : x # None => ud'.info[x.store] # None
      BY <1>1, <1>2, <1>3 DEF Pages, Added
    <2>2. ~crossed' /\ app'.over # None => app'.over.address = AddressOf[app'.over.store]
      BY <1>2, <1>3 DEF Pages
    <2> QED
      BY <1>1, <1>3, <2>1, <2>2 DEF Pages, WalletPages, Added
  <1>8. Typed'
    BY <1>1, <1>2, <1>3 DEF Typed, Adds
  <1> QED
    BY <1>4, <1>6, <1>7, <1>8 DEF IInv

-----------------------------------------------------------------------------
\* Importing a wallet.

LEMMA RegisteredFacts ==
    ASSUME ud \in Defaults, NEW s \in Store, NEW a \in Address
    PROVE  /\ Adds(ud, Registered(a), s) /\ SameLists(ud, Registered(a))
           /\ Registered(a).info = ud.info /\ Registered(a).current = ud.current
           /\ Registered(a).slot = ud.slot
           /\ Registered(a).addresses = ud.addresses \cup {a}
  <1> SUFFICES ASSUME NEW e, e = Registered(a)
               PROVE  /\ Adds(ud, e, s) /\ SameLists(ud, e)
                      /\ e.info = ud.info /\ e.current = ud.current
                      /\ e.slot = ud.slot
                      /\ e.addresses = ud.addresses \cup {a}
    OBVIOUS
  <1>1. /\ e \in Defaults
        /\ e.mnemonics = ud.mnemonics /\ e.keys = ud.keys
        /\ e.recover = ud.recover /\ e.info = ud.info /\ e.pubKeys = ud.pubKeys
        /\ e.current = ud.current /\ e.draft = ud.draft /\ e.slot = ud.slot
        /\ e.addresses = ud.addresses \cup {a}
    BY DEF Registered, Defaults
  <1> QED
    BY <1>1, AddsNothing, AddsSame DEF SameLists

\* What has been written when a new wallet is imported.
LEMMA ImportFacts ==
    ASSUME ud \in Defaults, NEW s \in Store, NEW p \in Passcode, NEW next,
           Import(s, p, next), torn \in BOOLEAN, AddressOf[s] \notin ud.addresses,
           s \notin Listed(ud)
    PROVE  /\ Adds(ud, ud', s) /\ (torn' \/ Added(ud', s))
           /\ ud'.slot = ud.slot /\ AddressOf[s] \in ud'.addresses
           /\ app' \in {next, Launched}
           /\ torn' \in BOOLEAN /\ (torn => torn')
  <1> DEFINE a == AddressOf[s]
             base == Registered(a)
             listed == Listing(base, s)
             named  == WithInfo(listed, s, ImportName, p)
             chosen == [named EXCEPT !.current = AccountOf(named, s)]
             keyed  == WithPubKey(chosen, a)
  <1>0. a \in Address /\ ImportName \in Names
    BY StoreAssumption DEF Names
  <1>1. Handler({base, listed, named, chosen}, keyed, next)
    BY InList DEF Import, HasThisAddress
  <1> HIDE DEF a
  <1>2. /\ Adds(ud, base, s) /\ SameLists(ud, base) /\ base.current = ud.current
        /\ base.slot = ud.slot /\ a \in base.addresses
    BY <1>0, RegisteredFacts
  <1> HIDE DEF base
  <1>3. /\ Adds(ud, listed, s) /\ s \in Listed(listed) /\ listed.current = ud.current
        /\ listed.slot = ud.slot /\ a \in listed.addresses
    <2>1. Adds(ud, listed, s) /\ s \in Listed(listed)
      BY <1>2, AddsListing
    <2>2. base \in Defaults
      BY <1>2 DEF Adds
    <2>3. /\ listed.current = base.current /\ listed.slot = base.slot
          /\ listed.addresses = base.addresses
      BY <2>2, ListingFields
    <2> QED
      BY <1>2, <2>1, <2>3
  <1> HIDE DEF listed
  <1>4. InfoWritten(listed, named, s) /\ Adds(ud, named, s)
    <2>1. listed \in Defaults
      BY <1>3 DEF Adds
    <2>2. InfoWritten(listed, named, s)
      BY <1>0, <2>1, InfoFields
    <2>3. Adds(ud, named, s)
      <3> SUFFICES ASSUME NEW f, f = named PROVE Adds(ud, f, s)
        OBVIOUS
      <3> QED
        BY <1>0, <1>3, AddsInfo
    <2> QED
      BY <2>2, <2>3
  <1>5. /\ named.info[s] # None /\ SameLists(listed, named)
        /\ named.slot = ud.slot /\ a \in named.addresses /\ named \in Defaults
    BY <1>3, <1>4 DEF InfoWritten, SameLists
  <1> HIDE DEF named
  <1>6. /\ Adds(ud, chosen, s) /\ chosen.current = AccountOf(chosen, s)
        /\ chosen.info = named.info /\ SameLists(named, chosen)
        /\ chosen.slot = named.slot /\ chosen.addresses = named.addresses
    <2>1. CurrentWritten(named, chosen, AccountOf(named, s))
      BY <1>5, ShownWritten
    <2> HIDE DEF chosen
    <2> QED
      BY <1>4, <1>5, <2>1, AddsCurrent
  <1>7. chosen.slot = ud.slot /\ a \in chosen.addresses
    BY <1>5, <1>6
  <1> HIDE DEF chosen
  <1>8. /\ Adds(ud, keyed, s) /\ a \in keyed.pubKeys /\ SameLists(chosen, keyed)
        /\ keyed.info = chosen.info /\ keyed.current = chosen.current
    BY <1>0, <1>6, AddsPubKey
  <1>9. keyed.slot = ud.slot /\ a \in keyed.addresses
    BY <1>0, <1>6, <1>7, PubKeyFields DEF Adds
  <1> HIDE DEF keyed
  <1>10. Added(keyed, s)
    <2>1. s \in Listed(keyed)
      BY <1>3, <1>5, <1>6, <1>8, SameListsFacts
    <2>2. AccountOf(keyed, s) = AccountOf(chosen, s)
      BY <1>8 DEF AccountOf
    <2> QED
      BY <1>5, <1>6, <1>8, <2>1, <2>2 DEF Added, a
  <1>11. /\ ud' \in {base, listed, named, chosen, keyed}
         /\ app' \in {next, Launched} /\ torn' \in BOOLEAN /\ (torn => torn')
         /\ torn' \/ Added(ud', s)
    BY <1>1, <1>10, HandlerOutcome
  <1>12. Adds(ud, ud', s) /\ ud'.slot = ud.slot /\ a \in ud'.addresses
    BY <1>2, <1>3, <1>4, <1>5, <1>6, <1>7, <1>8, <1>9, <1>11
  <1> QED
    BY <1>11, <1>12 DEF a

LEMMA ImportStep ==
    ASSUME IInv, NEW s \in Store, NEW p \in Passcode, NEW next \in Memory,
           next.page = app.page, next.detail = app.detail, next.over = app.over,
           Import(s, p, next), owned' = owned \cup Listed(ud'), UNCHANGED <<made, crossed>>
    PROVE  IInv'
  <1>0. Typed /\ ud \in Defaults /\ torn \in BOOLEAN /\ crossed' \in BOOLEAN
    BY DEF IInv, Typed
  <1>1. /\ torn' \in BOOLEAN /\ (torn => torn') /\ app' \in {next, Launched}
        /\ Adds(ud, ud', s) /\ ud'.slot = ud.slot
        /\ \/ torn' \/ Added(ud', s)
           \/ SameLists(ud, ud') /\ ud'.info = ud.info /\ ud'.current = ud.current
        /\ s \in Listed(ud') \ Listed(ud) => AddressOf[s] \in ud'.addresses \ ud.addresses
        /\ s \in Listed(ud) => SameLists(ud, ud')
    <2>1. CASE HasThisAddress(AddressOf[s])
      <3>1. UNCHANGED <<ud, torn>> /\ app' = next
        BY <2>1 DEF Import
      <3>2. Adds(ud, ud', s) /\ SameLists(ud, ud')
        BY <1>0, <3>1, AddsNothing DEF SameLists
      <3> QED
        BY <1>0, <3>1, <3>2
    <2>2. CASE ~HasThisAddress(AddressOf[s]) /\ s \in Listed(ud)
      <3>1. Handler({}, Registered(AddressOf[s]), next)
        BY <1>0, <2>2, InList DEF Import
      <3>2. /\ ud' = Registered(AddressOf[s]) /\ app' \in {next, Launched}
            /\ torn' \in BOOLEAN /\ (torn => torn')
        BY <1>0, <3>1, HandlerOutcome
      <3>3. AddressOf[s] \in Address
        BY StoreAssumption
      <3>4. /\ Adds(ud, ud', s) /\ SameLists(ud, ud')
            /\ ud'.info = ud.info /\ ud'.current = ud.current /\ ud'.slot = ud.slot
        BY <1>0, <3>2, <3>3, RegisteredFacts
      <3> QED
        BY <2>2, <3>2, <3>4
    <2>3. CASE ~HasThisAddress(AddressOf[s]) /\ s \notin Listed(ud)
      BY <1>0, <2>3, ImportFacts DEF HasThisAddress
    <2> QED
      BY <2>1, <2>2, <2>3
  <1>2. Quiet
    BY <1>1, LaunchedFacts DEF Quiet
  <1>3. SlotsCounted'
    BY <1>1, SlotsStay DEF IInv
  <1> QED
    BY <1>0, <1>1, <1>2, <1>3, AddsStep

LEMMA ImportStoreStep ==
    ASSUME IInv, NEW s \in Store, NEW p \in Passcode, ImportStore(s, p)
    PROVE  IInv'
  BY ImportStep DEF ImportStore, IInv, Typed, Owns

LEMMA KeystoreStep ==
    ASSUME IInv, NEW t \in Tap, KeystoreDecrypted(t)
    PROVE  IInv'
  <1>1. /\ app.decrypting[t].key \in Store /\ app.decrypting[t].passcode \in Passcode
        /\ Typed
    BY DEF IInv, Typed, Memory, KeystoreDecrypted, Store
  <1> QED
    BY <1>1, DecryptedFacts, ImportStep DEF KeystoreDecrypted, Owns

-----------------------------------------------------------------------------
\* Sub accounts.

\* e is d but for whether an address is a sub account's.
ChildWritten(d, e) ==
    /\ e \in Defaults
    /\ SameLists(d, e)
    /\ e.recover = d.recover /\ e.addresses = d.addresses /\ e.info = d.info
    /\ e.pubKeys = d.pubKeys /\ e.current = d.current /\ e.draft = d.draft
    /\ e.slot = d.slot

Child == [parent : Store, slot : 0..MaxSlot]

LEMMA ChildIsWritten ==
    ASSUME NEW d \in Defaults, NEW a \in Address, NEW c \in Child
    PROVE  LET e == [d EXCEPT !.child = [d.child EXCEPT ![a] = c]]
           IN  ChildWritten(d, e) /\ e.child[a] = c
  <1> DEFINE f == [d.child EXCEPT ![a] = c]
  <1>1. f \in [Address -> Child \cup {None}] /\ f[a] = c
    BY DEF Defaults, Child
  <1> HIDE DEF f
  <1> SUFFICES ASSUME NEW e, e = [d EXCEPT !.child = f]
               PROVE  ChildWritten(d, e) /\ e.child[a] = c
    BY DEF f
  <1>2. /\ e \in Defaults
        /\ e.mnemonics = d.mnemonics /\ e.keys = d.keys
        /\ e.recover = d.recover /\ e.addresses = d.addresses /\ e.info = d.info
        /\ e.pubKeys = d.pubKeys /\ e.current = d.current /\ e.draft = d.draft
        /\ e.slot = d.slot /\ e.child = f
    BY <1>1 DEF Defaults, Child
  <1> QED
    BY <1>1, <1>2 DEF ChildWritten, SameLists

LEMMA GenerateSlot ==
    ASSUME IInv, NEW p \in Passcode, Generate(p)
    PROVE  LET w    == app.over
               slot == ud.slot[w.address] + 1
               from == <<AddressOf[ud.current.store], w.store, slot>>
           IN  /\ w \in Account /\ w.store \in Mnemonic /\ w.address \in Address
               /\ ~crossed => w.address = AddressOf[w.store]
               /\ ud.current \in Account
               /\ slot \in 1..MaxSlot
               /\ from \in DOMAIN ChildKey
               /\ ChildKey[from] \in Key
  <1>1. /\ app.over \in Account /\ app.over.store \in Mnemonic
        /\ ~crossed => app.over.address = AddressOf[app.over.store]
        /\ ud.current \in Account
    BY DEF IInv, Typed, Pages, WalletPages, Memory, Defaults, Generate
  <1>2. app.over.address \in Address
    BY <1>1 DEF Account
  <1> DEFINE w    == app.over
             slot == ud.slot[w.address] + 1
             from == <<AddressOf[ud.current.store], w.store, slot>>
  <1>3. from \in DOMAIN ChildKey
    BY DEF Generate
  <1>4. from \in Address \X Mnemonic \X (1..MaxSlot) /\ ChildKey[from] \in Key
    BY <1>3, StoreAssumption
  <1>5. slot \in 1..MaxSlot
    BY <1>4
  <1> QED
    BY <1>1, <1>2, <1>3, <1>4, <1>5

LEMMA GenerateStep ==
    ASSUME IInv, NEW p \in Passcode, Generate(p)
    PROVE  IInv'
  <1> DEFINE w       == app.over
             slot    == ud.slot[w.address] + 1
             from    == <<AddressOf[ud.current.store], w.store, slot>>
             k       == ChildKey[from]
             a       == AddressOf[k]
             counted == NextSlot(ud, w.address)
             listed  == Listing(counted, k)
             keyed   == WithPubKey(listed, a)
             half    == [parent |-> ud.current.store,
                         slot |-> IF keyed.child[a] = None THEN 0 ELSE keyed.child[a].slot]
             parented == [keyed EXCEPT !.child[a] =
                             [parent |-> ud.current.store,
                              slot |-> IF @ = None THEN 0 ELSE @.slot]]
             slotted == [parented EXCEPT !.child[a].slot = slot]
             named   == WithInfo(slotted, k, ChildName, p)
             chosen  == [named EXCEPT !.current = AccountOf(named, k)]
  <1>0. Typed /\ ud \in Defaults
    BY DEF IInv, Typed
  <1>1. /\ w \in Account /\ w.store \in Mnemonic /\ w.address \in Address
        /\ ~crossed => w.address = AddressOf[w.store]
        /\ ud.current \in Account
        /\ slot \in 1..MaxSlot
        /\ from \in DOMAIN ChildKey
        /\ k \in Key
    BY GenerateSlot
  <1>2. k \in Store /\ k \notin Mnemonic /\ a \in Address /\ ChildName \in Names
    BY <1>1, StoreAssumption DEF Store, Names
  <1>3. /\ Handler({counted, listed, keyed, parented, slotted, named}, chosen, Goes("main"))
        /\ owned' = owned \cup Listed(ud')
        /\ made' = made \cup ({k} \cap Listed(ud'))
        /\ crossed' = (crossed \/ w.store # ud.current.store)
    BY DEF Generate, Owns, Makes, Crosses
  <1> DEFINE Counts(e) == e.slot[w.address] = slot
                          /\ \A b \in Address \ {w.address} : e.slot[b] = ud.slot[b]
  <1>4. /\ Adds(ud, counted, k) /\ SameLists(ud, counted)
        /\ counted.current = ud.current /\ Counts(counted) /\ counted \in Defaults
    <2> SUFFICES ASSUME NEW e, e = NextSlot(ud, w.address)
                 PROVE  /\ Adds(ud, e, k) /\ SameLists(ud, e)
                        /\ e.current = ud.current /\ Counts(e) /\ e \in Defaults
      OBVIOUS
    <2>1. ud.slot[w.address] + 1 \in 0..MaxSlot
      BY <1>1
    <2>2. /\ e \in Defaults
          /\ e.mnemonics = ud.mnemonics /\ e.keys = ud.keys
          /\ e.recover = ud.recover /\ e.addresses = ud.addresses /\ e.info = ud.info
          /\ e.pubKeys = ud.pubKeys /\ e.current = ud.current /\ e.draft = ud.draft
          /\ Counts(e)
      BY <1>0, <1>1, <2>1, SlotFields
    <2> QED
      BY <1>0, <1>2, <2>2, AddsNothing, AddsSame DEF SameLists
  <1> HIDE DEF counted
  <1>5. /\ Adds(ud, listed, k) /\ k \in Listed(listed) /\ listed \in Defaults
        /\ listed.current = ud.current /\ Counts(listed)
    <2>1. Adds(ud, listed, k) /\ k \in Listed(listed)
      BY <1>0, <1>2, <1>4, AddsListing
    <2>2. listed.current = counted.current /\ listed.slot = counted.slot
      BY <1>2, <1>4, ListingFields
    <2> QED
      BY <1>4, <2>1, <2>2 DEF Adds
  <1> HIDE DEF listed
  <1>6. /\ Adds(ud, keyed, k) /\ k \in Listed(keyed) /\ keyed \in Defaults
        /\ a \in keyed.pubKeys /\ keyed.current = ud.current /\ Counts(keyed)
    <2>1. /\ Adds(ud, keyed, k) /\ a \in keyed.pubKeys
          /\ keyed.current = listed.current /\ SameLists(listed, keyed)
      BY <1>0, <1>2, <1>5, AddsPubKey
    <2>2. keyed.slot = listed.slot
      BY <1>2, <1>5, PubKeyFields
    <2> QED
      BY <1>5, <2>1, <2>2, SameListsFacts DEF Adds
  <1> HIDE DEF keyed
  <1> DEFINE KeyIn(e) == /\ Adds(ud, e, k) /\ k \in Listed(e) /\ e \in Defaults
                         /\ a \in e.pubKeys /\ e.current = ud.current /\ Counts(e)
  <1>7. ASSUME NEW e, KeyIn(e), NEW f, ChildWritten(e, f) PROVE KeyIn(f)
    <2>1. Adds(ud, f, k)
      BY <1>0, <1>2, <1>7, AddsSame DEF ChildWritten
    <2>2. Listed(f) = Listed(e)
      BY <1>7, SameListsFacts DEF ChildWritten
    <2> QED
      BY <1>7, <2>1, <2>2 DEF ChildWritten
  <1>8. KeyIn(parented) /\ parented.child[a] = half /\ half \in Child
    <2>1. keyed.child[a] = None \/ keyed.child[a] \in Child
      BY <1>2, <1>6 DEF Defaults, Child
    <2>2. ud.current.store \in Store /\ 0 \in 0..MaxSlot
      BY <1>1, MaxSlotAssumption DEF Account
    <2>3. half \in Child
      BY <2>1, <2>2 DEF Child
    <2>4. parented = [keyed EXCEPT !.child = [keyed.child EXCEPT ![a] = half]]
      OBVIOUS
    <2> HIDE DEF half, parented
    <2>5. ChildWritten(keyed, parented) /\ parented.child[a] = half
      BY <1>2, <1>6, <2>3, <2>4, ChildIsWritten
    <2> QED
      BY <1>6, <1>7, <2>3, <2>5
  <1>9. KeyIn(slotted)
    <2> DEFINE full == [half EXCEPT !.slot = slot]
    <2>1. full \in Child
      <3>1. slot \in 0..MaxSlot
        BY <1>1
      <3> HIDE DEF half, slot, parented
      <3>2. half \in Child
        BY <1>8
      <3> HIDE DEF k, a, from, w
      <3> QED
        BY <3>1, <3>2 DEF Child
    <2> HIDE DEF half, parented
    <2>2. slotted = [parented EXCEPT !.child = [parented.child EXCEPT ![a] = full]]
      BY <1>8
    <2> HIDE DEF full, slotted
    <2>3. ChildWritten(parented, slotted)
      BY <1>2, <1>8, <2>1, <2>2, ChildIsWritten
    <2> QED
      BY <1>7, <1>8, <2>3
  <1> HIDE DEF parented, slotted, half
  <1>10. KeyIn(named) /\ named.info[k] # None
    <2>1. InfoWritten(slotted, named, k)
      BY <1>2, <1>9, InfoFields
    <2>2. Adds(ud, named, k)
      <3> SUFFICES ASSUME NEW f, f = named PROVE Adds(ud, f, k)
        OBVIOUS
      <3> QED
        BY <1>0, <1>2, <1>9, AddsInfo
    <2> HIDE DEF named
    <2>3. Listed(named) = Listed(slotted)
      BY <2>1, SameListsFacts DEF SameLists, InfoWritten
    <2> QED
      BY <1>9, <2>1, <2>2, <2>3 DEF InfoWritten
  <1> HIDE DEF named
  <1>11. /\ Adds(ud, chosen, k) /\ Added(chosen, k) /\ k \in Listed(chosen)
         /\ Counts(chosen)
    <2>1. CurrentWritten(named, chosen, AccountOf(named, k))
      BY <1>2, <1>10, ShownWritten
    <2> HIDE DEF chosen
    <2>2. /\ Adds(ud, chosen, k) /\ chosen.current = AccountOf(chosen, k)
          /\ chosen.info = named.info /\ chosen.pubKeys = named.pubKeys
          /\ SameLists(named, chosen) /\ chosen.slot = named.slot
      BY <1>0, <1>2, <1>10, <2>1, AddsCurrent
    <2>3. Listed(chosen) = Listed(named)
      BY <2>2, SameListsFacts
    <2> QED
      BY <1>10, <2>2, <2>3 DEF Added
  <1> HIDE DEF chosen
  <1>12. /\ ud' \in {counted, listed, keyed, parented, slotted, named, chosen}
         /\ app' \in {Goes("main"), Launched}
         /\ torn' \in BOOLEAN /\ (torn => torn') /\ (torn' \/ Added(ud', k))
    BY <1>0, <1>3, <1>11, HandlerOutcome DEF Typed
  <1>13. /\ Adds(ud, ud', k) /\ Counts(ud')
         /\ k \in Listed(ud') \/ SameLists(ud, ud')
    BY <1>4, <1>5, <1>6, <1>8, <1>9, <1>10, <1>11, <1>12
  <1>14. Quiet
    BY <1>0, <1>12, GoesFacts, LaunchedFacts DEF Quiet
  <1>15. crossed' \in BOOLEAN /\ (crossed => crossed')
    BY <1>3
  <1>16. SlotsCounted'
    <2> SUFFICES ASSUME ~crossed', NEW m \in Mnemonic, NEW i \in 1..MaxSlot,
                        <<AddressOf[m], m, i>> \in DOMAIN ChildKey,
                        ChildKey[<<AddressOf[m], m, i>>] \in made'
                 PROVE  i <= ud'.slot[AddressOf[m]]
      BY DEF SlotsCounted
    <2>1. ~crossed /\ w.store = ud.current.store /\ w.address = AddressOf[w.store]
      BY <1>1, <1>3
    <2>2. AddressOf[m] \in Address
      BY StoreAssumption DEF Store
    <2>3. ud.slot \in [Address -> 0..MaxSlot]
      BY <1>0 DEF Defaults
    <2>4. ud.slot[AddressOf[m]] <= ud'.slot[AddressOf[m]]
      <3>1. CASE AddressOf[m] = w.address
        <4>1. ud'.slot[AddressOf[m]] = ud.slot[w.address] + 1
          BY <1>13, <3>1
        <4> QED
          BY <2>2, <2>3, <3>1, <4>1, MaxSlotAssumption
      <3>2. CASE AddressOf[m] # w.address
        <4>1. ud'.slot[AddressOf[m]] = ud.slot[AddressOf[m]]
          BY <1>13, <2>2, <3>2
        <4> QED
          BY <2>2, <2>3, <4>1, MaxSlotAssumption
      <3> QED
        BY <3>1, <3>2
    <2>5. CASE ChildKey[<<AddressOf[m], m, i>>] \in made
      <3>1. i <= ud.slot[AddressOf[m]]
        BY <2>1, <2>5 DEF IInv, SlotsCounted
      <3>2. ud'.slot[AddressOf[m]] \in Int /\ ud.slot[AddressOf[m]] \in Int
        <4>1. ud' \in Defaults
          BY <1>13 DEF Adds
        <4>2. ud'.slot \in [Address -> 0..MaxSlot]
          BY <4>1 DEF Defaults
        <4> QED
          BY <2>2, <2>3, <4>2, MaxSlotAssumption
      <3> QED
        BY <2>4, <3>1, <3>2
    <2>6. CASE ChildKey[<<AddressOf[m], m, i>>] \notin made
      <3>1. ChildKey[<<AddressOf[m], m, i>>] = k
        BY <1>3, <2>6
      <3>2. <<AddressOf[m], m, i>> = from
        BY <1>1, <3>1, NoCollision
      <3>3. m = w.store /\ i = slot
        BY <3>2
      <3> QED
        BY <1>1, <1>13, <2>1, <3>3
    <2> QED
      BY <2>5, <2>6
  <1>17. /\ k \in Listed(ud') \ Listed(ud) => k \in made'
         /\ made \subseteq made' /\ made' \subseteq made \cup {k}
    BY <1>1, <1>3, <1>13
  <1>18. ASSUME k \in Listed(ud), ~ SameLists(ud, ud') PROVE ListedAgain(k)
    <2>1. k \in Key \cap made'
      BY <1>1, <1>3, <1>13, <1>18
    <2>2. CASE crossed'
      BY <2>1, <2>2 DEF ListedAgain
    <2>3. CASE ~crossed'
      <3>1. ~crossed /\ w.store = ud.current.store /\ w.address = AddressOf[w.store]
        BY <1>1, <1>3, <2>3
      <3>2. k \notin made
        <4>1. k \in made => slot <= ud.slot[w.address]
          BY <1>1, <3>1 DEF IInv, SlotsCounted
        <4>2. ud.slot[w.address] \in 0..MaxSlot
          BY <1>0, <1>1 DEF Defaults
        <4> QED
          BY <4>1, <4>2, MaxSlotAssumption
      <3>3. AddressOf[k] \in ud.addresses
        BY <1>18, <3>2 DEF IInv, Wallets, Kept
      <3> QED
        BY <1>13, <2>1, <3>3 DEF ListedAgain, Adds
    <2> QED
      BY <2>2, <2>3
  <1> QED
    BY <1>2, <1>3, <1>12, <1>13, <1>14, <1>15, <1>16, <1>17, <1>18, AddsStep

-----------------------------------------------------------------------------
\* The detail page, and the wallets deleted on it.

LEMMA DetailFacts ==
    ASSUME IInv, app.page = "detail"
    PROVE  /\ app.detail \in Account /\ app.detail # None
           /\ app.detail.store \in Store
           /\ ud.info[app.detail.store] \in Info /\ ud.info[app.detail.store] # None
           /\ ud.current \in Account /\ ud.current # None
           /\ ~torn => app.detail.store \in Listed(ud)
  <1>1. /\ app.detail \in Account /\ app.detail # None
        /\ ud.current \in Account /\ ud.current # None
        /\ ~torn => app.detail.store \in Listed(ud)
        /\ ud.info[app.detail.store] # None
    BY DEF IInv, Typed, Pages, WalletPages, Memory, Defaults
  <1>2. app.detail.store \in Store
    BY <1>1 DEF Account
  <1> QED
    BY <1>1, <1>2 DEF IInv, Typed, Defaults

\* A wallet's name is changed.
LEMMA NameFacts ==
    ASSUME NEW d \in Defaults, NEW s \in Store, d.info[s] \in Info, NEW n \in Name
    PROVE  LET e == [d EXCEPT !.info[s].name = n]
           IN  InfoWritten(d, e, s) /\ e.info[s].name = n
  <1> DEFINE i == [d.info[s] EXCEPT !.name = n]
  <1>1. i \in Info /\ i.name = n
    BY DEF Info, Names
  <1>2. i # None
    BY <1>1, InfoNotNone
  <1> HIDE DEF i
  <1> SUFFICES ASSUME NEW e, e = [d EXCEPT !.info[s] = i]
               PROVE  InfoWritten(d, e, s) /\ e.info[s].name = n
    BY DEF i
  <1>3. e = [d EXCEPT !.info = [d.info EXCEPT ![s] = i]]
    OBVIOUS
  <1> DEFINE f == [d.info EXCEPT ![s] = i]
  <1>4. f \in [Store -> Info \cup {None}] /\ f[s] = i /\ \A t \in Store \ {s} : f[t] = d.info[t]
    BY <1>1 DEF Defaults
  <1> HIDE DEF f
  <1>5. e = [d EXCEPT !.info = f]
    BY <1>3 DEF f
  <1>6. /\ e \in Defaults /\ e.info = f
        /\ e.mnemonics = d.mnemonics /\ e.keys = d.keys
        /\ e.recover = d.recover /\ e.addresses = d.addresses
        /\ e.pubKeys = d.pubKeys /\ e.current = d.current
        /\ e.draft = d.draft /\ e.slot = d.slot /\ e.child = d.child
    BY <1>4, <1>5 DEF Defaults
  <1> QED
    BY <1>1, <1>2, <1>4, <1>6 DEF InfoWritten

LEMMA PasscodeFacts ==
    ASSUME NEW d \in Defaults, NEW s \in Store, d.info[s] \in Info, NEW p \in Passcode
    PROVE  LET e == [d EXCEPT !.info[s].passcode = p]
           IN  InfoWritten(d, e, s) /\ e.info[s].name = d.info[s].name
  <1> DEFINE i == [d.info[s] EXCEPT !.passcode = p]
  <1>1. i \in Info /\ i.name = d.info[s].name
    BY DEF Info
  <1>2. i # None
    BY <1>1, InfoNotNone
  <1> HIDE DEF i
  <1> SUFFICES ASSUME NEW e, e = [d EXCEPT !.info[s] = i]
               PROVE  InfoWritten(d, e, s) /\ e.info[s].name = d.info[s].name
    BY DEF i
  <1>3. e = [d EXCEPT !.info = [d.info EXCEPT ![s] = i]]
    OBVIOUS
  <1> DEFINE f == [d.info EXCEPT ![s] = i]
  <1>4. f \in [Store -> Info \cup {None}] /\ f[s] = i /\ \A t \in Store \ {s} : f[t] = d.info[t]
    BY <1>1 DEF Defaults
  <1> HIDE DEF f
  <1>5. e = [d EXCEPT !.info = f]
    BY <1>3 DEF f
  <1>6. /\ e \in Defaults /\ e.info = f
        /\ e.mnemonics = d.mnemonics /\ e.keys = d.keys
        /\ e.recover = d.recover /\ e.addresses = d.addresses
        /\ e.pubKeys = d.pubKeys /\ e.current = d.current
        /\ e.draft = d.draft /\ e.slot = d.slot /\ e.child = d.child
    BY <1>4, <1>5 DEF Defaults
  <1> QED
    BY <1>1, <1>2, <1>4, <1>6 DEF InfoWritten

LEMMA ChangePasscodeStep ==
    ASSUME IInv, NEW p \in Passcode, ChangePasscode(p)
    PROVE  IInv'
  <1> DEFINE w == PasscodeOwner
             s == w.store
  <1>1. /\ w \in Account /\ w # None /\ s \in Store /\ ud.info[s] # None
        /\ Typed /\ ud \in Defaults /\ Current /\ Pages
    BY OwnerFacts DEF ChangePasscode, IInv, Typed
  <1>2. /\ app.page = "passcode" /\ UNCHANGED <<owned, made, torn, crossed>>
        /\ ud' = [ud EXCEPT !.info[s].passcode = p]
        /\ app' = [app EXCEPT !.over = w]
    BY DEF ChangePasscode
  <1>3. w = ud.current \/ w = app.over
    BY DEF PasscodeOwner
  <1> HIDE DEF w
  <1>4. ud.info[s] \in Info
    BY <1>1 DEF Defaults
  <1> HIDE DEF s
  <1>5. InfoWritten(ud, ud', s) /\ ud'.info[s].name = ud.info[s].name
    BY <1>1, <1>2, <1>4, PasscodeFacts
  <1>6. \A t \in Store : ud.info[t] # None =>
           ud'.info[t] # None /\ ud'.info[t].name = ud.info[t].name
    BY <1>5 DEF InfoWritten
  <1>7. NothingLost' /\ ListedOnce' /\ SlotsCounted' /\ Wallets' /\ Listed(ud') = Listed(ud)
    BY <1>1, <1>2, <1>5, <1>6, SameWalletsStep DEF SameWallets, InfoWritten
  <1>8. ud'.current = ud.current /\ ud'.pubKeys = ud.pubKeys /\ ud' \in Defaults
    BY <1>5 DEF InfoWritten
  <1>9. Current'
    BY <1>1, <1>2, <1>6, <1>7, <1>8, CurrentStays
  <1>10. /\ app' \in Memory /\ app'.page = "passcode" /\ app'.detail = app.detail
         /\ app'.over = w
    BY <1>1, <1>2 DEF Typed, Memory
  <1>11. Pages'
    <2>1. app.detail # None /\ app.detail.store \in Store /\ ud.current # None
      BY <1>1, <1>2 DEF Pages, WalletPages, Typed, Memory, Account
    <2>2. \A c \in {app'.detail, app'.over} : c # None => ud'.info[c.store] # None
      BY <1>1, <1>6, <1>10, <2>1 DEF Pages, s
    <2>3. ~crossed' /\ app'.over # None => app'.over.address = AddressOf[app'.over.store]
      BY <1>1, <1>2, <1>3, <1>10 DEF Pages, Current
    <2>4. ~torn' /\ app'.page \in WalletPages => app'.detail.store \in Listed(ud')
      BY <1>1, <1>2, <1>7, <1>10 DEF Pages, WalletPages
    <2> QED
      BY <1>8, <1>10, <2>1, <2>2, <2>3, <2>4 DEF Pages
  <1>12. Typed'
    BY <1>1, <1>2, <1>8, <1>10 DEF Typed
  <1> QED
    BY <1>7, <1>9, <1>11, <1>12 DEF IInv

LEMMA RenameStep ==
    ASSUME IInv, NEW n \in Name, Rename(n)
    PROVE  IInv'
  <1> DEFINE s      == app.detail.store
             c      == [name |-> n, store |-> s, address |-> ud.current.address]
             named  == [ud EXCEPT !.info[s].name = n]
             chosen == [named EXCEPT !.current = c]
  <1>1. /\ app.detail \in Account /\ app.detail # None
        /\ s \in Store /\ ud.info[s] \in Info /\ ud.info[s] # None
        /\ ud.current \in Account /\ ud.current # None
        /\ ~torn => s \in Listed(ud)
        /\ Typed /\ ud \in Defaults /\ Current /\ Pages
    BY DetailFacts DEF Rename, IInv, Typed
  <1>2. /\ app.page = "detail"
        /\ Handler({named}, chosen, app)
        /\ crossed' = (crossed \/ s # ud.current.store)
        /\ UNCHANGED <<owned, made>>
    BY DEF Rename, Crosses
  <1>3. InfoWritten(ud, named, s) /\ named.info[s].name = n
    BY <1>1, NameFacts
  <1>4. c \in Account /\ c # None /\ c.store = s /\ c.name = n /\ c.address = ud.current.address
    <2>1. c \in Account
      BY <1>1 DEF Account, Names
    <2> QED
      BY <2>1, NoneAssumption
  <1> HIDE DEF c, named
  <1>5. CurrentWritten(named, chosen, c)
    BY <1>3, <1>4, CurrentFields DEF InfoWritten
  <1> HIDE DEF chosen
  <1>6. /\ ud' \in {named, chosen} /\ app' \in {app, Launched}
        /\ torn' \in BOOLEAN /\ (torn => torn') /\ (torn' \/ ud' = chosen)
    BY <1>1, <1>2, HandlerOutcome DEF Typed
  <1>7. crossed' \in BOOLEAN /\ (crossed => crossed')
    BY <1>2
  <1>8. /\ ud' \in Defaults
        /\ ud'.mnemonics = ud.mnemonics /\ ud'.keys = ud.keys /\ ud'.recover = ud.recover
        /\ ud'.addresses = ud.addresses /\ ud'.pubKeys = ud.pubKeys
        /\ ud'.slot = ud.slot /\ ud'.draft = ud.draft
        /\ ud'.info[s] # None /\ ud'.info[s].name = n
        /\ \A t \in Store \ {s} : ud'.info[t] = ud.info[t]
        /\ (ud'.current = ud.current /\ torn') \/ ud'.current = c
    BY <1>3, <1>5, <1>6 DEF InfoWritten, CurrentWritten
  <1>9. \A t \in Store : ud.info[t] # None => ud'.info[t] # None
    BY <1>8
  <1>10. NothingLost' /\ ListedOnce' /\ SlotsCounted' /\ Wallets' /\ Listed(ud') = Listed(ud)
    BY <1>2, <1>6, <1>7, <1>8, <1>9, SameWalletsStep DEF SameWallets
  <1>11. Current'
    <2>1. CASE ud'.current = ud.current /\ torn'
      BY <1>1, <1>6, <1>7, <1>8, <1>9, <1>10, <2>1, CurrentStays
    <2>2. CASE ud'.current = c
      <3>1. ~torn' => ud.current.address \in ud'.pubKeys /\ s \in Listed(ud')
        BY <1>1, <1>6, <1>8, <1>10 DEF Current
      <3>2. ~crossed' => ud.current.address = AddressOf[s]
        BY <1>1, <1>2 DEF Current
      <3> HIDE DEF s
      <3> QED
        BY <1>4, <1>8, <2>2, <3>1, <3>2 DEF Current
    <2> QED
      BY <1>8, <2>1, <2>2
  <1>12. Quiet
    BY <1>1, <1>6, LaunchedFacts DEF Quiet, Typed
  <1>13. Pages'
    BY <1>1, <1>4, <1>6, <1>7, <1>8, <1>9, <1>10, <1>12, PagesStep
  <1>14. Typed'
    BY <1>1, <1>2, <1>6, <1>7, <1>8, <1>12 DEF Typed, Quiet
  <1> QED
    BY <1>10, <1>11, <1>13, <1>14 DEF IInv

\* e is d but for the wallets that can be recovered.
RecoverWritten(d, e) ==
    /\ e \in Defaults
    /\ SameLists(d, e)
    /\ e.addresses = d.addresses /\ e.info = d.info /\ e.pubKeys = d.pubKeys
    /\ e.current = d.current /\ e.draft = d.draft /\ e.slot = d.slot

LEMMA RecoverFields ==
    ASSUME NEW d \in Defaults, NEW r \in Seq(Store)
    PROVE  LET e == [d EXCEPT !.recover = r]
           IN  RecoverWritten(d, e) /\ e.recover = r
  BY DEF Defaults, RecoverWritten, SameLists

LEMMA AppendedSet ==
    ASSUME NEW L, NEW x \in Seq(L), NEW y \in Seq(L)
    PROVE  x \o y \in Seq(L) /\ ToSet(x \o y) = ToSet(x) \cup ToSet(y)
  <1> DEFINE z == x \o y
  <1>3. /\ z \in Seq(L)
        /\ Len(x) \in Nat /\ Len(y) \in Nat
        /\ DOMAIN x = 1..Len(x) /\ DOMAIN y = 1..Len(y)
        /\ DOMAIN z = 1..(Len(x) + Len(y))
        /\ \A i \in DOMAIN z : z[i] = IF i <= Len(x) THEN x[i] ELSE y[i - Len(x)]
    OBVIOUS
  <1> HIDE DEF z
  <1>4. ToSet(z) \subseteq ToSet(x) \cup ToSet(y)
    BY <1>3 DEF ToSet
  <1>5. ToSet(x) \subseteq ToSet(z)
    BY <1>3 DEF ToSet
  <1>6. ASSUME NEW v \in ToSet(y) PROVE v \in ToSet(z)
    <2>1. PICK i \in DOMAIN y : y[i] = v
      BY DEF ToSet
    <2>2. i + Len(x) \in DOMAIN z /\ z[i + Len(x)] = v
      BY <1>3, <2>1
    <2> QED
      BY <2>2 DEF ToSet
  <1> QED
    BY <1>3, <1>4, <1>5, <1>6 DEF z

LEMMA RemainsFacts ==
    ASSUME NEW d \in Defaults
    PROVE  Remains(d) \in Seq(Store) /\ ToSet(Remains(d)) = Listed(d)
  <1>1. d.mnemonics \in Seq(Mnemonic) /\ d.keys \in Seq(Key)
    BY DEF Defaults
  <1>2. /\ \A i \in 1..Len(d.mnemonics) : d.mnemonics[i] \in Store
        /\ \A i \in 1..Len(d.keys) : d.keys[i] \in Store
    BY <1>1 DEF Store
  <1>3. d.mnemonics \in Seq(Store) /\ d.keys \in Seq(Store)
    BY <1>1, <1>2
  <1> QED
    BY <1>3, AppendedSet DEF Remains, Listed

\* The front of what is appended.
LEMMA FrontFacts ==
    ASSUME NEW L, NEW r \in Seq(L), NEW n \in 1..Len(r)
    PROVE  /\ SubSeq(r, 1, n) \in Seq(L)
           /\ ToSet(SubSeq(r, 1, n)) \subseteq ToSet(r)
           /\ n = Len(r) => SubSeq(r, 1, n) = r
  <1>1. /\ SubSeq(r, 1, n) \in Seq(L) /\ DOMAIN SubSeq(r, 1, n) = 1..n
        /\ \A i \in 1..n : SubSeq(r, 1, n)[i] = r[i]
        /\ DOMAIN r = 1..Len(r)
    OBVIOUS
  <1>2. ToSet(SubSeq(r, 1, n)) \subseteq ToSet(r)
    BY <1>1 DEF ToSet
  <1>3. n = Len(r) => SubSeq(r, 1, n) = r
    OBVIOUS
  <1> QED
    BY <1>1, <1>2, <1>3

\* The lists without a wallet.
LeftWritten(d, e, s) ==
    /\ e \in Defaults
    /\ e.recover = d.recover
    /\ e.addresses = d.addresses /\ e.info = d.info /\ e.pubKeys = d.pubKeys
    /\ e.current = d.current /\ e.draft = d.draft /\ e.slot = d.slot
    /\ Listed(e) = Listed(d) \ {s}
    /\ \A t : Repeated(ListOf(e, t), t) => Repeated(ListOf(d, t), t)

LEMMA LeftFields ==
    ASSUME NEW d \in Defaults, NEW s \in Store
    PROVE  LeftWritten(d, [d EXCEPT !.mnemonics = Others(@, s), !.keys = Others(@, s)], s)
  <1> SUFFICES ASSUME NEW e, e = [d EXCEPT !.mnemonics = Others(@, s), !.keys = Others(@, s)]
               PROVE  LeftWritten(d, e, s)
    OBVIOUS
  <1> DEFINE x == Others(d.mnemonics, s)
             y == Others(d.keys, s)
  <1>1. d.mnemonics \in Seq(Mnemonic) /\ d.keys \in Seq(Key)
    BY DEF Defaults
  <1>2. /\ x \in Seq(Mnemonic) /\ ToSet(x) = ToSet(d.mnemonics) \cap (Store \ {s})
        /\ \A t : Repeated(x, t) => Repeated(d.mnemonics, t)
    BY <1>1, OnlyFacts DEF Others
  <1>3. /\ y \in Seq(Key) /\ ToSet(y) = ToSet(d.keys) \cap (Store \ {s})
        /\ \A t : Repeated(y, t) => Repeated(d.keys, t)
    BY <1>1, OnlyFacts DEF Others
  <1> HIDE DEF x, y
  <1>4. e = [d EXCEPT !.mnemonics = x, !.keys = y]
    BY DEF x, y
  <1>5. /\ e \in Defaults
        /\ e.mnemonics = x /\ e.keys = y /\ e.recover = d.recover
        /\ e.addresses = d.addresses /\ e.info = d.info /\ e.pubKeys = d.pubKeys
        /\ e.current = d.current /\ e.draft = d.draft /\ e.slot = d.slot
    BY <1>2, <1>3, <1>4 DEF Defaults
  <1>6. Listed(e) = Listed(d) \ {s}
    BY <1>2, <1>3, <1>5, KeptInStore DEF Listed, Store
  <1>7. \A t : Repeated(ListOf(e, t), t) => Repeated(ListOf(d, t), t)
    BY <1>2, <1>3, <1>5 DEF ListOf
  <1> QED
    BY <1>5, <1>6, <1>7 DEF LeftWritten

\* What a deletion leaves alone, also when the app is killed on the way.
Deletes(e) ==
    /\ e \in Defaults
    /\ Kept(e) = Kept(ud)
    /\ e.addresses = ud.addresses /\ e.info = ud.info /\ e.pubKeys = ud.pubKeys
    /\ e.slot = ud.slot
    /\ \A t : Repeated(ListOf(e, t), t) => Repeated(ListOf(ud, t), t)

LEMMA DeleteStep ==
    ASSUME IInv, Delete
    PROVE  IInv'
  <1> DEFINE s        == app.detail.store
             found    == Only(Remains(ud), {s})
             kept(n)  == [ud EXCEPT !.recover = @ \o SubSeq(found, 1, n)]
             last     == kept(Len(found))
             left     == [last EXCEPT !.mnemonics = Others(@, s), !.keys = Others(@, s)]
             partial  == {kept(n) : n \in 1..Len(found)} \cup {left}
             next     == IF Remains(left) = <<>> THEN None
                         ELSE AccountOf(left, Head(Remains(left)))
             chosen   == [left EXCEPT !.current = next]
  <1>0. Typed /\ ud \in Defaults /\ torn \in BOOLEAN /\ Current /\ Wallets
    BY DEF IInv, Typed
  <1>1. /\ app.page = "detail" /\ s \in Store
        /\ owned' = owned \cup Listed(ud') /\ UNCHANGED <<made, crossed>>
        /\ \/ /\ Remains(left) # <<>> => left.info[Head(Remains(left))] # None
              /\ Handler(partial, chosen, Goes("main"))
           \/ /\ ud' \in partial
              /\ app' = Launched
              /\ torn' = TRUE
    BY DetailFacts DEF Delete, Owns
  <1> HIDE DEF s
  <1>2. found \in Seq(Store) /\ ToSet(found) = Listed(ud) \cap {s}
    BY <1>0, RemainsFacts, OnlyFacts
  <1> HIDE DEF found
  <1>3. ASSUME NEW r \in Seq(Store), ToSet(r) \subseteq Listed(ud)
        PROVE  LET e == [ud EXCEPT !.recover = @ \o r]
               IN  /\ Deletes(e) /\ Listed(e) = Listed(ud) /\ e.current = ud.current
                   /\ ToSet(e.recover) = ToSet(ud.recover) \cup ToSet(r)
    <2> DEFINE q == ud.recover \o r
    <2>1. q \in Seq(Store) /\ ToSet(q) = ToSet(ud.recover) \cup ToSet(r)
      BY <1>0, AppendedSet DEF Defaults
    <2> HIDE DEF q
    <2> SUFFICES ASSUME NEW e, e = [ud EXCEPT !.recover = q]
                 PROVE  /\ Deletes(e) /\ Listed(e) = Listed(ud) /\ e.current = ud.current
                        /\ ToSet(e.recover) = ToSet(ud.recover) \cup ToSet(r)
      BY DEF q
    <2>2. RecoverWritten(ud, e) /\ e.recover = q
      BY <1>0, <2>1, RecoverFields
    <2>3. Listed(e) = Listed(ud) /\ \A t : ListOf(e, t) = ListOf(ud, t)
      BY <2>2, SameListsFacts DEF RecoverWritten
    <2> QED
      BY <1>3, <2>1, <2>2, <2>3 DEF Deletes, RecoverWritten, Kept
  <1>4. \A n \in 1..Len(found) : Deletes(kept(n)) /\ kept(n).current = ud.current
    <2> SUFFICES ASSUME NEW n \in 1..Len(found)
                 PROVE  Deletes(kept(n)) /\ kept(n).current = ud.current
      OBVIOUS
    <2> DEFINE r == SubSeq(found, 1, n)
    <2>1. r \in Seq(Store) /\ ToSet(r) \subseteq Listed(ud)
      BY <1>2, FrontFacts
    <2> HIDE DEF r
    <2>2. kept(n) = [ud EXCEPT !.recover = @ \o r]
      BY DEF r
    <2> QED
      BY <1>3, <2>1, <2>2
  <1>5. /\ Deletes(last) /\ Listed(last) = Listed(ud) /\ last.current = ud.current
        /\ s \in Listed(ud) => s \in ToSet(last.recover)
    <2>1. SubSeq(found, 1, Len(found)) = found
      BY <1>2
    <2>2. last = [ud EXCEPT !.recover = @ \o found]
      BY <2>1
    <2> HIDE DEF last
    <2> QED
      BY <1>2, <1>3, <2>2
  <1> HIDE DEF last
  <1>6. Deletes(left) /\ left.current = ud.current
    <2>1. last \in Defaults
      BY <1>5 DEF Deletes
    <2>2. LeftWritten(last, left, s)
      BY <1>1, <2>1, LeftFields
    <2> HIDE DEF left
    <2>3. Kept(left) = Kept(last)
      BY <1>5, <2>2 DEF Kept, LeftWritten
    <2> QED
      BY <1>5, <2>2, <2>3 DEF Deletes, LeftWritten
  <1> HIDE DEF left
  <1>7. ASSUME Remains(left) # <<>> => left.info[Head(Remains(left))] # None
        PROVE  /\ Deletes(chosen)
               /\ Listed(chosen) = Listed(left)
               /\ \/ chosen.current = None
                  \/ \E h \in Listed(chosen) :
                        /\ chosen.info[h] # None
                        /\ chosen.current = AccountOf(chosen, h)
    <2>1. left \in Defaults
      BY <1>6 DEF Deletes
    <2>2. next # None => \E h \in Listed(left) :
                            left.info[h] # None /\ next = AccountOf(left, h)
      <3>1. Remains(left) # <<>> => Head(Remains(left)) \in ToSet(Remains(left))
        <4> DEFINE q == Remains(left)
        <4>1. q \in Seq(Store)
          BY <2>1, RemainsFacts
        <4> HIDE DEF q
        <4>2. q # <<>> => 1 \in DOMAIN q /\ Head(q) = q[1]
          BY <4>1
        <4> QED
          BY <4>2 DEF ToSet, q
      <3> QED
        BY <1>7, <2>1, <3>1, RemainsFacts
    <2>3. next \in Account \cup {None}
      BY <2>1, <2>2, AccountFields, KeptInStore
    <2> HIDE DEF next
    <2>4. CurrentWritten(left, chosen, next)
      BY <2>1, <2>3, CurrentFields
    <2> HIDE DEF chosen
    <2>5. /\ SameLists(left, chosen) /\ chosen.recover = left.recover
          /\ chosen.info = left.info /\ chosen.current = next /\ chosen \in Defaults
          /\ chosen.addresses = left.addresses /\ chosen.pubKeys = left.pubKeys
          /\ chosen.slot = left.slot
      BY <2>4 DEF CurrentWritten, SameLists
    <2>6. Listed(chosen) = Listed(left) /\ \A t : ListOf(chosen, t) = ListOf(left, t)
      BY <2>5, SameListsFacts
    <2>7. \A h : AccountOf(chosen, h) = AccountOf(left, h)
      BY <2>5 DEF AccountOf
    <2>8. Deletes(chosen)
      BY <1>6, <2>5, <2>6 DEF Deletes, Kept
    <2> QED
      BY <2>2, <2>5, <2>6, <2>7, <2>8
  <1> HIDE DEF chosen
  <1>8. /\ Deletes(ud')
        /\ app' \in {Goes("main"), Launched} /\ torn' \in BOOLEAN /\ (torn => torn')
        /\ \/ ud'.current = ud.current /\ torn'
           \/ ud'.current = None
           \/ \E h \in Listed(ud') : ud'.info[h] # None /\ ud'.current = AccountOf(ud', h)
    <2>1. ud' \in partial => Deletes(ud') /\ ud'.current = ud.current
      BY <1>4, <1>6
    <2> HIDE DEF partial
    <2>2. CASE /\ Remains(left) # <<>> => left.info[Head(Remains(left))] # None
               /\ Handler(partial, chosen, Goes("main"))
      <3>1. /\ ud' \in partial \cup {chosen} /\ app' \in {Goes("main"), Launched}
            /\ torn' \in BOOLEAN /\ (torn => torn') /\ (torn' \/ ud' = chosen)
        BY <1>0, <2>2, HandlerOutcome
      <3> QED
        BY <1>7, <2>1, <2>2, <3>1
    <2>3. CASE ud' \in partial /\ app' = Launched /\ torn' = TRUE
      BY <2>1, <2>3
    <2> QED
      BY <1>1, <2>2, <2>3
  <1>9. /\ app' \in Memory
        /\ app'.page = "main" /\ app'.detail = None /\ app'.over = None
    BY <1>0, <1>8, GoesFacts, LaunchedFacts
  <1>10. Kept(ud') = Kept(ud) /\ Listed(ud') \subseteq Kept(ud') /\ Kept(ud') \subseteq Store
    BY <1>8, KeptInStore DEF Deletes, Kept
  <1>11. Typed'
    BY <1>0, <1>1, <1>8, <1>9, <1>10 DEF Typed, Deletes
  <1>12. NothingLost'
    BY <1>1, <1>10 DEF IInv, NothingLost, Kept
  <1>13. ListedOnce'
    BY <1>1, <1>8 DEF IInv, ListedOnce, Deletes
  <1>14. SlotsCounted'
    BY <1>1, <1>8, SlotsStay DEF IInv, Deletes
  <1>15. Wallets'
    <2>1. Grown(s)
      BY <1>1, <1>8, <1>10 DEF Grown, Deletes
    <2> QED
      BY <1>0, <1>1, <1>10, <2>1, WalletsStep
  <1>16. Current'
    <2>1. CASE ud'.current = ud.current /\ torn'
      BY <1>0, <1>1, <1>8, <2>1, CurrentStays DEF Deletes
    <2>2. CASE ud'.current = None
      BY <2>2 DEF Current
    <2>3. ASSUME NEW h \in Listed(ud'), ud'.info[h] # None, ud'.current = AccountOf(ud', h)
          PROVE  Current'
      <3>1. h \in Store /\ ud' \in Defaults
        BY <1>8, <1>10 DEF Deletes
      <3>2. ~torn' => AddressOf[h] \in ud'.pubKeys
        BY <1>10, <1>15 DEF Wallets
      <3> QED
        BY <2>3, <3>1, <3>2, CurrentIs
    <2> QED
      BY <1>8, <2>1, <2>2, <2>3
  <1>17. Pages'
    BY <1>9, PagesAtMain
  <1> QED
    BY <1>11, <1>12, <1>13, <1>14, <1>15, <1>16, <1>17 DEF IInv

-----------------------------------------------------------------------------
\* Recovering wallets, or removing them for good.

\* The wallets that can be recovered, without one of them.
LEMMA RecoverLeft ==
    ASSUME NEW d \in Defaults, NEW s \in Store
    PROVE  LET e == [d EXCEPT !.recover = Others(@, s)]
           IN  RecoverWritten(d, e) /\ ToSet(e.recover) = ToSet(d.recover) \ {s}
  <1> DEFINE r == Others(d.recover, s)
  <1>1. d.recover \in Seq(Store) /\ ToSet(d.recover) \subseteq Store
    BY KeptInStore DEF Defaults
  <1>2. r \in Seq(Store) /\ ToSet(r) = ToSet(d.recover) \ {s}
    BY <1>1, OnlyFacts DEF Others
  <1> HIDE DEF r
  <1>3. LET e == [d EXCEPT !.recover = r]
        IN  RecoverWritten(d, e) /\ e.recover = r
    BY <1>2, RecoverFields
  <1> QED
    BY <1>2, <1>3 DEF r

LEMMA RecoverStep ==
    ASSUME IInv, NEW s \in Store, Recover(s)
    PROVE  IInv'
  <1> DEFINE listed == IF s \in ToSet(ListOf(ud, s)) THEN ud ELSE Listing(ud, s)
             final  == [listed EXCEPT !.recover = Others(@, s)]
  <1>0. /\ Typed /\ ud \in Defaults /\ torn \in BOOLEAN /\ app \in Memory
        /\ Current /\ Wallets /\ Pages
    BY DEF IInv, Typed
  <1>1. /\ s \in ToSet(ud.recover)
        /\ Handler({listed}, final, app)
        /\ owned' = owned \cup Listed(ud') /\ UNCHANGED <<made, crossed>>
    BY DEF Recover, Owns
  <1> DEFINE Same(e) == /\ e \in Defaults
                        /\ Listed(e) = Listed(ud) \cup {s}
                        /\ e.addresses = ud.addresses /\ e.info = ud.info
                        /\ e.pubKeys = ud.pubKeys /\ e.current = ud.current
                        /\ e.draft = ud.draft /\ e.slot = ud.slot
                        /\ \A t \in Store : Repeated(ListOf(e, t), t) =>
                                               Repeated(ListOf(ud, t), t)
                        /\ ToSet(ud.recover) \ {s} \subseteq ToSet(e.recover)
                        /\ ToSet(e.recover) \subseteq ToSet(ud.recover)
  <1>2. Same(listed)
    <2>1. CASE s \in ToSet(ListOf(ud, s))
      <3>1. s \in Listed(ud)
        BY <1>0, <2>1, InList
      <3> QED
        BY <1>0, <2>1, <3>1
    <2>2. CASE s \notin ToSet(ListOf(ud, s))
      <3>1. listed = Listing(ud, s)
        BY <2>2
      <3> HIDE DEF listed
      <3> QED
        BY <1>0, <2>2, <3>1, ListingFields
    <2> QED
      BY <2>1, <2>2
  <1> HIDE DEF listed
  <1>3. Same(final)
    <2>1. RecoverWritten(listed, final) /\ ToSet(final.recover) = ToSet(listed.recover) \ {s}
      BY <1>2, RecoverLeft
    <2> HIDE DEF final
    <2>2. Listed(final) = Listed(listed) /\ \A t : ListOf(final, t) = ListOf(listed, t)
      BY <2>1, SameListsFacts DEF RecoverWritten
    <2> QED
      BY <1>2, <2>1, <2>2 DEF RecoverWritten
  <1> HIDE DEF final
  <1>4. /\ Same(ud') /\ app' \in {app, Launched}
        /\ torn' \in BOOLEAN /\ (torn => torn')
    BY <1>0, <1>1, <1>2, <1>3, HandlerOutcome
  <1>5. Kept(ud') = Kept(ud) /\ Listed(ud') \subseteq Kept(ud') /\ Kept(ud') \subseteq Store
    BY <1>1, <1>4, KeptInStore DEF Kept
  <1>6. Quiet
    BY <1>0, <1>4, LaunchedFacts DEF Quiet
  <1>7. Typed'
    BY <1>0, <1>1, <1>4, <1>5, <1>6 DEF Typed, Quiet
  <1>8. NothingLost'
    BY <1>1, <1>5 DEF IInv, NothingLost, Kept
  <1>9. ListedOnce'
    BY <1>1, <1>4 DEF IInv, ListedOnce
  <1>10. SlotsCounted'
    BY <1>1, <1>4, SlotsStay DEF IInv
  <1>11. Wallets'
    <2>1. Grown(s)
      BY <1>1, <1>4, <1>5 DEF Grown
    <2> QED
      BY <1>0, <1>1, <1>5, <2>1, WalletsStep
  <1>12. Current'
    BY <1>0, <1>1, <1>4, CurrentStays
  <1>13. Pages'
    BY <1>0, <1>1, <1>4, <1>6, PagesStep
  <1> QED
    BY <1>7, <1>8, <1>9, <1>10, <1>11, <1>12, <1>13 DEF IInv

LEMMA RemoveStep ==
    ASSUME IInv, NEW s \in Store, RemoveForever(s)
    PROVE  IInv'
  <1>0. Typed /\ ud \in Defaults /\ app \in Memory /\ Current /\ Wallets /\ Pages
    BY DEF IInv, Typed
  <1>1. /\ ud' = [ud EXCEPT !.recover = Others(@, s)]
        /\ owned' = (owned \ {s}) \cup Listed(ud)
        /\ UNCHANGED <<app, made, torn, crossed>>
    BY DEF RemoveForever
  <1>2. RecoverWritten(ud, ud') /\ ToSet(ud'.recover) = ToSet(ud.recover) \ {s}
    BY <1>0, <1>1, RecoverLeft
  <1>3. Listed(ud') = Listed(ud) /\ \A t : ListOf(ud', t) = ListOf(ud, t)
    BY <1>2, SameListsFacts DEF RecoverWritten
  <1>4. Kept(ud') \subseteq Kept(ud) /\ Listed(ud') \subseteq Kept(ud') /\ Kept(ud') \subseteq Store
    BY <1>2, <1>3, KeptInStore DEF Kept, RecoverWritten
  <1>5. Quiet
    BY <1>0, <1>1 DEF Quiet
  <1>6. Typed'
    BY <1>0, <1>1, <1>2, <1>3, <1>4 DEF Typed, RecoverWritten
  <1>7. NothingLost'
    BY <1>1, <1>2, <1>3 DEF IInv, NothingLost
  <1>8. ListedOnce'
    BY <1>1, <1>3 DEF IInv, ListedOnce
  <1>9. SlotsCounted'
    BY <1>1, <1>2, SlotsStay DEF IInv, RecoverWritten
  <1>10. Wallets'
    <2>1. Grown(s)
      BY <1>1, <1>2, <1>4 DEF Grown, RecoverWritten
    <2> QED
      BY <1>0, <1>4, <2>1, WalletsStep
  <1>11. Current'
    BY <1>0, <1>1, <1>2, <1>3, CurrentStays DEF RecoverWritten
  <1>12. Pages'
    BY <1>0, <1>1, <1>2, <1>3, <1>5, PagesStep DEF RecoverWritten
  <1> QED
    BY <1>6, <1>7, <1>8, <1>9, <1>10, <1>11, <1>12 DEF IInv

-----------------------------------------------------------------------------
\* The theorems.

LEMMA InitIInv == Init => IInv
  <1> SUFFICES ASSUME Init PROVE IInv
    OBVIOUS
  <1>1. /\ ud.mnemonics = <<>> /\ ud.keys = <<>> /\ ud.recover = <<>>
        /\ ud.current = None
        /\ ud \in Defaults
    BY MaxSlotAssumption DEF Init, NothingStored, Defaults
  <1>2. /\ ToSet(ud.mnemonics) = {} /\ ToSet(ud.keys) = {} /\ ToSet(ud.recover) = {}
    BY <1>1 DEF ToSet
  <1>3. Kept(ud) = {} /\ Listed(ud) = {}
    BY <1>2 DEF Kept, Listed
  <1>4. app \in Memory /\ app.page = "main" /\ app.detail = None /\ app.over = None
    BY LaunchedFacts DEF Init
  <1>5. Typed
    BY <1>1, <1>4 DEF Typed, Init
  <1>6. NothingLost /\ SlotsCounted /\ Wallets /\ Current
    BY <1>1, <1>3 DEF Init, NothingLost, SlotsCounted, Wallets, Current
  <1>7. ListedOnce
    BY <1>1 DEF ListedOnce, Repeated, ListOf
  <1>8. Pages
    BY <1>4 DEF Pages, WalletPages
  <1> QED
    BY <1>5, <1>6, <1>7, <1>8 DEF IInv

LEMMA StepIInv == IInv /\ [Next]_vars => IInv'
  <1> SUFFICES ASSUME IInv, [Next]_vars PROVE IInv'
    OBVIOUS
  <1>1. CASE \E n \in Name, p \in Passcode, m \in Mnemonic : CreateClicked(n, p, m)
    BY <1>1, CreateStep
  <1>2. CASE ConfirmCreated
    BY <1>2, ConfirmStep
  <1>3. CASE \E s \in Store, p \in Passcode : ImportStore(s, p)
    BY <1>3, ImportStoreStep
  <1>4. CASE \E t \in Tap, k \in Key, p \in Passcode : KeystoreTapped(t, k, p)
    BY <1>4, TappedStep
  <1>5. CASE \E t \in Tap : KeystoreDecrypted(t) \/ KeystoreFails(t)
    BY <1>5, KeystoreStep, FailsStep
  <1>6. CASE \E s \in Store : Select(s) \/ OpenDetail(s)
    BY <1>6, SelectStep, OpenDetailStep
  <1>7. CASE Back
    BY <1>7, BackStep
  <1>8. CASE Delete
    BY <1>8, DeleteStep
  <1>9. CASE \E n \in Name : Rename(n)
    BY <1>9, RenameStep
  <1>10. CASE OpenPasscode
    BY <1>10, OpenPasscodeStep
  <1>11. CASE PasscodeRefused
    BY <1>11, RefusedStep
  <1>12. CASE \E p \in Passcode : ChangePasscode(p)
    BY <1>12, ChangePasscodeStep
  <1>13. CASE OpenSubAccount
    BY <1>13, OpenSubAccountStep
  <1>14. CASE \E p \in Passcode : Generate(p)
    BY <1>14, GenerateStep
  <1>15. CASE \E s \in Store : Recover(s) \/ RemoveForever(s)
    BY <1>15, RecoverStep, RemoveStep
  <1>16. CASE Restart
    BY <1>16, RestartStep
  <1>17. CASE UNCHANGED vars
    <2>1. UNCHANGED <<ud, app, owned, made, torn, crossed>>
      BY <1>17 DEF vars
    <2>2. Quiet
      BY <2>1 DEF IInv, Typed, Quiet
    <2> QED
      BY <2>1, <2>2, QuietPage
  <1> QED
    BY <1>1, <1>2, <1>3, <1>4, <1>5, <1>6, <1>7, <1>8, <1>9, <1>10, <1>11, <1>12,
       <1>13, <1>14, <1>15, <1>16, <1>17 DEF Next

LEMMA Invariant == Spec => []IInv
  BY InitIInv, StepIInv, PTL DEF Spec

\* What is stored and what the pages hold always has its type: no handler writes
\* the name or passcode of a wallet that has none.
THEOREM TypeCorrect == Spec => []TypeOK
  <1>1. IInv => TypeOK
    BY TypedIsTypeOK DEF IInv
  <1> QED
    BY <1>1, Invariant, PTL

\* A wallet that was listed once is listed or can be recovered until the user
\* removes it for good, whatever the order of the handlers and wherever in their
\* writes the app was killed.
THEOREM Safekeeping == Spec => []NothingLost
  <1>1. IInv => NothingLost
    BY DEF IInv
  <1> QED
    BY <1>1, Invariant, PTL

\* Two wallets of one account are listed only when one was created or generated
\* here.
THEOREM ImportedOnce == Spec => []OneWalletPerAccount
  <1>1. IInv => OneWalletPerAccount
    BY DEF IInv, Wallets, OneWalletPerAccount, Kept
  <1> QED
    BY <1>1, Invariant, PTL

\* A list holds a wallet once, but for a sub account's key that was imported before, or
\* generated for one wallet on a page of another: wherever the app is killed, and however
\* often wallets are deleted and recovered.
THEOREM NoDoubles == Spec => []ListedOnce
  <1>1. IInv => ListedOnce
    BY DEF IInv
  <1> QED
    BY <1>1, Invariant, PTL

\* What the pages unwrap is there unless the app was killed in a handler.
THEOREM PagesDoOpen == Spec => []PagesOpen
  <1>1. IInv => PagesOpen
    BY DEF IInv, Wallets, Current, PagesOpen, MainOpens, Kept
  <1> QED
    BY <1>1, Invariant, PTL

\* The account shown is a listed wallet unless the app was killed in a handler.
THEOREM ShownIsListed == Spec => []CurrentListed
  <1>1. IInv => CurrentListed
    BY DEF IInv, Current, CurrentListed
  <1> QED
    BY <1>1, Invariant, PTL

\* It is shown with its wallet's name and address unless a page opened for one
\* wallet acted while another was current.
THEOREM ShownAsStored == Spec => []CurrentShown
  <1>1. IInv => CurrentShown
    <2> SUFFICES ASSUME IInv, ~torn, ~crossed, ud.current # None
                 PROVE  ud.current = AccountOf(ud, ud.current.store)
      BY DEF CurrentShown
    <2>1. /\ ud.current.address = AddressOf[ud.current.store]
          /\ ud.current.name = ud.info[ud.current.store].name
          /\ ud.current \in Account
      BY DEF IInv, Current, Typed, Defaults
    <2> QED
      BY <2>1 DEF Account, AccountOf
  <1> QED
    BY <1>1, Invariant, PTL

\* The slots of a wallet's sub accounts are counted, so that none is derived twice.
THEOREM NoSlotTwice == Spec => []SlotsCounted
  <1>1. IInv => SlotsCounted
    BY DEF IInv
  <1> QED
    BY <1>1, Invariant, PTL

=============================================================================
