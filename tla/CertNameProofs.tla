---------------------------- MODULE CertNameProofs ----------------------------
(***************************************************************************)
(* For every subject parse_name stays inside what it has allocated.  The      *)
(* argument is a count: what is written is behind what is read, and an        *)
(* element takes two characters of the subject at least.                      *)
(*                                                                          *)
(* For every list of elements, what is spelled is read back, and of a subject *)
(* without escapes nothing is lost.  The arguments follow the read pointer:   *)
(* what is ahead of it spells the rest of the list, and what is behind it is  *)
(* spelled by what was read.                                                 *)
(***************************************************************************)
EXTENDS CertName, SequenceTheorems, WellFoundedInduction, TLAPS

\* What is written is two characters behind what is read, an entry of mval is set for
\* every element and the one being read, and an element begun has been paid for by
\* two characters for each one before, and a "=" of its own once its value is read.
Counted ==
    Collecting =>
        /\ bp <= sp - 2
        /\ mvals = Len(elements) + 1
        /\ sp >= 2 * Len(elements) + 2
        /\ state = "value" => sp >= 2 * Len(elements) + 3

AtStart == state = "start" => sp = 1 /\ bp = 0 /\ mvals = 0 /\ elements = <<>>

IInv == TypeOK /\ InBounds /\ Counted /\ AtStart

LEMMA InitIInv == Init => IInv
  <1> SUFFICES ASSUME Init PROVE IInv
    OBVIOUS
  <1>1. subject \in Text /\ meant \in Seq(Element) \cup {None}
    BY CertNameAssumption DEF Init
  <1>2. Len(subject) \in Nat
    BY <1>1 DEF Text
  <1> QED
    BY <1>1, <1>2 DEF Init, IInv, TypeOK, InBounds, Counted, AtStart, State, Text, Collecting, BufLen, MaxNe

\* A step that only moves to a state where nothing is collected.
LEMMA StopKeeps ==
    ASSUME IInv, NEW reason \in {"malformed", "no memory", "named"}, Stop(reason)
    PROVE  IInv'
  BY DEF IInv, TypeOK, InBounds, Counted, AtStart, State, Stop, Collecting, BufLen, MaxNe, parsing

LEMMA StartKeeps == ASSUME IInv, Start PROVE IInv'
  <1>1. Len(subject) \in Nat
    BY DEF IInv, TypeOK, Text
  <1> QED
    BY <1>1 DEF IInv, TypeOK, InBounds, Counted, AtStart, State, Start, More, NextElement, Collecting, BufLen, MaxNe

LEMMA CollectKeeps == ASSUME IInv, Collect PROVE IInv'
  <1>1. /\ Len(subject) \in Nat /\ Len(elements) \in Nat
        /\ sp \in Nat /\ bp \in Nat /\ sp >= 1
    BY DEF IInv, TypeOK, Text, Counted, Collect
  <1>2. PICK c \in Char, n \in {1, 2} : Copy(c, n) /\ sp + n <= Len(subject) + 1
    <2>1. CASE subject[sp] = "\\" /\ sp < Len(subject) /\ Copy(subject[sp + 1], 2)
      <3>1. subject[sp + 1] \in Char
        BY <1>1, <2>1 DEF IInv, TypeOK, Text
      <3> QED
        BY <1>1, <2>1, <3>1
    <2>2. CASE subject[sp] \notin {"\\", Delimiter[state]} /\ Copy(subject[sp], 1)
      <3>1. subject[sp] \in Char
        BY <1>1, <2>2 DEF IInv, TypeOK, Text, Collect, More
      <3> QED
        BY <1>1, <2>2, <3>1 DEF Collect, More
    <2> QED
      BY <2>1, <2>2 DEF Collect
  <1>3. Append(type, c) \in Text /\ Append(value, c) \in Text
    BY DEF IInv, TypeOK, Text
  <1>4. TypeOK'
    BY <1>1, <1>2, <1>3 DEF IInv, TypeOK, Copy, Collect
  <1>5. InBounds' /\ Counted' /\ AtStart'
    BY <1>1, <1>2 DEF IInv, TypeOK, InBounds, Counted, AtStart, Copy, Collect, Collecting, BufLen, MaxNe
  <1> QED
    BY <1>4, <1>5 DEF IInv

LEMMA TypeEndsKeeps == ASSUME IInv, TypeEnds PROVE IInv'
  <1>1. /\ Len(subject) \in Nat /\ Len(elements) \in Nat
        /\ sp \in Nat /\ bp \in Nat
    BY DEF IInv, TypeOK, Text
  <1>2. TypeOK'
    BY <1>1 DEF IInv, TypeOK, TypeEnds, State
  <1>3. InBounds' /\ Counted' /\ AtStart'
    BY <1>1 DEF IInv, TypeOK, InBounds, Counted, AtStart, TypeEnds, More, Collecting, BufLen, MaxNe
  <1> QED
    BY <1>2, <1>3 DEF IInv

LEMMA ValueEndsKeeps == ASSUME IInv, ValueEnds PROVE IInv'
  <1>1. /\ Len(subject) \in Nat /\ Len(elements) \in Nat
        /\ sp \in Nat /\ bp \in Nat /\ mvals \in Nat
    BY DEF IInv, TypeOK, Text
  <1>2. [type |-> type, value |-> value] \in Element
    BY DEF IInv, TypeOK, Element
  <1>3. elements' \in Seq(Element) /\ Len(elements') = Len(elements) + 1
    BY <1>2 DEF IInv, TypeOK, ValueEnds
  <1>4. TypeOK'
    BY <1>1, <1>3 DEF IInv, TypeOK, ValueEnds, State, NextElement, Text
  <1>5. InBounds' /\ Counted' /\ AtStart'
    BY <1>1, <1>3 DEF IInv, InBounds, Counted, AtStart, ValueEnds, More, NextElement, Collecting, BufLen, MaxNe
  <1> QED
    BY <1>4, <1>5 DEF IInv

LEMMA AddEntryKeeps == ASSUME IInv, AddEntry PROVE IInv'
  <1>1. name' \in Seq(Element)
    BY DEF IInv, TypeOK, AddEntry
  <1>2. TypeOK'
    BY <1>1 DEF IInv, TypeOK, AddEntry, parsing
  <1>3. InBounds' /\ Counted' /\ AtStart'
    BY DEF IInv, InBounds, Counted, AtStart, AddEntry, Collecting, BufLen, MaxNe, parsing
  <1> QED
    BY <1>2, <1>3 DEF IInv

LEMMA RequestKeeps == ASSUME IInv, Request PROVE IInv'
  <1>1. csr' \in Seq(Element)
    <2>1. CASE csr' = name
      BY <2>1 DEF IInv, TypeOK
    <2>2. CASE csr' = <<>>
      BY <2>2
    <2> QED
      BY <2>1, <2>2 DEF Request
  <1> QED
    BY <1>1 DEF IInv, TypeOK, InBounds, Counted, AtStart, Request, Collecting, BufLen, MaxNe, parsing

LEMMA StepIInv == IInv /\ [Next]_vars => IInv'
  <1> SUFFICES ASSUME IInv, [Next]_vars PROVE IInv'
    OBVIOUS
  <1>1. CASE Start
    BY <1>1, StartKeeps
  <1>2. CASE NoSlash \/ TrailingEscape \/ NoValue
    BY <1>2, StopKeeps DEF NoSlash, TrailingEscape, NoValue
  <1>3. CASE NoMemory
    BY <1>3, StopKeeps DEF NoMemory
  <1>4. CASE Collect
    BY <1>4, CollectKeeps
  <1>5. CASE TypeEnds
    BY <1>5, TypeEndsKeeps
  <1>6. CASE ValueEnds
    BY <1>6, ValueEndsKeeps
  <1>7. CASE AddEntry
    BY <1>7, AddEntryKeeps
  <1>8. CASE Named
    BY <1>8, StopKeeps DEF Named
  <1>9. CASE Request
    BY <1>9, RequestKeeps
  <1>10. CASE UNCHANGED vars
    BY <1>10 DEF vars, parsing, IInv, TypeOK, InBounds, Counted, AtStart, Collecting, BufLen, MaxNe
  <1> QED
    BY <1>1, <1>2, <1>3, <1>4, <1>5, <1>6, <1>7, <1>8, <1>9, <1>10 DEF Next

\* Every variable of parse_name and GenCSR keeps its type.
THEOREM TypeCorrect == Spec => []TypeOK
  BY InitIInv, StepIInv, PTL DEF Spec, IInv

\* parse_name writes only to what it has allocated, whatever the subject.
THEOREM StaysInBounds == Spec => []InBounds
  BY InitIInv, StepIInv, PTL DEF Spec, IInv

-----------------------------------------------------------------------------
\* FlattenSeq.

Less == {p \in Nat \X Nat : p[1] < p[2]}

LEMMA SmallestOf ==
    ASSUME NEW T \in SUBSET Nat, T # {}
    PROVE  \E n \in T : \A m \in T : n <= m
  <1>1. IsWellFoundedOn(Less, Nat)
    <2>1. Less = OpToRel(<, Nat)
      BY DEF Less, OpToRel
    <2> QED
      BY <2>1, NatLessThanWellFounded, Zenon
  <1>2. PICK n \in T : \A m \in T : <<m, n>> \notin Less
    BY <1>1, WFMin, Zenon
  <1>3. \A m \in T : ~(m < n)
    BY <1>2 DEF Less
  <1> QED
    BY <1>2, <1>3

\* The function that FlattenSeq is defined by, up to n.
Joins(f, seqs, n) ==
    f = [i \in 1..n |-> IF i = 1 THEN seqs[i] ELSE f[i - 1] \o seqs[i]]

LEMMA JoinsExists ==
    ASSUME NEW seqs, NEW len \in Nat
    PROVE  \E f : Joins(f, seqs, len)
  <1> DEFINE T == {n \in Nat : ~ \E f : Joins(f, seqs, n)}
  <1> SUFFICES ASSUME T # {} PROVE FALSE
    OBVIOUS
  <1>1. PICK n \in T : \A m \in T : n <= m
    <2>1. T \in SUBSET Nat
      OBVIOUS
    <2> HIDE DEF T
    <2> QED
      BY <2>1, SmallestOf
  <1>2. n \in Nat /\ ~ \E f : Joins(f, seqs, n)
    BY <1>1
  <1>3. n # 0
    <2> DEFINE e == [i \in 1..0 |-> <<>>]
    <2>1. e = [i \in 1..0 |-> IF i = 1 THEN seqs[i] ELSE e[i - 1] \o seqs[i]]
      OBVIOUS
    <2> HIDE DEF e
    <2>2. Joins(e, seqs, 0)
      BY <2>1 DEF Joins
    <2> QED
      BY <1>2, <2>2
  <1>4. n - 1 \in Nat /\ n - 1 \notin T
    BY <1>1, <1>2, <1>3
  <1>5. PICK g : Joins(g, seqs, n - 1)
    BY <1>4
  <1> DEFINE f == [i \in 1..n |-> IF i = n
                                  THEN IF i = 1 THEN seqs[i] ELSE g[i - 1] \o seqs[i]
                                  ELSE g[i]]
             e == [i \in 1..n |-> IF i = 1 THEN seqs[i] ELSE f[i - 1] \o seqs[i]]
  <1>6. ASSUME NEW i \in 1..n PROVE f[i] = e[i]
    <2>1. i # 1 => f[i - 1] = g[i - 1]
      BY <1>2, <1>3
    <2>2. i # n => g[i] = IF i = 1 THEN seqs[i] ELSE g[i - 1] \o seqs[i]
      <3>1. i # n => i \in 1..(n - 1)
        BY <1>2, <1>3
      <3> QED
        BY <1>5, <3>1 DEF Joins
    <2> QED
      BY <2>1, <2>2
  <1>7. f = e
    BY <1>6
  <1> HIDE DEF f
  <1>8. Joins(f, seqs, n)
    BY <1>7 DEF Joins
  <1> QED
    BY <1>2, <1>8

\* One more sequence at the end leaves the function as it was before.
LEMMA JoinsAgree ==
    ASSUME NEW f, NEW g, NEW s, NEW t, NEW n \in Nat,
           Joins(f, s, n), Joins(g, t, n + 1), \A i \in 1..n : s[i] = t[i]
    PROVE  \A i \in 1..n : f[i] = g[i]
  <1> DEFINE T == {i \in 1..n : f[i] # g[i]}
  <1> SUFFICES ASSUME T # {} PROVE FALSE
    OBVIOUS
  <1>1. PICK i \in T : \A j \in T : i <= j
    <2>1. T \in SUBSET Nat
      OBVIOUS
    <2> HIDE DEF T
    <2> QED
      BY <2>1, SmallestOf
  <1>2. i \in 1..n /\ i \in 1..(n + 1) /\ s[i] = t[i] /\ f[i] # g[i]
    BY <1>1
  <1>3. /\ f[i] = IF i = 1 THEN s[i] ELSE f[i - 1] \o s[i]
        /\ g[i] = IF i = 1 THEN t[i] ELSE g[i - 1] \o t[i]
    BY <1>2 DEF Joins
  <1>4. i # 1 => f[i - 1] = g[i - 1]
    <2>1. i # 1 => i - 1 \in 1..n /\ i - 1 \notin T
      BY <1>1, <1>2
    <2> QED
      BY <2>1
  <1> QED
    BY <1>2, <1>3, <1>4

LEMMA JoinsTyped ==
    ASSUME NEW S, NEW seqs \in Seq(Seq(S)), NEW f, Joins(f, seqs, Len(seqs))
    PROVE  \A i \in 1..Len(seqs) : f[i] \in Seq(S)
  <1> DEFINE T == {i \in 1..Len(seqs) : f[i] \notin Seq(S)}
  <1> SUFFICES ASSUME T # {} PROVE FALSE
    OBVIOUS
  <1>1. PICK i \in T : \A j \in T : i <= j
    <2>1. T \in SUBSET Nat
      OBVIOUS
    <2> HIDE DEF T
    <2> QED
      BY <2>1, SmallestOf
  <1>2. i \in 1..Len(seqs) /\ seqs[i] \in Seq(S) /\ f[i] \notin Seq(S)
    BY <1>1
  <1>3. f[i] = IF i = 1 THEN seqs[i] ELSE f[i - 1] \o seqs[i]
    BY <1>2 DEF Joins
  <1>4. i # 1 => f[i - 1] \in Seq(S)
    <2>1. i # 1 => i - 1 \in 1..Len(seqs) /\ i - 1 \notin T
      BY <1>1, <1>2
    <2> QED
      BY <2>1
  <1> QED
    BY <1>2, <1>3, <1>4

LEMMA FlattenEmpty == FlattenSeq(<<>>) = <<>>
  BY DEF FlattenSeq

LEMMA FlattenJoins ==
    ASSUME NEW S, NEW seqs \in Seq(Seq(S)), Len(seqs) # 0
    PROVE  \E f : Joins(f, seqs, Len(seqs)) /\ FlattenSeq(seqs) = f[Len(seqs)]
  <1> DEFINE f == CHOOSE flatten : Joins(flatten, seqs, Len(seqs))
  <1>1. Joins(f, seqs, Len(seqs))
    <2>1. Len(seqs) \in Nat
      OBVIOUS
    <2>2. \E g : Joins(g, seqs, Len(seqs))
      BY <2>1, JoinsExists
    <2> QED
      BY <2>2, Zenon
  <1>2. FlattenSeq(seqs) = f[Len(seqs)]
    BY DEF FlattenSeq, Joins
  <1> QED
    BY <1>1, <1>2

LEMMA FlattenTyped ==
    ASSUME NEW S, NEW seqs \in Seq(Seq(S))
    PROVE  FlattenSeq(seqs) \in Seq(S)
  <1>1. CASE Len(seqs) = 0
    <2>1. FlattenSeq(seqs) = <<>>
      <3>1. seqs = <<>>
        BY <1>1
      <3> QED
        BY <3>1, FlattenEmpty, Zenon
    <2>2. <<>> \in Seq(S)
      OBVIOUS
    <2> QED
      BY <2>1, <2>2
  <1>2. CASE Len(seqs) # 0
    <2>1. PICK f : Joins(f, seqs, Len(seqs)) /\ FlattenSeq(seqs) = f[Len(seqs)]
      BY <1>2, FlattenJoins
    <2>2. f[Len(seqs)] \in Seq(S)
      BY <1>2, <2>1, JoinsTyped
    <2> QED
      BY <2>1, <2>2
  <1> QED
    BY <1>1, <1>2

LEMMA FlattenAppend ==
    ASSUME NEW S, NEW seqs \in Seq(Seq(S)), NEW s \in Seq(S)
    PROVE  FlattenSeq(Append(seqs, s)) = FlattenSeq(seqs) \o s
  <1> DEFINE more == Append(seqs, s)
             n == Len(seqs)
  <1>1. /\ more \in Seq(Seq(S)) /\ n \in Nat /\ Len(more) = n + 1 /\ more[n + 1] = s
        /\ \A i \in 1..n : seqs[i] = more[i]
    OBVIOUS
  <1> HIDE DEF more, n
  <1>2. PICK g : Joins(g, more, n + 1) /\ FlattenSeq(more) = g[n + 1]
    <2>1. Len(more) # 0
      BY <1>1
    <2>2. \E g : Joins(g, more, Len(more)) /\ FlattenSeq(more) = g[Len(more)]
      BY <1>1, <2>1, FlattenJoins
    <2> QED
      BY <1>1, <2>2
  <1>3. g[n + 1] = IF n = 0 THEN s ELSE g[n] \o s
    <2>1. n + 1 \in 1..(n + 1) /\ (n + 1) - 1 = n /\ (n + 1 = 1 <=> n = 0)
      BY <1>1
    <2>2. g = [i \in 1..(n + 1) |-> IF i = 1 THEN more[i] ELSE g[i - 1] \o more[i]]
      BY <1>2 DEF Joins
    <2>3. g[n + 1] = IF n + 1 = 1 THEN more[n + 1] ELSE g[(n + 1) - 1] \o more[n + 1]
      BY <2>1, <2>2
    <2> QED
      BY <1>1, <2>1, <2>3
  <1>4. CASE n = 0
    <2>1. seqs = <<>>
      BY <1>4 DEF n
    <2>2. <<>> \o s = s
      OBVIOUS
    <2>3. FlattenSeq(seqs) = <<>>
      BY <2>1, FlattenEmpty, Zenon
    <2> QED
      BY <1>2, <1>3, <1>4, <2>2, <2>3 DEF more
  <1>5. CASE n # 0
    <2>1. PICK f : Joins(f, seqs, n) /\ FlattenSeq(seqs) = f[n]
      BY <1>5, FlattenJoins DEF n
    <2>2. \A i \in 1..n : f[i] = g[i]
      <3>1. n \in Nat /\ \A i \in 1..n : seqs[i] = more[i]
        BY <1>1
      <3> QED
        BY <1>2, <2>1, <3>1, JoinsAgree
    <2>3. f[n] = g[n]
      BY <1>1, <1>5, <2>2
    <2> QED
      BY <1>2, <1>3, <1>5, <2>1, <2>3 DEF more
  <1> QED
    BY <1>4, <1>5

\* The same from the front.
LEMMA FlattenCons ==
    ASSUME NEW S, NEW s \in Seq(S), NEW seqs \in Seq(Seq(S))
    PROVE  FlattenSeq(<<s>> \o seqs) = s \o FlattenSeq(seqs)
  <1> DEFINE T == {n \in Nat : \E q \in Seq(Seq(S)) :
                       Len(q) = n /\ FlattenSeq(<<s>> \o q) # s \o FlattenSeq(q)}
  <1> SUFFICES ASSUME T # {} PROVE FALSE
    OBVIOUS
  <1>1. PICK n \in T : \A m \in T : n <= m
    <2>1. T \in SUBSET Nat
      OBVIOUS
    <2> HIDE DEF T
    <2> QED
      BY <2>1, SmallestOf
  <1>2. PICK q \in Seq(Seq(S)) : Len(q) = n /\ FlattenSeq(<<s>> \o q) # s \o FlattenSeq(q)
    BY <1>1
  <1> HIDE DEF T
  <1>3. n \in Nat /\ n # 0
    <2> SUFFICES ASSUME n = 0 PROVE FALSE
      BY <1>2
    <2>1. q = <<>>
      BY <1>2
    <2>2. <<s>> \o q = Append(<<>>, s)
      BY <2>1
    <2>3. FlattenSeq(Append(<<>>, s)) = FlattenSeq(<<>>) \o s
      <3>1. <<>> \in Seq(Seq(S))
        OBVIOUS
      <3> QED
        BY <3>1, FlattenAppend
    <2>4. <<>> \o s = s /\ s \o <<>> = s
      OBVIOUS
    <2>5. FlattenSeq(<<s>> \o q) = s
      BY <2>2, <2>3, <2>4, FlattenEmpty
    <2>6. s \o FlattenSeq(q) = s
      BY <2>1, <2>4, FlattenEmpty
    <2> QED
      BY <1>2, <2>5, <2>6
  <1> DEFINE p == SubSeq(q, 1, n - 1)
             e == q[n]
  <1>4. p \in Seq(Seq(S)) /\ e \in Seq(S) /\ Len(p) = n - 1 /\ q = Append(p, e)
    <2>1. n \in 1..Len(q) /\ Len(q) \in Nat
      BY <1>2, <1>3
    <2>2. p \in Seq(Seq(S)) /\ Len(p) = n - 1 /\ \A i \in 1..(n - 1) : p[i] = q[i]
      BY <2>1, <1>2
    <2>3. e \in Seq(S)
      BY <2>1
    <2> HIDE DEF p
    <2>4. Append(p, e) \in Seq(Seq(S)) /\ Len(Append(p, e)) = n
      BY <2>1, <2>2, <2>3
    <2>5. ASSUME NEW i \in 1..n PROVE Append(p, e)[i] = q[i]
      <3>1. CASE i = n
        BY <2>1, <2>2, <2>3, <3>1
      <3>2. CASE i # n
        <4>1. i \in 1..(n - 1)
          BY <3>2, <1>3
        <4>2. Append(p, e)[i] = p[i]
          BY <4>1, <2>2, <2>3
        <4> QED
          BY <4>1, <4>2, <2>2
      <3> QED
        BY <3>1, <3>2
    <2> HIDE DEF e
    <2> QED
      BY <1>2, <2>2, <2>3, <2>4, <2>5, SeqEqual
  <1> HIDE DEF p, e
  <1>5. FlattenSeq(<<s>> \o p) = s \o FlattenSeq(p)
    <2>1. n - 1 \in Nat
      BY <1>3
    <2>2. n - 1 \notin T
      BY <1>1, <1>3, <2>1
    <2> QED
      BY <1>4, <2>1, <2>2 DEF T
  <1>6. <<s>> \o p \in Seq(Seq(S))
    BY <1>4
  <1>7. <<s>> \o q = Append(<<s>> \o p, e)
    <2>1. Append(<<s>> \o p, e) \in Seq(Seq(S)) /\ <<s>> \o q \in Seq(Seq(S))
      BY <1>2, <1>4, <1>6
    <2>2. Len(Append(<<s>> \o p, e)) = n + 1 /\ Len(<<s>> \o q) = n + 1
      BY <1>2, <1>3, <1>4, <1>6
    <2>3. ASSUME NEW i \in 1..(n + 1) PROVE (<<s>> \o q)[i] = Append(<<s>> \o p, e)[i]
      BY <1>2, <1>3, <1>4, <1>6
    <2> QED
      BY <2>1, <2>2, <2>3, SeqEqual
  <1>8. FlattenSeq(p) \in Seq(S)
    BY <1>4, FlattenTyped
  <1>9. FlattenSeq(q) = FlattenSeq(p) \o e
    BY <1>4, FlattenAppend
  <1>10. FlattenSeq(<<s>> \o q) = (s \o FlattenSeq(p)) \o e
    <2>1. FlattenSeq(Append(<<s>> \o p, e)) = FlattenSeq(<<s>> \o p) \o e
      BY <1>4, <1>6, FlattenAppend
    <2> QED
      BY <1>5, <1>7, <2>1
  <1>11. (s \o FlattenSeq(p)) \o e = s \o (FlattenSeq(p) \o e)
    <2> DEFINE r == FlattenSeq(p)
    <2>1. r \in Seq(S)
      BY <1>8
    <2> HIDE DEF r
    <2>2. (s \o r) \o e = s \o (r \o e)
      BY <1>4, <2>1
    <2> QED
      BY <2>2 DEF r
  <1> QED
    BY <1>2, <1>9, <1>10, <1>11

-----------------------------------------------------------------------------
\* Spelling.

Spelt(c) == IF c \in Special THEN <<"\\", c>> ELSE <<c>>

Piece(e) == Escaped(e.type) \o (<<"=">> \o (Escaped(e.value) \o <<"/">>))

Body(list) == FlattenSeq([i \in DOMAIN list |-> Piece(list[i])])

LEMMA SpecialChars == Special \subseteq Char /\ {"/", "=", "\\"} \subseteq Char
  BY CertNameAssumption DEF Special

LEMMA SpeltTyped == ASSUME NEW c \in Char PROVE Spelt(c) \in Text
  BY SpecialChars DEF Spelt, Text

LEMMA EscapedIs ==
    ASSUME NEW text \in Text
    PROVE  /\ Escaped(text) = FlattenSeq([i \in DOMAIN text |-> Spelt(text[i])])
           /\ [i \in DOMAIN text |-> Spelt(text[i])] \in Seq(Seq(Char))
           /\ Escaped(text) \in Text
  <1> DEFINE l == [i \in DOMAIN text |-> Spelt(text[i])]
  <1>1. Escaped(text) = FlattenSeq(l)
    BY DEF Escaped, Spelt
  <1>2. l \in Seq(Seq(Char))
    <2>1. Len(text) \in Nat /\ DOMAIN text = 1..Len(text) /\ \A i \in 1..Len(text) : text[i] \in Char
      BY DEF Text
    <2>2. \A i \in 1..Len(text) : Spelt(text[i]) \in Seq(Char)
      BY <2>1, SpeltTyped DEF Text
    <2> QED
      BY <2>1, <2>2
  <1> HIDE DEF l
  <1>3. Escaped(text) \in Text
    BY <1>1, <1>2, FlattenTyped DEF Text
  <1> QED
    BY <1>1, <1>2, <1>3 DEF l

LEMMA EscapedEmpty == Escaped(<<>>) = <<>>
  <1>1. [i \in DOMAIN <<>> |-> Spelt(<<>>[i])] = <<>>
    OBVIOUS
  <1>2. <<>> \in Text
    BY DEF Text
  <1> QED
    BY <1>1, <1>2, EscapedIs, FlattenEmpty

LEMMA EscapedCons ==
    ASSUME NEW c \in Char, NEW rest \in Text
    PROVE  Escaped(<<c>> \o rest) = Spelt(c) \o Escaped(rest)
  <1> DEFINE all == <<c>> \o rest
             l == [i \in DOMAIN rest |-> Spelt(rest[i])]
             m == [i \in DOMAIN all |-> Spelt(all[i])]
  <1>1. all \in Text
    BY DEF Text
  <1>2. m = <<Spelt(c)>> \o l
    <2>1. /\ Len(rest) \in Nat /\ DOMAIN rest = 1..Len(rest)
          /\ DOMAIN all = 1..(Len(rest) + 1) /\ all[1] = c
          /\ \A i \in 2..(Len(rest) + 1) : all[i] = rest[i - 1]
      BY DEF Text
    <2> HIDE DEF all
    <2>2. l \in Seq(Seq(Char)) /\ m \in Seq(Seq(Char)) /\ Spelt(c) \in Seq(Char)
      BY <1>1, EscapedIs, SpeltTyped DEF Text
    <2>3. Len(l) = Len(rest) /\ Len(m) = Len(rest) + 1
      BY <2>1
    <2>4. ASSUME NEW i \in 1..(Len(rest) + 1) PROVE m[i] = (<<Spelt(c)>> \o l)[i]
      <3>1. CASE i = 1
        BY <2>1, <2>2, <2>3, <3>1
      <3>2. CASE i # 1
        <4>1. i \in 2..(Len(rest) + 1) /\ i - 1 \in 1..Len(rest)
          BY <2>1, <3>2
        <4>2. m[i] = Spelt(rest[i - 1]) /\ l[i - 1] = Spelt(rest[i - 1])
          BY <2>1, <4>1
        <4> HIDE DEF l, m
        <4>3. (<<Spelt(c)>> \o l)[i] = l[i - 1]
          BY <2>1, <2>2, <2>3, <4>1
        <4> QED
          BY <4>2, <4>3
      <3> QED
        BY <3>1, <3>2
    <2> HIDE DEF l, m
    <2>5. <<Spelt(c)>> \o l \in Seq(Seq(Char)) /\ Len(<<Spelt(c)>> \o l) = Len(rest) + 1
      BY <2>1, <2>2, <2>3
    <2> QED
      BY <2>2, <2>3, <2>4, <2>5, SeqEqual
  <1>3. Escaped(all) = FlattenSeq(m) /\ Escaped(rest) = FlattenSeq(l) /\ l \in Seq(Seq(Char))
    BY <1>1, EscapedIs
  <1>4. Spelt(c) \in Seq(Char)
    BY SpeltTyped DEF Text
  <1> HIDE DEF l, m, all
  <1>5. FlattenSeq(m) = Spelt(c) \o FlattenSeq(l)
    BY <1>2, <1>3, <1>4, FlattenCons
  <1> QED
    BY <1>3, <1>5 DEF all

\* A list is empty or has a first.
LEMMA FirstAndRest ==
    ASSUME NEW S, NEW s \in Seq(S), s # <<>>
    PROVE  \E c \in S, rest \in Seq(S) : s = <<c>> \o rest /\ Len(rest) = Len(s) - 1
  <1>1. Len(s) \in Nat /\ Len(s) # 0 /\ s[1] \in S
    OBVIOUS
  <1>2. Tail(s) \in Seq(S) /\ Len(Tail(s)) = Len(s) - 1
    BY <1>1
  <1>3. s = <<s[1]>> \o Tail(s)
    BY <1>1, <1>2
  <1> QED
    BY <1>1, <1>2, <1>3

\* What is ahead, with a text escaped at its front, begins with the text's first character.
LEMMA Unescape ==
    ASSUME NEW rest \in Text, rest # <<>>, NEW tail \in Text
    PROVE  \E c \in Char, more \in Text :
               /\ rest = <<c>> \o more
               /\ Escaped(more) \o tail \in Text
               /\ Escaped(rest) \o tail =
                      IF c \in Special THEN <<"\\">> \o (<<c>> \o (Escaped(more) \o tail))
                      ELSE <<c>> \o (Escaped(more) \o tail)
  <1>1. PICK c \in Char, more \in Text : rest = <<c>> \o more
    BY FirstAndRest DEF Text
  <1>2. Escaped(rest) = Spelt(c) \o Escaped(more)
    BY <1>1, EscapedCons
  <1>3. Escaped(more) \in Seq(Char) /\ tail \in Seq(Char) /\ "\\" \in Char
    BY EscapedIs, SpecialChars DEF Text
  <1> DEFINE r == Escaped(more)
  <1>4. r \in Seq(Char)
    BY <1>3
  <1> HIDE DEF r
  <1>5. (<<c>> \o r) \o tail = <<c>> \o (r \o tail)
    BY <1>3, <1>4
  <1>6. (<<"\\", c>> \o r) \o tail = <<"\\">> \o (<<c>> \o (r \o tail))
    <2>1. <<"\\", c>> \o r = <<"\\">> \o (<<c>> \o r)
      BY <1>3, <1>4
    <2>2. <<c>> \o r \in Seq(Char)
      BY <1>4
    <2>3. (<<"\\">> \o (<<c>> \o r)) \o tail = <<"\\">> \o ((<<c>> \o r) \o tail)
      BY <1>3, <2>2, ConcatAssociative
    <2> QED
      BY <1>5, <2>1, <2>3
  <1>7. r \o tail \in Text
    BY <1>3, <1>4 DEF Text
  <1> QED
    BY <1>1, <1>2, <1>5, <1>6, <1>7 DEF r, Spelt

LEMMA PieceTyped ==
    ASSUME NEW e \in Element
    PROVE  Piece(e) \in Text /\ Escaped(e.type) \in Text /\ Escaped(e.value) \in Text
  <1>1. Escaped(e.type) \in Seq(Char) /\ Escaped(e.value) \in Seq(Char)
    BY EscapedIs DEF Text, Element
  <1> QED
    BY <1>1, SpecialChars DEF Piece, Text

LEMMA BodyIs ==
    ASSUME NEW list \in Seq(Element)
    PROVE  /\ [i \in DOMAIN list |-> Piece(list[i])] \in Seq(Seq(Char))
           /\ Body(list) \in Text
  <1> DEFINE l == [i \in DOMAIN list |-> Piece(list[i])]
  <1>1. l \in Seq(Seq(Char))
    <2>1. Len(list) \in Nat /\ DOMAIN list = 1..Len(list) /\ \A i \in 1..Len(list) : list[i] \in Element
      OBVIOUS
    <2>2. \A i \in 1..Len(list) : Piece(list[i]) \in Seq(Char)
      BY <2>1, PieceTyped DEF Text
    <2> QED
      BY <2>1, <2>2
  <1>2. Body(list) = FlattenSeq(l)
    BY DEF Body
  <1> HIDE DEF l
  <1>3. Body(list) \in Text
    BY <1>1, <1>2, FlattenTyped DEF Text
  <1> QED
    BY <1>1, <1>3 DEF l

LEMMA BodyEmpty == Body(<<>>) = <<>>
  <1>1. [i \in DOMAIN <<>> |-> Piece(<<>>[i])] = <<>>
    OBVIOUS
  <1> QED
    BY <1>1, FlattenEmpty DEF Body

LEMMA BodyCons ==
    ASSUME NEW e \in Element, NEW rest \in Seq(Element)
    PROVE  Body(<<e>> \o rest) = Piece(e) \o Body(rest)
  <1> DEFINE all == <<e>> \o rest
             l == [i \in DOMAIN rest |-> Piece(rest[i])]
             m == [i \in DOMAIN all |-> Piece(all[i])]
  <1>1. all \in Seq(Element)
    OBVIOUS
  <1>2. m = <<Piece(e)>> \o l
    <2>1. /\ Len(rest) \in Nat /\ DOMAIN rest = 1..Len(rest)
          /\ DOMAIN all = 1..(Len(rest) + 1) /\ all[1] = e
          /\ \A i \in 2..(Len(rest) + 1) : all[i] = rest[i - 1]
      OBVIOUS
    <2> HIDE DEF all
    <2>2. l \in Seq(Seq(Char)) /\ m \in Seq(Seq(Char)) /\ Piece(e) \in Seq(Char)
      BY <1>1, BodyIs, PieceTyped DEF Text
    <2>3. Len(l) = Len(rest) /\ Len(m) = Len(rest) + 1
      BY <2>1
    <2>4. ASSUME NEW i \in 1..(Len(rest) + 1) PROVE m[i] = (<<Piece(e)>> \o l)[i]
      <3>1. CASE i = 1
        BY <2>1, <2>2, <2>3, <3>1
      <3>2. CASE i # 1
        <4>1. i \in 2..(Len(rest) + 1) /\ i - 1 \in 1..Len(rest)
          BY <2>1, <3>2
        <4>2. m[i] = Piece(rest[i - 1]) /\ l[i - 1] = Piece(rest[i - 1])
          BY <2>1, <4>1
        <4> HIDE DEF l, m
        <4>3. (<<Piece(e)>> \o l)[i] = l[i - 1]
          BY <2>1, <2>2, <2>3, <4>1
        <4> QED
          BY <4>2, <4>3
      <3> QED
        BY <3>1, <3>2
    <2> HIDE DEF l, m
    <2>5. <<Piece(e)>> \o l \in Seq(Seq(Char)) /\ Len(<<Piece(e)>> \o l) = Len(rest) + 1
      BY <2>1, <2>2, <2>3
    <2> QED
      BY <2>2, <2>3, <2>4, <2>5, SeqEqual
  <1>3. Body(all) = FlattenSeq(m) /\ Body(rest) = FlattenSeq(l) /\ l \in Seq(Seq(Char))
    BY <1>1, BodyIs DEF Body
  <1>4. Piece(e) \in Seq(Char)
    BY PieceTyped DEF Text
  <1> HIDE DEF l, m, all
  <1>5. FlattenSeq(m) = Piece(e) \o FlattenSeq(l)
    BY <1>2, <1>3, <1>4, FlattenCons
  <1> QED
    BY <1>3, <1>5 DEF all

LEMMA SpelledIs ==
    ASSUME NEW list \in Seq(Element)
    PROVE  Spelled(list) = <<"/">> \o Body(list)
  <1>1. \A e \in Element : Escaped(e.type) \o <<"=">> \o Escaped(e.value) \o <<"/">> = Piece(e)
    <2> SUFFICES ASSUME NEW e \in Element
                 PROVE  Escaped(e.type) \o <<"=">> \o Escaped(e.value) \o <<"/">> = Piece(e)
      OBVIOUS
    <2> DEFINE t == Escaped(e.type)
               v == Escaped(e.value)
    <2>1. t \in Seq(Char) /\ v \in Seq(Char) /\ "=" \in Char /\ "/" \in Char
      BY PieceTyped, SpecialChars DEF Text
    <2> HIDE DEF t, v
    <2>2. t \o <<"=">> \o v \o <<"/">> = t \o (<<"=">> \o (v \o <<"/">>))
      BY <2>1
    <2> QED
      BY <2>2 DEF t, v, Piece
  <1>2. [i \in DOMAIN list |-> Escaped(list[i].type) \o <<"=">> \o Escaped(list[i].value) \o <<"/">>]
        = [i \in DOMAIN list |-> Piece(list[i])]
    <2>1. \A i \in DOMAIN list : list[i] \in Element
      OBVIOUS
    <2> QED
      BY <1>1, <2>1
  <1> QED
    BY <1>2 DEF Spelled, SpelledWith, Body

\* Both from where the body of a list begins: with the type of its first element.
LEMMA BodyAhead ==
    ASSUME NEW e \in Element, NEW todo \in Seq(Element)
    PROVE  Body(Cons(e, todo)) =
               Escaped(e.type) \o Cons("=", Escaped(e.value) \o Cons("/", Body(todo)))
  <1> DEFINE t == Escaped(e.type)
             v == Escaped(e.value)
             b == Body(todo)
  <1>1. t \in Seq(Char) /\ v \in Seq(Char) /\ b \in Seq(Char) /\ "=" \in Char /\ "/" \in Char
    BY PieceTyped, BodyIs, SpecialChars DEF Text
  <1> HIDE DEF t, v, b
  <1>2. (t \o (<<"=">> \o (v \o <<"/">>))) \o b = t \o (<<"=">> \o (v \o (<<"/">> \o b)))
    BY <1>1
  <1> QED
    BY <1>2, BodyCons DEF t, v, b, Piece, Cons

-----------------------------------------------------------------------------
\* What is read is what was spelled.

From(s, p) == SubSeq(s, p, Len(s))

Ahead == From(subject, sp)

\* The rest of the type, or of the value, of the element e being read is ahead, and
\* after it the elements todo.
TypeAhead(e, rest, todo) ==
    /\ meant = elements \o Cons(e, todo)
    /\ type \o rest = e.type
    /\ value = <<>>
    /\ Ahead = Escaped(rest) \o Cons("=", Escaped(e.value) \o Cons("/", Body(todo)))

ValueAhead(e, rest, todo) ==
    /\ meant = elements \o Cons(e, todo)
    /\ type = e.type
    /\ value \o rest = e.value
    /\ Ahead = Escaped(rest) \o Cons("/", Body(todo))

ReadSoFar ==
    /\ state # "malformed"
    /\ state = "start" => subject = Spelled(meant) /\ type = <<>> /\ value = <<>>
    /\ state = "type" =>
           \E e \in Element, rest \in Text, todo \in Seq(Element) : TypeAhead(e, rest, todo)
    /\ state = "value" =>
           \E e \in Element, rest \in Text, todo \in Seq(Element) : ValueAhead(e, rest, todo)

\* The name has the entries of the elements before the next.
NamedSoFar ==
    /\ state \in {"start", "type", "value"} => next = 1 /\ name = <<>>
    /\ state = "add" =>
           /\ elements = meant
           /\ next <= Len(meant) + 1
           /\ name = Entries(SubSeq(meant, 1, next - 1))
    /\ state = "named" => name = Entries(meant)
    /\ csr # None =>
           \/ state = "named" /\ csr = Entries(meant)
           \/ state = "no memory" /\ csr = <<>>

Faithful == meant # None => ReadSoFar /\ NamedSoFar

\* One character of the subject read.
LEMMA Peel ==
    ASSUME NEW s \in Text, NEW p \in Nat \ {0}, NEW c, NEW rest \in Text,
           From(s, p) = Cons(c, rest)
    PROVE  /\ p <= Len(s)
           /\ s[p] = c
           /\ From(s, p + 1) = rest
           /\ Len(rest) = Len(s) - p
  <1>1. Len(s) \in Nat /\ Len(rest) \in Nat /\ s \in Seq(Char) /\ rest \in Seq(Char)
    BY DEF Text
  <1> DEFINE a == <<c>> \o rest
  <1>2. Len(a) = Len(rest) + 1 /\ a[1] = c /\ \A i \in 1..Len(rest) : a[i + 1] = rest[i]
    BY <1>1
  <1>0. SubSeq(s, p, Len(s)) = a
    BY DEF From, Cons
  <1>3. p <= Len(s)
    <2>1. p > Len(s) => Len(SubSeq(s, p, Len(s))) = 0
      BY <1>1
    <2> QED
      BY <1>0, <1>1, <1>2, <2>1
  <1>4. Len(SubSeq(s, p, Len(s))) = Len(s) - p + 1
    BY <1>1, <1>3
  <1>5. Len(rest) = Len(s) - p
    BY <1>0, <1>1, <1>2, <1>4
  <1>6. \A i \in 1..(Len(s) - p + 1) : SubSeq(s, p, Len(s))[i] = s[p + i - 1]
    BY <1>1, <1>3
  <1> HIDE DEF a
  <1>7. \A i \in 1..(Len(s) - p + 1) : a[i] = s[p + i - 1]
    BY <1>0, <1>6
  <1>8. s[p] = c
    <2>1. 1 \in 1..(Len(s) - p + 1) /\ p + 1 - 1 = p
      BY <1>1, <1>3
    <2> QED
      BY <1>2, <1>7, <2>1
  <1>9. SubSeq(s, p + 1, Len(s)) \in Seq(Char) /\ Len(SubSeq(s, p + 1, Len(s))) = Len(s) - p
    BY <1>1, <1>3
  <1>10. ASSUME NEW i \in 1..(Len(s) - p) PROVE SubSeq(s, p + 1, Len(s))[i] = rest[i]
    <2>1. SubSeq(s, p + 1, Len(s))[i] = s[p + i]
      BY <1>1, <1>3
    <2>2. i + 1 \in 1..(Len(s) - p + 1) /\ p + (i + 1) - 1 = p + i /\ i \in 1..Len(rest)
      BY <1>1, <1>3, <1>5
    <2>3. a[i + 1] = s[p + (i + 1) - 1] /\ a[i + 1] = rest[i]
      BY <1>2, <1>7, <2>2
    <2> QED
      BY <2>1, <2>2, <2>3
  <1>11. SubSeq(s, p + 1, Len(s)) = rest
    BY <1>1, <1>5, <1>9, <1>10, SeqEqual
  <1> QED
    BY <1>3, <1>5, <1>8, <1>11 DEF From

\* One step of Collect, with a text escaped ahead and then its delimiter.
LEMMA ReadOne ==
    ASSUME IInv, Collect, NEW rest \in Text, NEW tail \in Text,
           Ahead = Escaped(rest) \o Cons(Delimiter[state], tail)
    PROVE  \E c \in Char, more \in Text :
               /\ rest = <<c>> \o more
               /\ Ahead' = Escaped(more) \o Cons(Delimiter[state], tail)
               /\ type' = IF state = "type" THEN Append(type, c) ELSE type
               /\ value' = IF state = "value" THEN Append(value, c) ELSE value
  <1> DEFINE d == Delimiter[state]
             after == Cons(d, tail)
  <1>1. subject \in Text /\ sp \in Nat \ {0} /\ Len(subject) \in Nat
    BY DEF IInv, TypeOK, Counted, Text, Collect
  <1>2. d \in Char /\ d \in Special /\ d # "\\"
    BY SpecialChars DEF Collect, Collecting, Delimiter, Special
  <1>3. after \in Text
    BY <1>2 DEF Text, Cons
  <1> HIDE DEF d
  <1>4. rest # <<>>
    <2> SUFFICES ASSUME rest = <<>> PROVE FALSE
      OBVIOUS
    <2>1. Ahead = after
      <3>1. <<>> \o after = after
        BY <1>3 DEF Text
      <3> QED
        BY <3>1, EscapedEmpty DEF d
    <2>2. subject[sp] = d
      BY <1>1, <2>1, Peel DEF Ahead
    <2> QED
      BY <1>2, <2>2 DEF Collect, d
  <1> HIDE DEF after
  <1>5. PICK c \in Char, more \in Text :
            /\ rest = <<c>> \o more
            /\ Escaped(more) \o after \in Text
            /\ Escaped(rest) \o after =
                   IF c \in Special THEN Cons("\\", Cons(c, Escaped(more) \o after))
                   ELSE Cons(c, Escaped(more) \o after)
    BY <1>3, <1>4, Unescape DEF Cons
  <1> DEFINE later == Escaped(more) \o after
  <1>6. Ahead = Escaped(rest) \o after /\ later \in Text
    BY <1>5 DEF after, d
  <1>7. CASE c \in Special
    <2>1. From(subject, sp) = Cons("\\", Cons(c, later))
      BY <1>5, <1>6, <1>7 DEF Ahead
    <2> HIDE DEF later
    <2>2. Cons(c, later) \in Text
      BY <1>6 DEF Text, Cons
    <2>3. /\ subject[sp] = "\\" /\ sp <= Len(subject)
          /\ From(subject, sp + 1) = Cons(c, later)
      BY <1>1, <2>1, <2>2, Peel
    <2>4. sp + 1 \in Nat \ {0} /\ (sp + 1) + 1 = sp + 2
      BY <1>1
    <2>5. subject[sp + 1] = c /\ From(subject, (sp + 1) + 1) = later
      BY <1>1, <1>6, <2>3, <2>4, Peel
    <2>6. Copy(c, 2) /\ subject' = subject
      BY <2>3, <2>5 DEF Collect
    <2>7. Ahead' = later
      BY <2>4, <2>5, <2>6 DEF Ahead, Copy
    <2> QED
      BY <1>5, <2>6, <2>7 DEF Copy, later, after, d
  <1>8. CASE c \notin Special
    <2>1. From(subject, sp) = Cons(c, later)
      BY <1>5, <1>6, <1>8 DEF Ahead
    <2> HIDE DEF later
    <2>2. subject[sp] = c /\ From(subject, sp + 1) = later
      BY <1>1, <1>6, <2>1, Peel
    <2>3. Copy(c, 1) /\ subject' = subject
      BY <1>8, <2>2 DEF Collect, Special
    <2>4. Ahead' = later
      BY <2>2, <2>3 DEF Ahead, Copy
    <2> QED
      BY <1>5, <2>3, <2>4 DEF Copy, later, after, d
  <1> QED
    BY <1>7, <1>8

\* Nothing of the text is left when its delimiter is next.
LEMMA ReadAll ==
    ASSUME IInv, Collecting, NEW rest \in Text, NEW tail \in Text,
           Ahead = Escaped(rest) \o Cons(Delimiter[state], tail)
    PROVE  /\ More
           /\ subject[sp] = "\\" => sp < Len(subject)
           /\ subject[sp] = Delimiter[state] =>
                  /\ rest = <<>>
                  /\ From(subject, sp + 1) = tail
                  /\ Len(tail) = Len(subject) - sp
  <1> DEFINE d == Delimiter[state]
             after == Cons(d, tail)
  <1>1. subject \in Text /\ sp \in Nat \ {0} /\ Len(subject) \in Nat
    BY DEF IInv, TypeOK, Counted, Text
  <1>2. d \in Char /\ d \in Special /\ d # "\\"
    BY SpecialChars DEF Collecting, Delimiter, Special
  <1>3. after \in Text
    BY <1>2 DEF Text, Cons
  <1> HIDE DEF d
  <1>4. CASE rest = <<>>
    <2>1. Ahead = after
      <3>1. <<>> \o after = after
        BY <1>3 DEF Text
      <3> QED
        BY <1>4, <3>1, EscapedEmpty DEF d
    <2>2. From(subject, sp) = Cons(d, tail)
      BY <2>1 DEF Ahead
    <2>3. /\ sp <= Len(subject) /\ subject[sp] = d
          /\ From(subject, sp + 1) = tail
          /\ Len(tail) = Len(subject) - sp
      BY <1>1, <2>2, Peel
    <2> QED
      BY <1>2, <1>4, <2>3 DEF More, d
  <1>5. CASE rest # <<>>
    <2> HIDE DEF after
    <2>1. PICK c \in Char, more \in Text :
              /\ rest = <<c>> \o more
              /\ Escaped(more) \o after \in Text
              /\ Escaped(rest) \o after =
                     IF c \in Special THEN Cons("\\", Cons(c, Escaped(more) \o after))
                     ELSE Cons(c, Escaped(more) \o after)
      BY <1>3, <1>5, Unescape DEF Cons
    <2> DEFINE later == Escaped(more) \o after
    <2>2. Ahead = Escaped(rest) \o after /\ later \in Text
      BY <2>1 DEF after, d
    <2>3. CASE c \in Special
      <3>1. From(subject, sp) = Cons("\\", Cons(c, later))
        BY <2>1, <2>2, <2>3 DEF Ahead
      <3> HIDE DEF later
      <3>2. Cons(c, later) \in Text /\ Len(Cons(c, later)) # 0
        BY <2>2 DEF Text, Cons
      <3>3. /\ subject[sp] = "\\" /\ sp <= Len(subject)
            /\ Len(Cons(c, later)) = Len(subject) - sp
        BY <1>1, <3>1, <3>2, Peel
      <3> QED
        BY <1>1, <1>2, <3>2, <3>3 DEF More, d
    <2>4. CASE c \notin Special
      <3>1. From(subject, sp) = Cons(c, later)
        BY <2>1, <2>2, <2>4 DEF Ahead
      <3> HIDE DEF later
      <3>2. sp <= Len(subject) /\ subject[sp] = c
        BY <1>1, <2>2, <3>1, Peel
      <3> QED
        BY <1>2, <2>4, <3>2 DEF More, d, Special
    <2> QED
      BY <2>3, <2>4
  <1> QED
    BY <1>4, <1>5

LEMMA EntriesEmpty == Entries(<<>>) = <<>>
  <1>1. [i \in DOMAIN <<>> |-> IF Entry(<<>>[i]) THEN <<<<>>[i]>> ELSE <<>>] = <<>>
    OBVIOUS
  <1> QED
    BY <1>1, FlattenEmpty DEF Entries

LEMMA EntriesAppend ==
    ASSUME NEW list \in Seq(Element), NEW e \in Element
    PROVE  Entries(Append(list, e)) = IF Entry(e) THEN Append(Entries(list), e) ELSE Entries(list)
  <1> DEFINE One(x) == IF Entry(x) THEN <<x>> ELSE <<>>
             more == Append(list, e)
             l == [i \in DOMAIN list |-> One(list[i])]
             m == [i \in DOMAIN more |-> One(more[i])]
  <1>1. \A x \in Element : One(x) \in Seq(Element)
    OBVIOUS
  <1>2. /\ Len(list) \in Nat /\ DOMAIN list = 1..Len(list)
        /\ DOMAIN more = 1..(Len(list) + 1) /\ more[Len(list) + 1] = e
        /\ \A i \in 1..Len(list) : more[i] = list[i] /\ list[i] \in Element
        /\ \A i \in 1..(Len(list) + 1) : more[i] \in Element
    OBVIOUS
  <1>3. Entries(list) = FlattenSeq(l) /\ Entries(more) = FlattenSeq(m)
    BY DEF Entries
  <1> HIDE DEF more, One
  <1>4. l \in Seq(Seq(Element)) /\ m \in Seq(Seq(Element)) /\ One(e) \in Seq(Element)
    BY <1>1, <1>2
  <1>5. Len(l) = Len(list) /\ Len(m) = Len(list) + 1
    BY <1>2
  <1>6. ASSUME NEW i \in 1..(Len(list) + 1) PROVE m[i] = Append(l, One(e))[i]
    <2>1. CASE i = Len(list) + 1
      BY <1>2, <1>4, <1>5, <2>1
    <2>2. CASE i # Len(list) + 1
      <3>1. i \in 1..Len(list)
        BY <1>2, <2>2
      <3>2. m[i] = One(list[i]) /\ l[i] = One(list[i])
        BY <1>2, <3>1
      <3> HIDE DEF l, m
      <3>3. Append(l, One(e))[i] = l[i]
        BY <1>4, <1>5, <3>1
      <3> QED
        BY <3>2, <3>3
    <2> QED
      BY <2>1, <2>2
  <1> HIDE DEF l, m
  <1>7. m = Append(l, One(e))
    <2>1. Append(l, One(e)) \in Seq(Seq(Element)) /\ Len(Append(l, One(e))) = Len(list) + 1
      BY <1>4, <1>5
    <2> QED
      BY <1>4, <1>5, <1>6, <2>1, SeqEqual
  <1>8. FlattenSeq(m) = FlattenSeq(l) \o One(e) /\ FlattenSeq(l) \in Seq(Element)
    BY <1>4, <1>7, FlattenAppend, FlattenTyped
  <1>9. Entries(more) = Entries(list) \o One(e) /\ Entries(list) \in Seq(Element)
    BY <1>3, <1>8
  <1>10. One(e) = IF Entry(e) THEN <<e>> ELSE <<>>
    BY DEF One
  <1>11. Entries(list) \o <<e>> = Append(Entries(list), e) /\ Entries(list) \o <<>> = Entries(list)
    BY <1>9
  <1> QED
    BY <1>9, <1>10, <1>11 DEF more

LEMMA InitFaithful == Init => Faithful
  <1> SUFFICES ASSUME Init, meant # None PROVE ReadSoFar /\ NamedSoFar
    BY DEF Faithful
  <1>1. subject = Spelled(meant)
    BY DEF Init
  <1> QED
    BY <1>1 DEF Init, ReadSoFar, NamedSoFar

\* Of a list of elements, nothing is ahead when it is empty, and the type of its first
\* when it is not.
LEMMA BodyNext ==
    ASSUME NEW list \in Seq(Element), list # <<>>
    PROVE  \E e \in Element, todo \in Seq(Element) :
               /\ list = Cons(e, todo)
               /\ Body(list) = Escaped(e.type) \o Cons("=", Escaped(e.value) \o Cons("/", Body(todo)))
               /\ Body(list) # <<>>
  <1>1. PICK e \in Element, todo \in Seq(Element) : list = Cons(e, todo)
    BY FirstAndRest DEF Cons
  <1>2. Body(list) = Escaped(e.type) \o Cons("=", Escaped(e.value) \o Cons("/", Body(todo)))
    BY <1>1, BodyAhead
  <1>3. Body(list) # <<>>
    <2> DEFINE t == Escaped(e.type)
               v == Escaped(e.value)
               b == Body(todo)
    <2>1. t \in Seq(Char) /\ v \in Seq(Char) /\ b \in Seq(Char) /\ "=" \in Char /\ "/" \in Char
      BY PieceTyped, BodyIs, SpecialChars DEF Text
    <2> HIDE DEF t, v, b
    <2>2. Len(t \o Cons("=", v \o Cons("/", b))) # 0
      BY <2>1 DEF Cons
    <2>3. t \o Cons("=", v \o Cons("/", b)) # <<>>
      BY <2>1, <2>2 DEF Cons
    <2> QED
      BY <1>2, <2>3 DEF t, v, b
  <1> QED
    BY <1>1, <1>2, <1>3

LEMMA StartFaithful ==
    ASSUME IInv, Faithful, Start, meant # None
    PROVE  ReadSoFar' /\ NamedSoFar'
  <1>1. /\ meant \in Seq(Element) /\ subject \in Text /\ Len(subject) \in Nat
        /\ state = "start" /\ sp = 1 /\ elements = <<>> /\ elements \in Seq(Element)
        /\ sp' = 2 /\ elements' = elements /\ meant' = meant /\ subject' = subject
        /\ type' = type /\ value' = value /\ next' = next /\ name' = name /\ csr' = csr
        /\ state' = NextElement(2)
    BY DEF IInv, TypeOK, AtStart, Start, Text
  <1>2. subject = Spelled(meant) /\ type = <<>> /\ value = <<>> /\ next = 1 /\ name = <<>> /\ csr = None
    BY <1>1 DEF Faithful, ReadSoFar, NamedSoFar
  <1>3. subject = Cons("/", Body(meant)) /\ Body(meant) \in Text
    BY <1>1, <1>2, SpelledIs, BodyIs DEF Cons
  <1>4. From(subject, 2) = Body(meant) /\ Len(Body(meant)) = Len(subject) - 1
    <2>1. From(subject, 1) = subject
      BY <1>1 DEF From, Text
    <2>2. From(subject, 1 + 1) = Body(meant) /\ Len(Body(meant)) = Len(subject) - 1
      BY <1>1, <1>3, <2>1, Peel
    <2> QED
      BY <2>2
  <1>5. CASE meant = <<>>
    <2>1. Len(subject) = 1
      BY <1>1, <1>4, <1>5, BodyEmpty
    <2>2. state' = "add"
      BY <1>1, <2>1 DEF NextElement
    <2>3. Entries(SubSeq(meant, 1, 0)) = <<>>
      <3>1. SubSeq(meant, 1, 0) = <<>>
        BY <1>1
      <3> QED
        BY <3>1, EntriesEmpty
    <2>4. ReadSoFar'
      BY <2>2 DEF ReadSoFar
    <2>5. NamedSoFar'
      BY <1>1, <1>2, <1>5, <2>2, <2>3 DEF NamedSoFar
    <2> QED
      BY <2>4, <2>5
  <1>6. CASE meant # <<>>
    <2>1. PICK e \in Element, todo \in Seq(Element) :
              /\ meant = Cons(e, todo)
              /\ Body(meant) = Escaped(e.type) \o Cons("=", Escaped(e.value) \o Cons("/", Body(todo)))
              /\ Body(meant) # <<>>
      BY <1>1, <1>6, BodyNext
    <2>2. state' = "type"
      <3>1. Len(Body(meant)) # 0
        BY <1>3, <2>1 DEF Text
      <3> QED
        BY <1>1, <1>4, <3>1 DEF NextElement
    <2>3. e.type \in Text /\ <<>> \o e.type = e.type
      BY DEF Element, Text
    <2>4. <<>> \o Cons(e, todo) = Cons(e, todo)
      BY DEF Cons
    <2>5. TypeAhead(e, e.type, todo)'
      BY <1>1, <1>2, <1>4, <2>1, <2>3, <2>4 DEF TypeAhead, Ahead
    <2>6. ReadSoFar'
      BY <2>2, <2>3, <2>5 DEF ReadSoFar
    <2>7. NamedSoFar'
      BY <1>1, <1>2, <2>2 DEF NamedSoFar
    <2> QED
      BY <2>6, <2>7
  <1> QED
    BY <1>5, <1>6

\* What is appended to one list is taken from the front of the other.
LEMMA MovedOver ==
    ASSUME NEW S, NEW s \in Seq(S), NEW c \in S, NEW t \in Seq(S)
    PROVE  Append(s, c) \o t = s \o (<<c>> \o t)
  <1>1. Append(s, c) = s \o <<c>> /\ <<c>> \in Seq(S)
    OBVIOUS
  <1> QED
    BY <1>1, ConcatAssociative

LEMMA CollectFaithful ==
    ASSUME IInv, Faithful, Collect, meant # None
    PROVE  ReadSoFar' /\ NamedSoFar'
  <1>1. /\ state \in {"type", "value"} /\ state' = state
        /\ elements' = elements /\ meant' = meant /\ next' = next /\ name' = name /\ csr' = csr
    BY DEF Collect, Collecting
  <1>2. NamedSoFar'
    BY <1>1 DEF Faithful, NamedSoFar
  <1>3. CASE state = "type"
    <2>1. PICK e \in Element, rest \in Text, todo \in Seq(Element) : TypeAhead(e, rest, todo)
      BY <1>3 DEF Faithful, ReadSoFar
    <2> DEFINE tail == Escaped(e.value) \o Cons("/", Body(todo))
    <2>2. tail \in Text
      <3>1. Escaped(e.value) \in Seq(Char) /\ Body(todo) \in Seq(Char) /\ "/" \in Char
        BY PieceTyped, BodyIs, SpecialChars DEF Text
      <3>2. Cons("/", Body(todo)) \in Seq(Char)
        BY <3>1 DEF Cons
      <3> QED
        BY <3>1, <3>2 DEF Text
    <2>3. Ahead = Escaped(rest) \o Cons(Delimiter[state], tail)
      BY <1>3, <2>1 DEF TypeAhead, Delimiter
    <2> HIDE DEF tail
    <2>4. PICK c \in Char, more \in Text :
              /\ rest = <<c>> \o more
              /\ Ahead' = Escaped(more) \o Cons(Delimiter[state], tail)
              /\ type' = IF state = "type" THEN Append(type, c) ELSE type
              /\ value' = IF state = "value" THEN Append(value, c) ELSE value
      BY <2>2, <2>3, ReadOne
    <2>5. Append(type, c) \o more = type \o (<<c>> \o more)
      BY MovedOver DEF IInv, TypeOK, Text
    <2>6. TypeAhead(e, more, todo)'
      BY <1>1, <1>3, <2>1, <2>4, <2>5 DEF TypeAhead, Delimiter, tail
    <2>7. ReadSoFar'
      BY <1>1, <1>3, <2>6 DEF ReadSoFar
    <2> QED
      BY <1>2, <2>7
  <1>4. CASE state = "value"
    <2>1. PICK e \in Element, rest \in Text, todo \in Seq(Element) : ValueAhead(e, rest, todo)
      BY <1>4 DEF Faithful, ReadSoFar
    <2> DEFINE tail == Body(todo)
    <2>2. tail \in Text
      BY BodyIs
    <2>3. Ahead = Escaped(rest) \o Cons(Delimiter[state], tail)
      BY <1>4, <2>1 DEF ValueAhead, Delimiter
    <2> HIDE DEF tail
    <2>4. PICK c \in Char, more \in Text :
              /\ rest = <<c>> \o more
              /\ Ahead' = Escaped(more) \o Cons(Delimiter[state], tail)
              /\ type' = IF state = "type" THEN Append(type, c) ELSE type
              /\ value' = IF state = "value" THEN Append(value, c) ELSE value
      BY <2>2, <2>3, ReadOne
    <2>5. Append(value, c) \o more = value \o (<<c>> \o more)
      BY MovedOver DEF IInv, TypeOK, Text
    <2>6. ValueAhead(e, more, todo)'
      BY <1>1, <1>4, <2>1, <2>4, <2>5 DEF ValueAhead, Delimiter, tail
    <2>7. ReadSoFar'
      BY <1>1, <1>4, <2>6 DEF ReadSoFar
    <2> QED
      BY <1>2, <2>7
  <1> QED
    BY <1>1, <1>3, <1>4

LEMMA TypeEndsFaithful ==
    ASSUME IInv, Faithful, TypeEnds, meant # None
    PROVE  ReadSoFar' /\ NamedSoFar'
  <1>1. /\ state = "type" /\ subject[sp] = Delimiter[state] /\ Collecting
        /\ subject' = subject /\ sp' = sp + 1 /\ type' = type /\ value' = value
        /\ elements' = elements /\ meant' = meant /\ next' = next /\ name' = name /\ csr' = csr
        /\ type \in Seq(Char) /\ Len(subject) \in Nat /\ sp \in Nat
    BY DEF TypeEnds, Collecting, IInv, TypeOK, Text
  <1>2. PICK e \in Element, rest \in Text, todo \in Seq(Element) : TypeAhead(e, rest, todo)
    BY <1>1 DEF Faithful, ReadSoFar
  <1>3. /\ Escaped(e.value) \in Seq(Char) /\ Body(todo) \in Seq(Char) /\ "/" \in Char
        /\ e.value \in Text /\ <<>> \o e.value = e.value
    <2>1. Escaped(e.value) \in Seq(Char) /\ Body(todo) \in Seq(Char) /\ "/" \in Char
      BY PieceTyped, BodyIs, SpecialChars DEF Text
    <2>2. e.value \in Text /\ <<>> \o e.value = e.value
      BY DEF Text, Element
    <2> QED
      BY <2>1, <2>2
  <1> DEFINE tail == Escaped(e.value) \o Cons("/", Body(todo))
             v == Escaped(e.value)
             b == Body(todo)
  <1>4. tail \in Text /\ Len(tail) # 0
    <2> HIDE DEF v, b
    <2>1. v \in Seq(Char) /\ b \in Seq(Char)
      BY <1>3 DEF v, b
    <2>2. v \o Cons("/", b) \in Seq(Char) /\ Len(v \o Cons("/", b)) # 0
      BY <1>3, <2>1 DEF Cons
    <2> QED
      BY <2>2 DEF Text, v, b
  <1>5. Ahead = Escaped(rest) \o Cons(Delimiter[state], tail)
    BY <1>1, <1>2 DEF TypeAhead, Delimiter
  <1> HIDE DEF tail
  <1>6. rest = <<>> /\ From(subject, sp + 1) = tail /\ Len(tail) = Len(subject) - sp
    BY <1>1, <1>4, <1>5, ReadAll
  <1>7. state' = "value"
    <2>1. Len(tail) \in Nat
      BY <1>4 DEF Text
    <2> QED
      BY <1>1, <1>4, <1>6, <2>1 DEF TypeEnds
  <1>8. type \o <<>> = type
    BY <1>1
  <1>9. ValueAhead(e, e.value, todo)'
    BY <1>1, <1>2, <1>3, <1>6, <1>8 DEF TypeAhead, ValueAhead, Ahead, tail
  <1>10. ReadSoFar'
    BY <1>3, <1>7, <1>9 DEF ReadSoFar
  <1>11. NamedSoFar'
    BY <1>1, <1>7 DEF Faithful, NamedSoFar
  <1> QED
    BY <1>10, <1>11

LEMMA ValueEndsFaithful ==
    ASSUME IInv, Faithful, ValueEnds, meant # None
    PROVE  ReadSoFar' /\ NamedSoFar'
  <1>1. /\ state = "value" /\ Collecting
        /\ subject' = subject /\ type' = <<>> /\ value' = <<>>
        /\ elements' = Append(elements, [type |-> type, value |-> value])
        /\ meant' = meant /\ next' = next /\ name' = name /\ csr' = csr
        /\ state' = NextElement(sp')
        /\ value \in Seq(Char) /\ elements \in Seq(Element) /\ meant \in Seq(Element)
        /\ Len(subject) \in Nat /\ sp \in Nat
    BY DEF ValueEnds, Collecting, IInv, TypeOK, Text
  <1>2. PICK e \in Element, rest \in Text, todo \in Seq(Element) : ValueAhead(e, rest, todo)
    BY <1>1 DEF Faithful, ReadSoFar
  <1>3. Body(todo) \in Text
    BY BodyIs
  <1>4. Ahead = Escaped(rest) \o Cons(Delimiter[state], Body(todo))
    BY <1>1, <1>2 DEF ValueAhead, Delimiter
  <1>5. More
    BY <1>1, <1>3, <1>4, ReadAll
  <1>6. subject[sp] = Delimiter[state] /\ sp' = sp + 1
    BY <1>1, <1>5 DEF ValueEnds
  <1>7. /\ rest = <<>> /\ From(subject, sp + 1) = Body(todo)
        /\ Len(Body(todo)) = Len(subject) - sp
    BY <1>1, <1>3, <1>4, <1>6, ReadAll
  <1>8. [type |-> type, value |-> value] = e
    <2>1. value \o <<>> = value
      BY <1>1
    <2>2. type = e.type /\ value = e.value
      BY <1>2, <1>7, <2>1 DEF ValueAhead
    <2> QED
      BY <2>2 DEF Element
  <1>9. meant = elements' \o todo /\ elements' \in Seq(Element)
    <2>1. Append(elements, e) \o todo = elements \o (<<e>> \o todo)
      BY <1>1, MovedOver
    <2> QED
      BY <1>1, <1>2, <1>8, <2>1 DEF ValueAhead, Cons
  <1>10. next = 1 /\ name = <<>> /\ csr = None
    BY <1>1 DEF Faithful, NamedSoFar
  <1>11. CASE todo = <<>>
    <2>1. state' = "add"
      <3>1. Len(Body(todo)) = 0
        BY <1>11, BodyEmpty
      <3> QED
        BY <1>1, <1>6, <1>7, <3>1 DEF NextElement
    <2>2. elements' = meant
      <3>1. elements' \o <<>> = elements'
        BY <1>9
      <3> QED
        BY <1>9, <1>11, <3>1
    <2>3. name = Entries(SubSeq(meant, 1, 0))
      <3>1. SubSeq(meant, 1, 0) = <<>>
        BY <1>1
      <3> QED
        BY <1>10, <3>1, EntriesEmpty
    <2>4. Len(meant) \in Nat
      BY <1>1
    <2>5. ReadSoFar'
      BY <2>1 DEF ReadSoFar
    <2>6. NamedSoFar'
      BY <1>1, <1>10, <2>1, <2>2, <2>3, <2>4 DEF NamedSoFar
    <2> QED
      BY <2>5, <2>6
  <1>12. CASE todo # <<>>
    <2>1. PICK e2 \in Element, todo2 \in Seq(Element) :
              /\ todo = Cons(e2, todo2)
              /\ Body(todo) = Escaped(e2.type) \o Cons("=", Escaped(e2.value) \o Cons("/", Body(todo2)))
              /\ Body(todo) # <<>>
      BY <1>12, BodyNext
    <2>2. state' = "type"
      <3>1. Len(Body(todo)) # 0 /\ Len(Body(todo)) \in Nat
        BY <1>3, <2>1 DEF Text
      <3> QED
        BY <1>1, <1>6, <1>7, <3>1 DEF NextElement
    <2>3. e2.type \in Text /\ <<>> \o e2.type = e2.type
      BY DEF Element, Text
    <2>4. TypeAhead(e2, e2.type, todo2)'
      BY <1>1, <1>6, <1>7, <1>9, <2>1, <2>3 DEF TypeAhead, Ahead
    <2>5. ReadSoFar'
      BY <2>2, <2>3, <2>4 DEF ReadSoFar
    <2>6. NamedSoFar'
      BY <1>1, <1>10, <2>2 DEF NamedSoFar
    <2> QED
      BY <2>5, <2>6
  <1> QED
    BY <1>11, <1>12

LEMMA AddEntryFaithful ==
    ASSUME IInv, Faithful, AddEntry, meant # None
    PROVE  ReadSoFar' /\ NamedSoFar'
  <1>1. /\ state = "add" /\ state' = state /\ meant' = meant /\ elements' = elements /\ csr' = csr
        /\ next' = next + 1 /\ next \in Nat \ {0} /\ next <= Len(elements)
        /\ meant \in Seq(Element) /\ Len(meant) \in Nat
    BY DEF AddEntry, parsing, IInv, TypeOK
  <1>2. elements = meant /\ name = Entries(SubSeq(meant, 1, next - 1)) /\ csr = None
    BY <1>1 DEF Faithful, NamedSoFar
  <1> DEFINE before == SubSeq(meant, 1, next - 1)
  <1>3. /\ before \in Seq(Element) /\ meant[next] \in Element
        /\ SubSeq(meant, 1, next) = Append(before, meant[next])
    BY <1>1, <1>2
  <1> HIDE DEF before
  <1>4. Entries(Append(before, meant[next])) =
            IF Entry(meant[next]) THEN Append(Entries(before), meant[next]) ELSE Entries(before)
    BY <1>3, EntriesAppend
  <1>5. name' = Entries(SubSeq(meant, 1, next' - 1))
    <2>1. next' - 1 = next
      BY <1>1
    <2> QED
      BY <1>2, <1>3, <1>4, <2>1 DEF AddEntry, before
  <1>6. ReadSoFar'
    BY <1>1 DEF ReadSoFar
  <1>7. NamedSoFar'
    BY <1>1, <1>2, <1>5 DEF NamedSoFar
  <1> QED
    BY <1>6, <1>7

LEMMA NamedFaithful ==
    ASSUME IInv, Faithful, Named, meant # None
    PROVE  ReadSoFar' /\ NamedSoFar'
  <1>1. /\ state = "add" /\ state' = "named" /\ meant' = meant /\ name' = name /\ csr' = csr
        /\ next \in Nat /\ next > Len(elements)
        /\ meant \in Seq(Element) /\ Len(meant) \in Nat
    BY DEF Named, Stop, IInv, TypeOK
  <1>2. /\ elements = meant /\ next <= Len(meant) + 1 /\ csr = None
        /\ name = Entries(SubSeq(meant, 1, next - 1))
    BY <1>1 DEF Faithful, NamedSoFar
  <1>3. SubSeq(meant, 1, next - 1) = meant
    <2>1. next - 1 = Len(meant)
      BY <1>1, <1>2
    <2>2. SubSeq(meant, 1, Len(meant)) = meant
      BY <1>1
    <2> QED
      BY <2>1, <2>2
  <1> QED
    BY <1>1, <1>2, <1>3 DEF ReadSoFar, NamedSoFar

\* A subject that was spelled is not malformed.
LEMMA NeverRefused ==
    ASSUME IInv, Faithful, meant # None
    PROVE  ~NoSlash /\ ~TrailingEscape /\ ~NoValue
  <1>1. ~NoSlash
    <2> SUFFICES ASSUME NoSlash PROVE FALSE
      OBVIOUS
    <2>1. /\ state = "start" /\ sp = 1 /\ subject = Spelled(meant) /\ meant \in Seq(Element)
          /\ subject \in Text
      BY DEF NoSlash, IInv, TypeOK, AtStart, Faithful, ReadSoFar
    <2>2. Body(meant) \in Seq(Char) /\ subject = <<"/">> \o Body(meant)
      BY <2>1, SpelledIs, BodyIs DEF Text
    <2>3. Len(subject) >= 1 /\ subject[1] = "/"
      BY <2>2
    <2> QED
      BY <2>1, <2>3 DEF NoSlash, More
  <1>2. ASSUME Collecting
        PROVE  More /\ (subject[sp] = "\\" => sp < Len(subject))
    <2>1. CASE state = "type"
      <3>1. PICK e \in Element, rest \in Text, todo \in Seq(Element) : TypeAhead(e, rest, todo)
        BY <2>1 DEF Faithful, ReadSoFar
      <3> DEFINE tail == Escaped(e.value) \o Cons("/", Body(todo))
      <3>2. tail \in Text
        <4>1. Escaped(e.value) \in Seq(Char) /\ Body(todo) \in Seq(Char) /\ "/" \in Char
          BY PieceTyped, BodyIs, SpecialChars DEF Text
        <4>2. Cons("/", Body(todo)) \in Seq(Char)
          BY <4>1 DEF Cons
        <4> QED
          BY <4>1, <4>2 DEF Text
      <3>3. Ahead = Escaped(rest) \o Cons(Delimiter[state], tail)
        BY <2>1, <3>1 DEF TypeAhead, Delimiter
      <3> HIDE DEF tail
      <3> QED
        BY <1>2, <3>2, <3>3, ReadAll
    <2>2. CASE state = "value"
      <3>1. PICK e \in Element, rest \in Text, todo \in Seq(Element) : ValueAhead(e, rest, todo)
        BY <2>2 DEF Faithful, ReadSoFar
      <3>2. Body(todo) \in Text
        BY BodyIs
      <3>3. Ahead = Escaped(rest) \o Cons(Delimiter[state], Body(todo))
        BY <2>2, <3>1 DEF ValueAhead, Delimiter
      <3> QED
        BY <1>2, <3>2, <3>3, ReadAll
    <2> QED
      BY <1>2, <2>1, <2>2 DEF Collecting
  <1>3. ~TrailingEscape
    <2>1. sp \in Nat /\ Len(subject) \in Nat
      BY DEF IInv, TypeOK, Text
    <2> QED
      BY <1>2, <2>1 DEF TrailingEscape
  <1>4. ~NoValue
    BY <1>2 DEF NoValue, Collecting
  <1> QED
    BY <1>1, <1>3, <1>4

LEMMA NoMemoryFaithful ==
    ASSUME Faithful, NoMemory, meant # None
    PROVE  ReadSoFar' /\ NamedSoFar'
  BY DEF Faithful, NoMemory, Stop, ReadSoFar, NamedSoFar

LEMMA RequestFaithful ==
    ASSUME Faithful, Request, meant # None
    PROVE  ReadSoFar' /\ NamedSoFar'
  <1>1. /\ state' = state /\ subject' = subject /\ sp' = sp /\ type' = type /\ value' = value
        /\ elements' = elements /\ meant' = meant /\ next' = next /\ name' = name
        /\ state \in {"named", "malformed", "no memory"}
    BY DEF Request, parsing
  <1>2. state # "malformed"
    BY DEF Faithful, ReadSoFar
  <1>3. ReadSoFar'
    BY <1>1, <1>2 DEF ReadSoFar
  <1>4. NamedSoFar'
    BY <1>1, <1>2 DEF Faithful, NamedSoFar, Request
  <1> QED
    BY <1>3, <1>4

LEMMA SpellingFixed == [Next]_vars => meant' = meant /\ subject' = subject
  BY DEF Next, vars, Start, NoSlash, NoMemory, Collect, TrailingEscape, TypeEnds, NoValue, ValueEnds,
         AddEntry, Named, Request, Stop

LEMMA StepFaithful == IInv /\ Faithful /\ [Next]_vars => Faithful'
  <1> SUFFICES ASSUME IInv, Faithful, [Next]_vars PROVE Faithful'
    OBVIOUS
  <1> SUFFICES ASSUME meant # None PROVE ReadSoFar' /\ NamedSoFar'
    BY SpellingFixed DEF Faithful
  <1>1. CASE Start
    BY <1>1, StartFaithful
  <1>2. CASE NoSlash \/ TrailingEscape \/ NoValue
    BY <1>2, NeverRefused
  <1>3. CASE NoMemory
    BY <1>3, NoMemoryFaithful
  <1>4. CASE Collect
    BY <1>4, CollectFaithful
  <1>5. CASE TypeEnds
    BY <1>5, TypeEndsFaithful
  <1>6. CASE ValueEnds
    BY <1>6, ValueEndsFaithful
  <1>7. CASE AddEntry
    BY <1>7, AddEntryFaithful
  <1>8. CASE Named
    BY <1>8, NamedFaithful
  <1>9. CASE Request
    BY <1>9, RequestFaithful
  <1>10. CASE UNCHANGED vars
    BY <1>10 DEF vars, parsing, Faithful, ReadSoFar, NamedSoFar, TypeAhead, ValueAhead, Ahead
  <1> QED
    BY <1>1, <1>2, <1>3, <1>4, <1>5, <1>6, <1>7, <1>8, <1>9, <1>10 DEF Next

LEMMA FaithfulRoundTrip == Faithful => RoundTrip
  <1>1. None # <<>>
    <2>1. <<>> \in Seq(Element)
      OBVIOUS
    <2> QED
      BY <2>1, CertNameAssumption
  <1> QED
    BY <1>1 DEF Faithful, ReadSoFar, NamedSoFar, RoundTrip

\* Whatever elements a subject was spelled from, and whatever characters are in them,
\* the request carries those of a known type with a value, and no other.
THEOREM RequestIsMeant == Spec => []RoundTrip
  BY InitIInv, StepIInv, InitFaithful, StepFaithful, FaithfulRoundTrip, PTL DEF Spec

-----------------------------------------------------------------------------
\* Nothing is dropped.

PlainPiece(e) == e.type \o (<<"=">> \o (e.value \o <<"/">>))

Plain(list) == FlattenSeq([i \in DOMAIN list |-> PlainPiece(list[i])])

Behind == SubSeq(subject, 1, sp - 1)

\* What is behind is the elements read, and what is read of the next.
Kept ==
    /\ state = "start" => type = <<>> /\ value = <<>>
    /\ state = "type" => value = <<>> /\ Behind = (<<"/">> \o Plain(elements)) \o type
    /\ state = "value" => Behind = (<<"/">> \o Plain(elements)) \o (type \o (<<"=">> \o value))
    /\ state = "add" => <<"/">> \o Plain(elements) \in {subject, Append(subject, "/")}

NoLoss == "\\" \notin Range(subject) => Kept

LEMMA PlainPieceTyped == ASSUME NEW e \in Element PROVE PlainPiece(e) \in Seq(Char)
  <1>1. e.type \in Seq(Char) /\ e.value \in Seq(Char) /\ "=" \in Char /\ "/" \in Char
    BY SpecialChars DEF Element, Text
  <1> QED
    BY <1>1 DEF PlainPiece

LEMMA PlainIs ==
    ASSUME NEW list \in Seq(Element)
    PROVE  /\ [i \in DOMAIN list |-> PlainPiece(list[i])] \in Seq(Seq(Char))
           /\ Plain(list) \in Seq(Char)
  <1> DEFINE l == [i \in DOMAIN list |-> PlainPiece(list[i])]
  <1>1. l \in Seq(Seq(Char))
    <2>1. Len(list) \in Nat /\ DOMAIN list = 1..Len(list) /\ \A i \in 1..Len(list) : list[i] \in Element
      OBVIOUS
    <2>2. \A i \in 1..Len(list) : PlainPiece(list[i]) \in Seq(Char)
      BY <2>1, PlainPieceTyped
    <2> QED
      BY <2>1, <2>2
  <1>2. Plain(list) = FlattenSeq(l)
    BY DEF Plain
  <1> HIDE DEF l
  <1>3. Plain(list) \in Seq(Char)
    BY <1>1, <1>2, FlattenTyped
  <1> QED
    BY <1>1, <1>3 DEF l

LEMMA PlainEmpty == Plain(<<>>) = <<>>
  <1>1. [i \in DOMAIN <<>> |-> PlainPiece(<<>>[i])] = <<>>
    OBVIOUS
  <1> QED
    BY <1>1, FlattenEmpty DEF Plain

LEMMA PlainAppend ==
    ASSUME NEW list \in Seq(Element), NEW e \in Element
    PROVE  Plain(Append(list, e)) = Plain(list) \o PlainPiece(e)
  <1> DEFINE more == Append(list, e)
             l == [i \in DOMAIN list |-> PlainPiece(list[i])]
             m == [i \in DOMAIN more |-> PlainPiece(more[i])]
  <1>1. /\ Len(list) \in Nat /\ DOMAIN list = 1..Len(list)
        /\ DOMAIN more = 1..(Len(list) + 1) /\ more[Len(list) + 1] = e
        /\ \A i \in 1..Len(list) : more[i] = list[i]
        /\ more \in Seq(Element)
    OBVIOUS
  <1>2. Plain(list) = FlattenSeq(l) /\ Plain(more) = FlattenSeq(m)
    BY DEF Plain
  <1> HIDE DEF more
  <1>3. l \in Seq(Seq(Char)) /\ m \in Seq(Seq(Char)) /\ PlainPiece(e) \in Seq(Char)
    BY <1>1, PlainIs, PlainPieceTyped
  <1>4. Len(l) = Len(list) /\ Len(m) = Len(list) + 1
    BY <1>1
  <1>5. ASSUME NEW i \in 1..(Len(list) + 1) PROVE m[i] = Append(l, PlainPiece(e))[i]
    <2>1. CASE i = Len(list) + 1
      BY <1>1, <1>3, <1>4, <2>1
    <2>2. CASE i # Len(list) + 1
      <3>1. i \in 1..Len(list)
        BY <1>1, <2>2
      <3>2. m[i] = PlainPiece(list[i]) /\ l[i] = PlainPiece(list[i])
        BY <1>1, <3>1
      <3> HIDE DEF l, m
      <3>3. Append(l, PlainPiece(e))[i] = l[i]
        BY <1>3, <1>4, <3>1
      <3> QED
        BY <3>2, <3>3
    <2> QED
      BY <2>1, <2>2
  <1> HIDE DEF l, m
  <1>6. m = Append(l, PlainPiece(e))
    <2>1. Append(l, PlainPiece(e)) \in Seq(Seq(Char)) /\ Len(Append(l, PlainPiece(e))) = Len(list) + 1
      BY <1>3, <1>4
    <2> QED
      BY <1>3, <1>4, <1>5, <2>1, SeqEqual
  <1>7. FlattenSeq(m) = FlattenSeq(l) \o PlainPiece(e)
    BY <1>3, <1>6, FlattenAppend
  <1> QED
    BY <1>2, <1>7 DEF more

LEMMA SpelledPlain ==
    ASSUME NEW list \in Seq(Element)
    PROVE  SpelledWith(AsIs, list) = <<"/">> \o Plain(list)
  <1>1. \A e \in Element : e.type \o <<"=">> \o e.value \o <<"/">> = PlainPiece(e)
    <2> SUFFICES ASSUME NEW e \in Element
                 PROVE  e.type \o <<"=">> \o e.value \o <<"/">> = PlainPiece(e)
      OBVIOUS
    <2> DEFINE t == e.type
               v == e.value
    <2>1. t \in Seq(Char) /\ v \in Seq(Char) /\ "=" \in Char /\ "/" \in Char
      BY SpecialChars DEF Element, Text
    <2> HIDE DEF t, v
    <2>2. t \o <<"=">> \o v \o <<"/">> = t \o (<<"=">> \o (v \o <<"/">>))
      BY <2>1
    <2> QED
      BY <2>2 DEF t, v, PlainPiece
  <1>2. [i \in DOMAIN list |-> list[i].type \o <<"=">> \o list[i].value \o <<"/">>]
        = [i \in DOMAIN list |-> PlainPiece(list[i])]
    <2>1. \A i \in DOMAIN list : list[i] \in Element
      OBVIOUS
    <2> QED
      BY <1>1, <2>1
  <1> QED
    BY <1>2 DEF SpelledWith, AsIs, Plain

LEMMA InitNoLoss == Init => NoLoss
  BY DEF Init, NoLoss, Kept

\* One more character is behind.
LEMMA BehindNext ==
    ASSUME NEW s \in Seq(Char), NEW p \in Nat \ {0}, p <= Len(s)
    PROVE  /\ SubSeq(s, 1, (p + 1) - 1) = Append(SubSeq(s, 1, p - 1), s[p])
           /\ SubSeq(s, 1, p - 1) \in Seq(Char)
           /\ s[p] \in Char
  <1>1. (p + 1) - 1 = p /\ p \in 1..Len(s)
    OBVIOUS
  <1>2. SubSeq(s, 1, p) = Append(SubSeq(s, 1, p - 1), s[p])
    BY <1>1
  <1> QED
    BY <1>1, <1>2

LEMMA AppendInto ==
    ASSUME NEW s \in Seq(Char), NEW t \in Seq(Char), NEW c \in Char
    PROVE  /\ Append(s \o t, c) = s \o Append(t, c)
           /\ s \o (t \o <<c>>) = Append(s \o t, c)
  <1>1. <<c>> \in Seq(Char) /\ s \o t \in Seq(Char)
    OBVIOUS
  <1>2. Append(t, c) = t \o <<c>>
    OBVIOUS
  <1>3. Append(s \o t, c) = (s \o t) \o <<c>>
    BY <1>1
  <1>4. (s \o t) \o <<c>> = s \o (t \o <<c>>)
    BY <1>1, ConcatAssociative
  <1> QED
    BY <1>2, <1>3, <1>4

LEMMA Associative ==
    ASSUME NEW s \in Seq(Char), NEW t \in Seq(Char), NEW u \in Seq(Char)
    PROVE  (s \o t) \o u = s \o (t \o u)
  BY ConcatAssociative

LEMMA OneCharacter ==
    ASSUME NEW s \in Seq(Char), Len(s) \in Nat, 1 <= Len(s)
    PROVE  /\ SubSeq(s, 1, 1) = <<s[1]>>
           /\ ~(2 <= Len(s)) => s = <<s[1]>>
  <1>1. SubSeq(s, 1, 1) = <<s[1]>>
    <2> DEFINE a == SubSeq(s, 1, 1)
    <2>1. a \in Seq(Char) /\ Len(a) = 1 /\ a[1] = s[1] /\ s[1] \in Char
      OBVIOUS
    <2> HIDE DEF a
    <2>2. a = <<a[1]>>
      BY <2>1
    <2> QED
      BY <2>1, <2>2 DEF a
  <1>2. ASSUME ~(2 <= Len(s)) PROVE s = <<s[1]>>
    <2> DEFINE n == Len(s)
    <2>1. n \in Nat /\ 1 <= n /\ ~(2 <= n)
      BY <1>2
    <2> HIDE DEF n
    <2>2. n = 1
      BY <2>1
    <2> QED
      BY <2>2 DEF n
  <1> QED
    BY <1>1, <1>2

LEMMA StartKept == ASSUME IInv, Kept, Start PROVE Kept'
  <1>1. /\ state = "start" /\ sp = 1 /\ sp' = 2 /\ subject' = subject /\ elements' = elements
        /\ elements = <<>> /\ type' = type /\ value' = value /\ state' = NextElement(2)
        /\ subject \in Seq(Char) /\ Len(subject) \in Nat /\ 1 <= Len(subject) /\ subject[1] = "/"
    BY DEF IInv, TypeOK, AtStart, Start, More, Text
  <1>2. type = <<>> /\ value = <<>>
    BY <1>1 DEF Kept
  <1>3. <<"/">> \o Plain(elements') = <<"/">>
    <2>1. <<"/">> \o <<>> = <<"/">>
      OBVIOUS
    <2> QED
      BY <1>1, <2>1, PlainEmpty
  <1>4. SubSeq(subject, 1, 1) = <<"/">> /\ (~(2 <= Len(subject)) => subject = <<"/">>)
    BY <1>1, OneCharacter
  <1>5. 2 - 1 = 1 /\ <<"/">> \o <<>> = <<"/">>
    OBVIOUS
  <1>6. CASE state' = "type"
    BY <1>1, <1>2, <1>3, <1>4, <1>5, <1>6 DEF Kept, Behind
  <1>7. CASE state' = "add"
    <2>1. ~(2 <= Len(subject))
      BY <1>1, <1>7 DEF NextElement
    <2>2. subject = <<"/">>
      BY <1>4, <2>1
    <2> QED
      BY <1>1, <1>3, <1>7, <2>2 DEF Kept
  <1> QED
    BY <1>1, <1>6, <1>7 DEF NextElement

LEMMA CollectKept ==
    ASSUME IInv, Kept, Collect, "\\" \notin Range(subject)
    PROVE  Kept'
  <1>1. /\ state \in {"type", "value"} /\ state' = state
        /\ subject' = subject /\ elements' = elements
        /\ subject \in Seq(Char) /\ sp \in Nat \ {0} /\ sp <= Len(subject) /\ Len(subject) \in Nat
        /\ type \in Seq(Char) /\ value \in Seq(Char) /\ elements \in Seq(Element)
    BY DEF IInv, TypeOK, Counted, Collect, Collecting, More, Text
  <1>2. subject[sp] # "\\"
    <2>1. sp \in DOMAIN subject
      BY <1>1
    <2> QED
      BY <2>1 DEF Range
  <1>3. Copy(subject[sp], 1)
    BY <1>2 DEF Collect
  <1> DEFINE c == subject[sp]
             read == <<"/">> \o Plain(elements)
  <1>4. /\ Behind' = Append(Behind, c) /\ Behind \in Seq(Char) /\ c \in Char
    <2>1. sp' = sp + 1
      BY <1>3 DEF Copy
    <2> QED
      BY <1>1, <2>1, BehindNext DEF Behind
  <1>5. read \in Seq(Char) /\ "=" \in Char
    <2>1. Plain(elements) \in Seq(Char) /\ "/" \in Char /\ "=" \in Char
      BY <1>1, PlainIs, SpecialChars
    <2> QED
      BY <2>1
  <1> HIDE DEF c, read
  <1>6. CASE state = "type"
    <2>1. type' = Append(type, c) /\ value' = value
      BY <1>3, <1>6 DEF Copy, c
    <2>2. Append(read \o type, c) = read \o Append(type, c)
      BY <1>1, <1>4, <1>5, AppendInto
    <2> QED
      BY <1>1, <1>4, <1>6, <2>1, <2>2 DEF Kept, read
  <1>7. CASE state = "value"
    <2>1. type' = type /\ value' = Append(value, c)
      BY <1>3, <1>7 DEF Copy, c
    <2>2. Append(read \o (type \o (<<"=">> \o value)), c)
          = read \o (type \o (<<"=">> \o Append(value, c)))
      <3>1. <<"=">> \in Seq(Char) /\ <<"=">> \o value \in Seq(Char)
        BY <1>1, <1>5
      <3>2. type \o (<<"=">> \o value) \in Seq(Char)
        BY <1>1, <3>1
      <3>3. Append(read \o (type \o (<<"=">> \o value)), c) = read \o Append(type \o (<<"=">> \o value), c)
        BY <1>4, <1>5, <3>2, AppendInto
      <3>4. Append(type \o (<<"=">> \o value), c) = type \o Append(<<"=">> \o value, c)
        BY <1>1, <1>4, <3>1, AppendInto
      <3>5. Append(<<"=">> \o value, c) = <<"=">> \o Append(value, c)
        BY <1>1, <1>4, <3>1, AppendInto
      <3> QED
        BY <3>3, <3>4, <3>5
    <2> QED
      BY <1>1, <1>4, <1>7, <2>1, <2>2 DEF Kept, read
  <1> QED
    BY <1>1, <1>6, <1>7

LEMMA TypeEndsKept == ASSUME IInv, Kept, TypeEnds PROVE Kept'
  <1>1. /\ state = "type" /\ state' \in {"value", "malformed"}
        /\ subject' = subject /\ elements' = elements /\ type' = type /\ value' = value
        /\ sp' = sp + 1 /\ subject[sp] = "="
        /\ subject \in Seq(Char) /\ sp \in Nat \ {0} /\ sp <= Len(subject)
        /\ type \in Seq(Char) /\ elements \in Seq(Element)
    BY DEF IInv, TypeOK, Counted, TypeEnds, Collecting, More, Text, Delimiter
  <1>2. value = <<>> /\ Behind = (<<"/">> \o Plain(elements)) \o type
    BY <1>1 DEF Kept
  <1> DEFINE read == <<"/">> \o Plain(elements)
  <1>3. read \in Seq(Char) /\ "=" \in Char
    <2>1. Plain(elements) \in Seq(Char) /\ "/" \in Char /\ "=" \in Char
      BY <1>1, PlainIs, SpecialChars
    <2> QED
      BY <2>1
  <1>4. Behind' = Append(Behind, "=")
    BY <1>1, BehindNext DEF Behind
  <1> HIDE DEF read
  <1>5. Append(read \o type, "=") = read \o (type \o (<<"=">> \o <<>>))
    <2>1. <<"=">> \o <<>> = <<"=">>
      OBVIOUS
    <2>2. read \o (type \o <<"=">>) = Append(read \o type, "=")
      BY <1>1, <1>3, AppendInto
    <2> QED
      BY <2>1, <2>2
  <1> QED
    BY <1>1, <1>2, <1>4, <1>5 DEF Kept, read

LEMMA ValueEndsKept == ASSUME IInv, Kept, ValueEnds PROVE Kept'
  <1> DEFINE e == [type |-> type, value |-> value]
             read == <<"/">> \o Plain(elements)
             inside == type \o (<<"=">> \o value)
             then == <<"/">> \o Plain(elements')
  <1>1. /\ state = "value" /\ state' = NextElement(sp')
        /\ subject' = subject /\ elements' = Append(elements, e) /\ type' = <<>> /\ value' = <<>>
        /\ subject \in Seq(Char) /\ sp \in Nat \ {0} /\ sp <= Len(subject) + 1 /\ Len(subject) \in Nat
        /\ type \in Seq(Char) /\ value \in Seq(Char) /\ elements \in Seq(Element)
        /\ e \in Element /\ "/" \in Char /\ "=" \in Char
    BY SpecialChars DEF IInv, TypeOK, InBounds, Counted, ValueEnds, Collecting, Text, Element
  <1>2. Behind = read \o inside
    BY <1>1 DEF Kept
  <1>3. read \in Seq(Char) /\ inside \in Seq(Char) /\ Plain(elements) \in Seq(Char)
    <2>1. Plain(elements) \in Seq(Char)
      BY <1>1, PlainIs
    <2> QED
      BY <1>1, <2>1
  <1>4. then = Append(Behind, "/")
    <2>1. Plain(elements') = Plain(elements) \o PlainPiece(e)
      BY <1>1, PlainAppend
    <2>2. PlainPiece(e) = Append(inside, "/")
      <3>1. PlainPiece(e) = type \o (<<"=">> \o (value \o <<"/">>))
        BY DEF PlainPiece
      <3>2. <<"=">> \in Seq(Char) /\ <<"=">> \o value \in Seq(Char)
        BY <1>1
      <3>3. <<"=">> \o (value \o <<"/">>) = (<<"=">> \o value) \o <<"/">>
        <4>1. <<"/">> \in Seq(Char)
          BY <1>1
        <4> QED
          BY <1>1, <3>2, <4>1, Associative
      <3>4. type \o ((<<"=">> \o value) \o <<"/">>) = Append(type \o (<<"=">> \o value), "/")
        BY <1>1, <3>2, AppendInto
      <3> QED
        BY <3>1, <3>3, <3>4
    <2> DEFINE p == Plain(elements)
    <2> HIDE DEF inside, p
    <2>3. <<"/">> \o (p \o Append(inside, "/")) = Append((<<"/">> \o p) \o inside, "/")
      <3>1. p \in Seq(Char) /\ <<"/">> \in Seq(Char) /\ <<"/">> \o p \in Seq(Char)
        BY <1>1, <1>3 DEF p
      <3>2. Append(inside, "/") \in Seq(Char)
        BY <1>1, <1>3
      <3>3. (<<"/">> \o p) \o Append(inside, "/") = <<"/">> \o (p \o Append(inside, "/"))
        BY <3>1, <3>2, Associative
      <3>4. Append((<<"/">> \o p) \o inside, "/") = (<<"/">> \o p) \o Append(inside, "/")
        BY <1>1, <1>3, <3>1, AppendInto
      <3> QED
        BY <3>3, <3>4
    <2> QED
      BY <1>2, <2>1, <2>2, <2>3 DEF p
  <1> HIDE DEF e, read, inside
  <1>5. CASE More /\ subject[sp] = Delimiter["value"] /\ sp' = sp + 1
    <2>1. Behind' = then
      <3>1. sp <= Len(subject) /\ subject[sp] = "/"
        BY <1>5 DEF More, Delimiter
      <3> HIDE DEF then
      <3> QED
        BY <1>1, <1>4, <1>5, <3>1, BehindNext DEF Behind
    <2>2. CASE state' = "type"
      <3>1. then \in Seq(Char)
        <4>1. Append(elements, e) \in Seq(Element)
          BY <1>1
        <4>2. Plain(Append(elements, e)) \in Seq(Char)
          BY <4>1, PlainIs
        <4>3. Plain(elements') = Plain(Append(elements, e))
          BY <1>1
        <4> QED
          BY <1>1, <4>2, <4>3
      <3>2. then \o <<>> = then
        <4> HIDE DEF then
        <4> QED
          BY <3>1
      <3> QED
        BY <1>1, <2>1, <2>2, <3>2 DEF Kept
    <2>3. CASE state' = "add"
      <3>1. sp = Len(subject)
        BY <1>1, <1>5, <2>3 DEF More, NextElement
      <3>2. Behind' = subject
        <4>1. (sp + 1) - 1 = Len(subject)
          BY <1>1, <3>1
        <4>2. SubSeq(subject, 1, Len(subject)) = subject
          BY <1>1
        <4> QED
          BY <1>1, <1>5, <4>1, <4>2 DEF Behind
      <3> QED
        BY <1>1, <2>1, <2>3, <3>2 DEF Kept
    <2> QED
      BY <1>1, <2>2, <2>3 DEF NextElement
  <1>6. CASE ~More /\ sp' = sp
    <2>1. sp = Len(subject) + 1
      BY <1>1, <1>6 DEF More
    <2>2. Behind = subject
      <3>1. sp - 1 = Len(subject)
        BY <1>1, <2>1
      <3>2. SubSeq(subject, 1, Len(subject)) = subject
        BY <1>1
      <3> QED
        BY <3>1, <3>2 DEF Behind
    <2>3. state' = "add"
      BY <1>1, <1>6, <2>1 DEF NextElement
    <2> QED
      BY <1>1, <1>4, <2>2, <2>3 DEF Kept
  <1> QED
    BY <1>5, <1>6 DEF ValueEnds

LEMMA StepNoLoss == IInv /\ NoLoss /\ [Next]_vars => NoLoss'
  <1> SUFFICES ASSUME IInv, NoLoss, [Next]_vars PROVE NoLoss'
    OBVIOUS
  <1> SUFFICES ASSUME Kept, "\\" \notin Range(subject) PROVE Kept'
    BY SpellingFixed DEF NoLoss
  <1>1. CASE Start
    BY <1>1, StartKept
  <1>2. CASE NoSlash \/ NoMemory \/ TrailingEscape \/ NoValue \/ Named
    BY <1>2 DEF NoSlash, NoMemory, TrailingEscape, NoValue, Named, Stop, Kept
  <1>3. CASE Collect
    BY <1>3, CollectKept
  <1>4. CASE TypeEnds
    BY <1>4, TypeEndsKept
  <1>5. CASE ValueEnds
    BY <1>5, ValueEndsKept
  <1>6. CASE AddEntry \/ Request \/ UNCHANGED vars
    BY <1>6 DEF AddEntry, Request, vars, parsing, Kept, Behind
  <1> QED
    BY <1>1, <1>2, <1>3, <1>4, <1>5, <1>6 DEF Next

LEMMA KeptNothingDropped == IInv /\ NoLoss => NothingDropped
  <1> SUFFICES ASSUME IInv, NoLoss, state = "add", "\\" \notin Range(subject)
               PROVE  SpelledWith(AsIs, elements) \in {subject, Append(subject, "/")}
    BY DEF NothingDropped
  <1>1. elements \in Seq(Element)
    BY DEF IInv, TypeOK
  <1>2. SpelledWith(AsIs, elements) = <<"/">> \o Plain(elements)
    BY <1>1, SpelledPlain
  <1> QED
    BY <1>2 DEF NoLoss, Kept

\* Whatever the subject, no character of it is lost or moved to another element.
THEOREM SubjectIsKept == Spec => []NothingDropped
  BY InitIInv, StepIInv, InitNoLoss, StepNoLoss, KeptNothingDropped, PTL DEF Spec
=============================================================================
