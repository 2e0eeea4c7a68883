----------------------------- MODULE ParserProofs -----------------------------
(***************************************************************************)
(* Proofs about FileRanges and RequestBody, for files, ranges and bodies   *)
(* of any size.                                                            *)
(***************************************************************************)
EXTENDS FileRanges, RequestBody, SequenceTheorems, FiniteSetTheorems, WellFoundedInduction, TLAPS

-----------------------------------------------------------------------------
(* Recursive functions.  The induction is over sets of numbers.             *)

\* A set of numbers with 0 and the successor of each of its members has them all.
LEMMA NatSetInduction ==
  ASSUME NEW T \in SUBSET Nat, 0 \in T, \A n \in T : n + 1 \in T
  PROVE  T = Nat
<1> SUFFICES ASSUME T # Nat PROVE FALSE
  OBVIOUS
<1> DEFINE B == Nat \ T
<1>1. B \subseteq Nat /\ B # {}
  OBVIOUS
<1> HIDE DEF B
<1>2. PICK x \in B : \A y \in B : ~(<<y, x>> \in OpToRel(<, Nat))
  BY <1>1, NatLessThanWellFounded, WFMin
<1>3. x \in Nat /\ x # 0 /\ x - 1 \in Nat /\ x - 1 < x
  BY <1>1 DEF B
<1>4. <<x - 1, x>> \in OpToRel(<, Nat)
  BY <1>3 DEF OpToRel
<1>5. x - 1 \in T
  BY <1>3, <1>4, <1>2 DEF B
<1>6. x \in T
  BY <1>5, <1>3
<1> QED
  BY <1>6 DEF B

\* What FlattenSeq computes, from the left: the function it is defined by is there.
FlattenUpTo(seqs, f, n) == f = [i \in 1 .. n |-> IF i = 1 THEN seqs[i] ELSE f[i - 1] \o seqs[i]]

LEMMA FlattenExists ==
  ASSUME NEW seqs, NEW n \in Nat
  PROVE  \E f : FlattenUpTo(seqs, f, n)
<1> DEFINE T == { k \in Nat : \E f : FlattenUpTo(seqs, f, k) }
<1>1. 0 \in T
  <2>1. FlattenUpTo(seqs, <<>>, 0)
    BY DEF FlattenUpTo
  <2> QED
    BY <2>1
<1>2. ASSUME NEW k \in T PROVE k + 1 \in T
  <2>1. PICK f : FlattenUpTo(seqs, f, k)
    OBVIOUS
  <2> DEFINE g == [i \in 1 .. k + 1 |-> IF i = k + 1
                                        THEN (IF i = 1 THEN seqs[i] ELSE f[i - 1] \o seqs[i])
                                        ELSE f[i]]
  <2>2. \A i \in 1 .. k + 1 : i # 1 => i - 1 \in 1 .. k /\ g[i - 1] = f[i - 1]
    OBVIOUS
  <2>3. \A i \in 1 .. k : f[i] = IF i = 1 THEN seqs[i] ELSE f[i - 1] \o seqs[i]
    BY <2>1 DEF FlattenUpTo
  <2>4. \A i \in 1 .. k + 1 : g[i] = IF i = 1 THEN seqs[i] ELSE g[i - 1] \o seqs[i]
    BY <2>2, <2>3
  <2>5. FlattenUpTo(seqs, g, k + 1)
    BY <2>4 DEF FlattenUpTo
  <2> HIDE DEF g
  <2> QED
    BY <2>5
<1> HIDE DEF T
<1>3. T = Nat
  <2>1. T \subseteq Nat
    BY DEF T
  <2> QED
    BY <1>1, <1>2, <2>1, NatSetInduction
<1> QED
  BY <1>3 DEF T

\* One more sequence comes behind the others.
LEMMA FlattenUpToIs ==
  ASSUME NEW seqs, NEW n \in Nat, n = Len(seqs), n # 0
  PROVE  \E f : FlattenUpTo(seqs, f, n) /\ FlattenSeq(seqs) = f[n]
<1>1. \E f : FlattenUpTo(seqs, f, n)
  BY FlattenExists
<1> DEFINE flat == CHOOSE f : FlattenUpTo(seqs, f, n)
<1>2. FlattenUpTo(seqs, flat, n)
  BY <1>1, Zenon
<1>3. FlattenSeq(seqs) = flat[n]
  BY DEF FlattenSeq, FlattenUpTo
<1> QED
  BY <1>2, <1>3, Zenon

\* It only depends on the sequences up to that one.
LEMMA FlattenAgree ==
  ASSUME NEW s, NEW t, NEW f, NEW g, NEW m \in Nat, NEW n \in Nat, n <= m,
         FlattenUpTo(s, f, m), FlattenUpTo(t, g, n),
         \A i \in 1 .. n : s[i] = t[i]
  PROVE  \A k \in 1 .. n : f[k] = g[k]
<1> DEFINE T == { k \in Nat : k \in 1 .. n => f[k] = g[k] }
<1>1. 0 \in T
  OBVIOUS
<1>2. ASSUME NEW k \in T PROVE k + 1 \in T
  <2> SUFFICES ASSUME k + 1 \in 1 .. n PROVE f[k + 1] = g[k + 1]
    OBVIOUS
  <2>1. k + 1 \in 1 .. m /\ k + 1 \in 1 .. n /\ s[k + 1] = t[k + 1]
    OBVIOUS
  <2>2. /\ f[k + 1] = IF k + 1 = 1 THEN s[k + 1] ELSE f[(k + 1) - 1] \o s[k + 1]
        /\ g[k + 1] = IF k + 1 = 1 THEN t[k + 1] ELSE g[(k + 1) - 1] \o t[k + 1]
    BY <2>1 DEF FlattenUpTo
  <2>3. (k + 1) - 1 = k /\ (k + 1 # 1 => k \in 1 .. n)
    OBVIOUS
  <2> QED
    BY <2>1, <2>2, <2>3
<1> HIDE DEF T
<1>3. T = Nat
  <2>1. T \subseteq Nat
    BY DEF T
  <2> QED
    BY <1>1, <1>2, <2>1, NatSetInduction
<1> QED
  BY <1>3 DEF T

\* The sequences of sequences over a set.
Lists(S) == Seq(Seq(S))

\* What is made of sequences over a set is a sequence over it.
LEMMA FlattenTyped ==
  ASSUME NEW S, NEW seqs \in Lists(S)
  PROVE  FlattenSeq(seqs) \in Seq(S)
<1>1. PICK n \in Nat : n = Len(seqs)
  BY LenProperties DEF Lists
<1>2. CASE n = 0
  <2>1. seqs = <<>>
    BY <1>1, <1>2, EmptySeq DEF Lists
  <2> QED
    BY <1>1, <1>2, <2>1 DEF FlattenSeq
<1>3. CASE n # 0
  <2>1. PICK f : FlattenUpTo(seqs, f, n) /\ FlattenSeq(seqs) = f[n]
    BY <1>1, <1>3, FlattenUpToIs
  <2> DEFINE T == { k \in Nat : k \in 1 .. n => f[k] \in Seq(S) }
  <2>2. 0 \in T
    OBVIOUS
  <2>3. ASSUME NEW k \in T PROVE k + 1 \in T
    <3> SUFFICES ASSUME k + 1 \in 1 .. n PROVE f[k + 1] \in Seq(S)
      OBVIOUS
    <3>1. f[k + 1] = IF k + 1 = 1 THEN seqs[k + 1] ELSE f[(k + 1) - 1] \o seqs[k + 1]
      BY <2>1 DEF FlattenUpTo
    <3>2. (k + 1) - 1 = k /\ (k + 1 # 1 => k \in 1 .. n)
      OBVIOUS
    <3>3. seqs[k + 1] \in Seq(S)
      BY <1>1, ElementOfSeq DEF Lists
    <3>4. k + 1 # 1 => f[k] \in Seq(S)
      BY <3>2
    <3> HIDE DEF T
    <3> QED
      BY <3>1, <3>2, <3>3, <3>4, ConcatProperties
  <2> HIDE DEF T
  <2>4. T = Nat
    <3>1. T \subseteq Nat
      BY DEF T
    <3> QED
      BY <2>2, <2>3, <3>1, NatSetInduction
  <2> QED
    BY <2>1, <2>4, <1>3 DEF T
<1> QED
  BY <1>2, <1>3

\* One more sequence comes behind the others.
LEMMA FlattenAppend ==
  ASSUME NEW S, NEW seqs \in Lists(S), NEW e \in Seq(S)
  PROVE  FlattenSeq(Append(seqs, e)) = FlattenSeq(seqs) \o e
<1>1. PICK n \in Nat : n = Len(seqs)
  BY LenProperties DEF Lists
<1> DEFINE longer == Append(seqs, e)
<1>2. /\ longer \in Lists(S) /\ Len(longer) = n + 1 /\ longer[n + 1] = e
      /\ \A i \in 1 .. n : longer[i] = seqs[i]
  BY <1>1, AppendProperties DEF Lists
<1> HIDE DEF longer
<1>3. n + 1 \in Nat /\ n + 1 # 0 /\ n <= n + 1 /\ (n + 1) - 1 = n /\ n + 1 \in 1 .. n + 1
  OBVIOUS
<1>4. PICK f : FlattenUpTo(longer, f, n + 1) /\ FlattenSeq(longer) = f[n + 1]
  BY <1>2, <1>3, FlattenUpToIs
<1>5. f[n + 1] = IF n + 1 = 1 THEN e ELSE f[n] \o e
  BY <1>2, <1>3, <1>4 DEF FlattenUpTo
<1>6. CASE n = 0
  <2>1. FlattenSeq(seqs) = <<>>
    BY <1>1, <1>6, EmptySeq DEF FlattenSeq, Lists
  <2> QED
    BY <1>4, <1>5, <1>6, <2>1, ConcatEmptySeq DEF longer
<1>7. CASE n # 0
  <2>1. PICK g : FlattenUpTo(seqs, g, n) /\ FlattenSeq(seqs) = g[n]
    BY <1>1, <1>7, FlattenUpToIs
  <2>2. \A k \in 1 .. n : f[k] = g[k]
    <3>1. \A i \in 1 .. n : longer[i] = seqs[i]
      BY <1>2
    <3>2. FlattenUpTo(longer, f, n + 1) /\ FlattenUpTo(seqs, g, n) /\ n + 1 \in Nat /\ n <= n + 1
      BY <1>3, <1>4, <2>1
    <3> QED
      BY <3>1, <3>2, FlattenAgree
  <2>3. n \in 1 .. n /\ n + 1 # 1
    BY <1>7
  <2> QED
    BY <1>4, <1>5, <2>1, <2>2, <2>3 DEF longer
<1> QED
  BY <1>6, <1>7

\* One sequence less stands in front of the others.
LEMMA FlattenHead ==
  ASSUME NEW S, NEW seqs \in Lists(S), seqs # <<>>
  PROVE  FlattenSeq(seqs) = Head(seqs) \o FlattenSeq(Tail(seqs))
<1>1. PICK n \in Nat : n = Len(seqs)
  BY LenProperties DEF Lists
<1>2. n # 0 /\ seqs[1] = Head(seqs) /\ Head(seqs) \in Seq(S)
  BY <1>1, HeadTailProperties, EmptySeq DEF Lists
<1>3. /\ Tail(seqs) \in Lists(S) /\ Len(Tail(seqs)) = n - 1
      /\ \A i \in 1 .. n - 1 : Tail(seqs)[i] = seqs[i + 1]
  BY <1>1, <1>2, HeadTailProperties DEF Lists
<1>4. \A i \in 1 .. n : seqs[i] \in Seq(S)
  BY <1>1, ElementOfSeq DEF Lists
<1>5. PICK f : FlattenUpTo(seqs, f, n) /\ FlattenSeq(seqs) = f[n]
  BY <1>1, <1>2, FlattenUpToIs
<1>6. \A i \in 1 .. n : f[i] = IF i = 1 THEN seqs[i] ELSE f[i - 1] \o seqs[i]
  BY <1>5 DEF FlattenUpTo
<1>7. CASE n = 1
  <2>0. Len(Tail(seqs)) = 0
    BY <1>3, <1>7
  <2>1. Tail(seqs) = <<>>
    BY <1>3, <2>0, EmptySeq DEF Lists
  <2>2. FlattenSeq(Tail(seqs)) = <<>>
    BY <2>1, EmptySeq DEF FlattenSeq
  <2> QED
    BY <1>2, <1>5, <1>6, <1>7, <2>2, ConcatEmptySeq
<1>8. CASE n # 1
  <2>1. PICK m \in Nat : m = n - 1 /\ m # 0
    BY <1>2, <1>8
  <2>2. PICK g : FlattenUpTo(Tail(seqs), g, m) /\ FlattenSeq(Tail(seqs)) = g[m]
    BY <1>3, <2>1, FlattenUpToIs
  <2>3. \A i \in 1 .. m : g[i] = IF i = 1 THEN seqs[i + 1] ELSE g[i - 1] \o seqs[i + 1]
    BY <1>3, <2>1, <2>2 DEF FlattenUpTo
  <2> DEFINE T == { k \in Nat : k \in 1 .. m => g[k] \in Seq(S) /\ f[k + 1] = Head(seqs) \o g[k] }
  <2>4. 0 \in T
    OBVIOUS
  <2>5. ASSUME NEW k \in T PROVE k + 1 \in T
    <3>0. k \in Nat /\ k + 1 \in Nat
      OBVIOUS
    <3> SUFFICES ASSUME k + 1 \in 1 .. m
                 PROVE  g[k + 1] \in Seq(S) /\ f[(k + 1) + 1] = Head(seqs) \o g[k + 1]
      BY <3>0, Zenon
    <3>1. /\ (k + 1) + 1 \in 1 .. n /\ (k + 1) + 1 # 1 /\ ((k + 1) + 1) - 1 = k + 1
          /\ (k + 1) - 1 = k
      BY <2>1
    <3>2. f[(k + 1) + 1] = f[k + 1] \o seqs[(k + 1) + 1] /\ seqs[(k + 1) + 1] \in Seq(S)
      BY <1>4, <1>6, <3>1
    <3>3. g[k + 1] = IF k + 1 = 1 THEN seqs[(k + 1) + 1] ELSE g[k] \o seqs[(k + 1) + 1]
      BY <2>3, <3>1
    <3>4. CASE k = 0
      <4>1. f[k + 1] = Head(seqs)
        BY <1>2, <1>6, <2>1, <3>4
      <4> QED
        BY <3>2, <3>3, <3>4, <4>1
    <3>5. CASE k # 0
      <4>0. k \in 1 .. m
        BY <3>0, <3>5
      <4>1. g[k] \in Seq(S) /\ f[k + 1] = Head(seqs) \o g[k]
        BY <4>0, Zenon
      <4> HIDE DEF T
      <4>2. (Head(seqs) \o g[k]) \o seqs[(k + 1) + 1] = Head(seqs) \o (g[k] \o seqs[(k + 1) + 1])
        <5>1. PICK x \in Seq(S), y \in Seq(S), z \in Seq(S) :
                x = Head(seqs) /\ y = g[k] /\ z = seqs[(k + 1) + 1]
          BY <1>2, <3>2, <4>1, Zenon
        <5>2. (x \o y) \o z = x \o (y \o z)
          BY ConcatAssociative
        <5> QED
          BY <5>1, <5>2, Zenon
      <4>3. g[k] \o seqs[(k + 1) + 1] \in Seq(S)
        BY <3>2, <4>1, ConcatProperties
      <4>4. k + 1 # 1
        BY <3>0, <3>5
      <4> QED
        BY <3>2, <3>3, <4>1, <4>2, <4>3, <4>4, Zenon
    <3> QED
      BY <3>4, <3>5
  <2> HIDE DEF T
  <2>6. T = Nat
    <3>1. T \subseteq Nat
      BY DEF T
    <3> QED
      BY <2>4, <2>5, <3>1, NatSetInduction
  <2>7. f[m + 1] = Head(seqs) \o g[m]
    <3>1. m \in T /\ m \in 1 .. m
      BY <2>1, <2>6
    <3> QED
      BY <3>1, Zenon DEF T
  <2>8. m + 1 = n
    BY <2>1
  <2> QED
    BY <1>5, <2>2, <2>7, <2>8, Zenon
<1> QED
  BY <1>7, <1>8

-----------------------------------------------------------------------------
(* Ranges and their parts                                                   *)

\* The positions of a part.
Covered(part) == part.begin .. part.begin + part.length - 1

\* A range whose end lies inside the file names exactly the positions that the header asks
\* for; nothing, when it is written backwards (lines 86-110).
THEOREM EndsInsideIsAsked ==
  ASSUME NEW spec \in Specs, NEW size \in Nat, EndsInside(spec, size), spec.last # Absent
  PROVE  Covered(PartOf(spec, size)) = Asked(spec, size)
<1> DEFINE part == PartOf(spec, size)
<1>1. spec.first \in Nat /\ spec.last \in Nat /\ spec.last < size
  BY DEF Specs, Numbers, Absent, EndsInside
<1>2. part = IF spec.first <= spec.last THEN Part(spec.first, spec.last - spec.first + 1)
                                        ELSE NoPart
  BY <1>1 DEF PartOf, FromStart, Absent
<1>3. Asked(spec, size) = { p \in 0 .. size - 1 : p >= spec.first /\ p <= spec.last }
  BY <1>1 DEF Asked, Absent
<1> QED
  BY <1>1, <1>2, <1>3 DEF Part, NoPart, Covered

\* A range without an end is the rest of the file.
THEOREM OpenRangeIsAsked ==
  ASSUME NEW spec \in Specs, NEW size \in Nat, spec.first # Absent, spec.last = Absent
  PROVE  Covered(PartOf(spec, size)) = Asked(spec, size)
<1>1. spec.first \in Nat
  BY DEF Specs, Numbers, Absent
<1>2. PartOf(spec, size) = IF spec.first >= size THEN NoPart
                           ELSE Part(spec.first, size - spec.first)
  BY <1>1 DEF PartOf, FromStart, Absent
<1>3. Asked(spec, size) = { p \in 0 .. size - 1 : p >= spec.first }
  BY DEF Asked, Absent
<1> QED
  BY <1>1, <1>2, <1>3 DEF Part, NoPart, Covered

\* A range that ends at or behind the end of the file is announced with one position more
\* than there is (line 93): its last position is the size of the file.
THEOREM PastTheEndIsOneMore ==
  ASSUME NEW spec \in Specs, NEW size \in Nat,
         spec.first # Absent, spec.first < size, spec.last >= size
  PROVE  /\ Covered(PartOf(spec, size)) = Asked(spec, size) \union {size}
         /\ size \notin Asked(spec, size)
<1>1. spec.first \in Nat /\ spec.last \in Nat
  BY DEF Specs, Numbers, Absent
<1>2. PartOf(spec, size) = Part(spec.first, size - spec.first + 1)
  BY <1>1 DEF PartOf, FromStart, Absent
<1>3. Asked(spec, size) = { p \in 0 .. size - 1 : p >= spec.first }
  BY <1>1 DEF Asked, Absent
<1> QED
  BY <1>1, <1>2, <1>3 DEF Part, Covered

\* No part is longer than the file by more than that position, and none begins behind it.
THEOREM PartsFitTheFile ==
  ASSUME NEW spec \in Specs, NEW size \in Nat
  PROVE  LET part == PartOf(spec, size)
         IN  part.begin \in Nat /\ part.length \in Nat /\ part.begin + part.length <= size + 1
<1>1. CASE spec.first # Absent
  BY <1>1 DEF PartOf, FromStart, Part, NoPart, Specs, Numbers, Absent
<1>2. CASE spec.first = Absent /\ spec.last # Absent
  BY <1>2 DEF PartOf, FromEnd, Part, NoPart, Specs, Numbers, Absent
<1>3. CASE spec.first = Absent /\ spec.last = Absent
  BY <1>3 DEF PartOf, NoPart, Part
<1> QED
  BY <1>1, <1>2, <1>3

-----------------------------------------------------------------------------
(* The parts of a Range header, together                                    *)

FileParts == [begin : Nat, length : Nat]

\* The positions of parts, in their order.
PartLists(parts)    == [i \in DOMAIN parts |-> Positions(parts[i].begin, parts[i].length)]
PositionsOf(parts)  == FlattenSeq(PartLists(parts))

LEMMA PositionsTyped ==
  ASSUME NEW from \in Nat, NEW n \in Nat
  PROVE  /\ Positions(from, n) \in Seq(Nat) /\ Len(Positions(from, n)) = n
         /\ \A i \in 1 .. n : Positions(from, n)[i] = from + i - 1
BY DEF Positions

LEMMA PartListsTyped ==
  ASSUME NEW parts \in Seq(FileParts)
  PROVE  PartLists(parts) \in Lists(Nat) /\ Len(PartLists(parts)) = Len(parts)
<1>1. PICK n \in Nat : n = Len(parts) /\ DOMAIN parts = 1 .. n
  BY LenProperties
<1>2. \A i \in 1 .. n : parts[i] \in FileParts
  BY <1>1, ElementOfSeq
<1>3. \A i \in 1 .. n : Positions(parts[i].begin, parts[i].length) \in Seq(Nat)
  BY <1>2, PositionsTyped DEF FileParts
<1>4. PartLists(parts) \in [1 .. n -> Seq(Nat)]
  BY <1>1, <1>3, Zenon DEF PartLists
<1> QED
  BY <1>1, <1>4 DEF Lists

\* The sum that ContentLength computes.
SumUpTo(parts, f, n) ==
  f = [k \in 0 .. n |-> IF k = 0 THEN 0 ELSE f[k - 1] + parts[k].length]

LEMMA SumExists ==
  ASSUME NEW parts, NEW n \in Nat
  PROVE  \E f : SumUpTo(parts, f, n)
<1> DEFINE T == { k \in Nat : \E f : SumUpTo(parts, f, k) }
<1>1. 0 \in T
  <2>1. SumUpTo(parts, [k \in 0 .. 0 |-> 0], 0)
    BY DEF SumUpTo
  <2> QED
    BY <2>1
<1>2. ASSUME NEW k \in T PROVE k + 1 \in T
  <2>1. PICK f : SumUpTo(parts, f, k)
    OBVIOUS
  <2> DEFINE g == [i \in 0 .. k + 1 |-> IF i = k + 1 THEN f[k] + parts[i].length ELSE f[i]]
  <2>2. \A i \in 0 .. k + 1 : i # 0 => i - 1 \in 0 .. k /\ g[i - 1] = f[i - 1]
    OBVIOUS
  <2>3. \A i \in 0 .. k : f[i] = IF i = 0 THEN 0 ELSE f[i - 1] + parts[i].length
    BY <2>1 DEF SumUpTo
  <2>4. \A i \in 0 .. k + 1 : g[i] = IF i = 0 THEN 0 ELSE g[i - 1] + parts[i].length
    BY <2>2, <2>3
  <2>5. SumUpTo(parts, g, k + 1)
    BY <2>4 DEF SumUpTo
  <2> HIDE DEF g
  <2> QED
    BY <2>5
<1> HIDE DEF T
<1>3. T = Nat
  <2>1. T \subseteq Nat
    BY DEF T
  <2> QED
    BY <1>1, <1>2, <2>1, NatSetInduction
<1> QED
  BY <1>3 DEF T

LEMMA SumUpToIs ==
  ASSUME NEW parts, NEW n \in Nat, n = Len(parts)
  PROVE  \E f : SumUpTo(parts, f, n) /\ ContentLength(parts) = f[n]
<1>1. \E f : SumUpTo(parts, f, n)
  BY SumExists
<1> DEFINE sum == CHOOSE f : SumUpTo(parts, f, n)
<1>2. SumUpTo(parts, sum, n)
  BY <1>1, Zenon
<1>3. ContentLength(parts) = sum[n]
  BY DEF ContentLength, SumUpTo
<1> QED
  BY <1>2, <1>3, Zenon

\* The announced length of the parts is the number of their positions.
LEMMA LengthOfParts ==
  ASSUME NEW parts \in Seq(FileParts)
  PROVE  ContentLength(parts) = Len(PositionsOf(parts)) /\ PositionsOf(parts) \in Seq(Nat)
<1>1. PICK n \in Nat : n = Len(parts) /\ DOMAIN parts = 1 .. n
  BY LenProperties
<1>2. \A i \in 1 .. n : parts[i] \in FileParts
  BY <1>1, ElementOfSeq
<1>3. PICK lists : lists = PartLists(parts)
  OBVIOUS
<1>4. lists \in Lists(Nat) /\ Len(lists) = n
  BY <1>1, <1>3, PartListsTyped
<1>5. \A i \in 1 .. n : lists[i] \in Seq(Nat) /\ Len(lists[i]) = parts[i].length
  BY <1>1, <1>2, <1>3, PositionsTyped DEF PartLists, FileParts
<1>6. PICK f : SumUpTo(parts, f, n) /\ ContentLength(parts) = f[n]
  BY <1>1, SumUpToIs
<1>7. \A k \in 0 .. n : f[k] = IF k = 0 THEN 0 ELSE f[k - 1] + parts[k].length
  BY <1>6 DEF SumUpTo
<1>8. CASE n = 0
  <2>1. FlattenSeq(lists) = <<>>
    BY <1>4, <1>8, EmptySeq DEF FlattenSeq, Lists
  <2>2. f[n] = 0
    BY <1>7, <1>8
  <2> QED
    BY <2>1, <2>2, <1>3, <1>6, EmptySeq DEF PositionsOf
<1>9. CASE n # 0
  <2>1. PICK g : FlattenUpTo(lists, g, n) /\ FlattenSeq(lists) = g[n]
    BY <1>4, <1>9, FlattenUpToIs
  <2>2. \A i \in 1 .. n : g[i] = IF i = 1 THEN lists[i] ELSE g[i - 1] \o lists[i]
    BY <2>1 DEF FlattenUpTo
  <2> DEFINE T == { k \in Nat : k \in 1 .. n => g[k] \in Seq(Nat) /\ Len(g[k]) = f[k] }
  <2>3. 0 \in T
    OBVIOUS
  <2>4. ASSUME NEW k \in T PROVE k + 1 \in T
    <3>0. k \in Nat /\ k + 1 \in Nat
      OBVIOUS
    <3> SUFFICES ASSUME k + 1 \in 1 .. n
                 PROVE  g[k + 1] \in Seq(Nat) /\ Len(g[k + 1]) = f[k + 1]
      BY <3>0, Zenon
    <3>1. /\ (k + 1) - 1 = k /\ (k + 1 = 1 <=> k = 0) /\ k + 1 \in 0 .. n /\ k + 1 # 0
          /\ (k # 0 => k \in 1 .. n)
      BY <3>0
    <3>2. f[k + 1] = f[k] + parts[k + 1].length
      BY <1>7, <3>1
    <3>3. g[k + 1] = IF k = 0 THEN lists[k + 1] ELSE g[k] \o lists[k + 1]
      BY <2>2, <3>1
    <3>4. lists[k + 1] \in Seq(Nat) /\ Len(lists[k + 1]) = parts[k + 1].length
      BY <1>5
    <3>5. CASE k = 0
      <4>1. f[k] = 0
        BY <1>7, <3>5
      <4>2. parts[k + 1].length \in Nat
        BY <1>2 DEF FileParts
      <4> QED
        BY <3>2, <3>3, <3>4, <3>5, <4>1, <4>2
    <3>6. CASE k # 0
      <4>1. g[k] \in Seq(Nat) /\ Len(g[k]) = f[k]
        BY <3>1, <3>6, Zenon
      <4> HIDE DEF T
      <4>2. PICK x \in Seq(Nat), y \in Seq(Nat) : x = g[k] /\ y = lists[k + 1]
        BY <3>4, <4>1, Zenon
      <4>3. x \o y \in Seq(Nat) /\ Len(x \o y) = Len(x) + Len(y)
        BY ConcatProperties
      <4> QED
        BY <3>2, <3>3, <3>4, <3>6, <4>1, <4>2, <4>3
    <3> QED
      BY <3>5, <3>6
  <2> HIDE DEF T
  <2>5. T = Nat
    <3>1. T \subseteq Nat
      BY DEF T
    <3> QED
      BY <2>3, <2>4, <3>1, NatSetInduction
  <2>6. g[n] \in Seq(Nat) /\ Len(g[n]) = f[n]
    BY <1>9, <2>5 DEF T
  <2> QED
    BY <2>1, <2>6, <1>3, <1>6 DEF PositionsOf
<1> QED
  BY <1>8, <1>9

\* The positions of a part that is sent are in front of those of the parts behind it.
LEMMA PositionsOfTail ==
  ASSUME NEW parts \in Seq(FileParts), parts # <<>>
  PROVE  /\ Head(parts) \in FileParts /\ Tail(parts) \in Seq(FileParts)
         /\ PositionsOf(parts) = Positions(Head(parts).begin, Head(parts).length)
                                   \o PositionsOf(Tail(parts))
<1>1. PICK n \in Nat : n = Len(parts) /\ DOMAIN parts = 1 .. n
  BY LenProperties
<1>2. /\ n # 0 /\ parts[1] = Head(parts) /\ Head(parts) \in FileParts
      /\ Tail(parts) \in Seq(FileParts)
      /\ Len(Tail(parts)) = n - 1 /\ \A i \in 1 .. n - 1 : Tail(parts)[i] = parts[i + 1]
  BY <1>1, HeadTailProperties, EmptySeq
<1>3. PICK lists : lists = PartLists(parts)
  OBVIOUS
<1>4. lists \in Lists(Nat) /\ Len(lists) = n
  BY <1>1, <1>3, PartListsTyped
<1>5. lists # <<>> /\ Head(lists) = Positions(Head(parts).begin, Head(parts).length)
  <2>1. lists # <<>> /\ Head(lists) = lists[1]
    BY <1>2, <1>4, HeadTailProperties, EmptySeq DEF Lists
  <2> QED
    BY <2>1, <1>1, <1>2, <1>3 DEF PartLists
<1>6. Tail(lists) = PartLists(Tail(parts))
  <2>1. /\ Tail(lists) \in Lists(Nat) /\ Len(Tail(lists)) = n - 1
        /\ \A i \in 1 .. n - 1 : Tail(lists)[i] = lists[i + 1]
    BY <1>4, <1>5, HeadTailProperties DEF Lists
  <2>2. PartLists(Tail(parts)) \in Lists(Nat) /\ Len(PartLists(Tail(parts))) = n - 1
    BY <1>2, PartListsTyped
  <2>3. \A i \in 1 .. n - 1 : PartLists(Tail(parts))[i] = lists[i + 1]
    <3>1. DOMAIN Tail(parts) = 1 .. n - 1 /\ \A i \in 1 .. n - 1 : i + 1 \in 1 .. n
      BY <1>2, LenProperties
    <3> QED
      BY <1>1, <1>2, <1>3, <3>1 DEF PartLists
  <2> QED
    BY <2>1, <2>2, <2>3, SeqEqual DEF Lists
<1>7. FlattenSeq(lists) = Head(lists) \o FlattenSeq(Tail(lists))
  BY <1>4, <1>5, FlattenHead
<1> QED
  BY <1>2, <1>3, <1>5, <1>6, <1>7 DEF PositionsOf

\* The positions of an interval in ascending order.
LEMMA AscendingInterval ==
  ASSUME NEW a \in Nat, NEW n \in Nat
  PROVE  Ascending(a .. a + n - 1) = Positions(a, n)
<1> DEFINE S == a .. a + n - 1
<1>1. Cardinality(S) = n
  <2>1. a + n - 1 \in Int
    OBVIOUS
  <2>2. Cardinality(S) = IF a > a + n - 1 THEN 0 ELSE (a + n - 1) - a + 1
    BY <2>1, FS_Interval
  <2> HIDE DEF S
  <2> QED
    BY <2>2
<1>2. \A p \in S : Cardinality({ q \in S : q < p }) = p - a
  <2> TAKE p \in S
  <2>1. { q \in S : q < p } = a .. p - 1
    OBVIOUS
  <2>2. p \in Int /\ p - 1 \in Int /\ p >= a
    OBVIOUS
  <2>3. Cardinality(a .. p - 1) = IF a > p - 1 THEN 0 ELSE (p - 1) - a + 1
    BY <2>2, FS_Interval
  <2>4. Cardinality(a .. p - 1) = p - a
    BY <2>2, <2>3
  <2> HIDE DEF S
  <2> QED
    BY <2>1, <2>4, Zenon
<1>3. \A i \in 1 .. n : (CHOOSE p \in S : Cardinality({ q \in S : q < p }) = i - 1) = a + i - 1
  <2> TAKE i \in 1 .. n
  <2>1. a + i - 1 \in S /\ (a + i - 1) - a = i - 1
    OBVIOUS
  <2>2. \A p \in S : p - a = i - 1 => p = a + i - 1
    OBVIOUS
  <2> HIDE DEF S
  <2>3. \A p \in S : Cardinality({ q \in S : q < p }) = i - 1 <=> p = a + i - 1
    BY <1>2, <2>1, <2>2
  <2> QED
    BY <2>1, <2>3
<1> HIDE DEF S
<1>4. Ascending(S) = Positions(a, n)
  BY <1>1, <1>3 DEF Ascending, Positions
<1> QED
  BY <1>4 DEF S

\* A range that ends inside the file becomes a part that lies in the file, or none.
LEMMA InsideParts ==
  ASSUME NEW spec \in Specs, NEW size \in Nat, EndsInside(spec, size)
  PROVE  LET part == PartOf(spec, size)
         IN  /\ part \in FileParts /\ part.begin + part.length <= size
             /\ part # NoPart => part.length > 0
             /\ Ascending(Asked(spec, size)) = Positions(part.begin, part.length)
<1> DEFINE part == PartOf(spec, size)
<1>1. spec.first \in Nat /\ spec.last \in Numbers /\ spec.last < size
  BY DEF Specs, Numbers, Absent, EndsInside
<1>2. /\ part \in FileParts /\ part.begin + part.length <= size
      /\ part # NoPart => part.length > 0
  BY <1>1 DEF PartOf, FromStart, Part, NoPart, Numbers, Absent, FileParts
<1>3. Covered(part) = Asked(spec, size)
  BY EndsInsideIsAsked, OpenRangeIsAsked DEF EndsInside
<1>4. part.begin \in Nat /\ part.length \in Nat
  BY <1>2 DEF FileParts
<1> HIDE DEF part
<1>5. Ascending(Covered(part)) = Positions(part.begin, part.length)
  BY <1>4, AscendingInterval DEF Covered
<1> QED
  BY <1>2, <1>3, <1>5 DEF part

\* The parts that getRanges has after so many ranges.
RangesUpTo(unit, specs, size, f, n) ==
  f = [k \in 0 .. n |->
         IF k = 0 \/ unit # "bytes" THEN <<>>
         ELSE LET part == PartOf(specs[k], size)
              IN  IF part = NoPart THEN f[k - 1] ELSE Append(f[k - 1], part)]

LEMMA RangesExist ==
  ASSUME NEW unit, NEW specs, NEW size, NEW n \in Nat
  PROVE  \E f : RangesUpTo(unit, specs, size, f, n)
<1> DEFINE T == { k \in Nat : \E f : RangesUpTo(unit, specs, size, f, k) }
<1>1. 0 \in T
  <2>1. RangesUpTo(unit, specs, size, [k \in 0 .. 0 |-> <<>>], 0)
    BY DEF RangesUpTo
  <2> QED
    BY <2>1
<1>2. ASSUME NEW k \in T PROVE k + 1 \in T
  <2>1. PICK f : RangesUpTo(unit, specs, size, f, k)
    OBVIOUS
  <2> DEFINE more(i, before) == LET part == PartOf(specs[i], size)
                                IN  IF part = NoPart THEN before ELSE Append(before, part)
             g == [i \in 0 .. k + 1 |->
                     IF i = k + 1 THEN (IF unit # "bytes" THEN <<>> ELSE more(i, f[k])) ELSE f[i]]
  <2>2. \A i \in 0 .. k : f[i] = IF i = 0 \/ unit # "bytes" THEN <<>> ELSE more(i, f[i - 1])
    BY <2>1, Zenon DEF RangesUpTo
  <2> HIDE DEF more
  <2>3. \A i \in 0 .. k + 1 : i # 0 => i - 1 \in 0 .. k /\ g[i - 1] = f[i - 1]
    OBVIOUS
  <2>4. \A i \in 0 .. k + 1 : g[i] = IF i = 0 \/ unit # "bytes" THEN <<>> ELSE more(i, g[i - 1])
    BY <2>2, <2>3
  <2>5. DOMAIN g = 0 .. k + 1 /\ g = [i \in 0 .. k + 1 |-> g[i]]
    OBVIOUS
  <2> HIDE DEF g
  <2>6. g = [i \in 0 .. k + 1 |-> IF i = 0 \/ unit # "bytes" THEN <<>> ELSE more(i, g[i - 1])]
    BY <2>4, <2>5
  <2>7. RangesUpTo(unit, specs, size, g, k + 1)
    BY <2>6, Zenon DEF RangesUpTo, more
  <2> QED
    BY <2>7
<1> HIDE DEF T
<1>3. T = Nat
  <2>1. T \subseteq Nat
    BY DEF T
  <2> QED
    BY <1>1, <1>2, <2>1, NatSetInduction
<1> QED
  BY <1>3 DEF T

LEMMA RangesUpToIs ==
  ASSUME NEW unit, NEW specs, NEW size, NEW n \in Nat, n = Len(specs)
  PROVE  \E f : RangesUpTo(unit, specs, size, f, n) /\ getRanges(unit, specs, size) = f[n]
<1>1. \E f : RangesUpTo(unit, specs, size, f, n)
  BY RangesExist
<1> DEFINE ranges == CHOOSE f : RangesUpTo(unit, specs, size, f, n)
<1>2. RangesUpTo(unit, specs, size, ranges, n)
  BY <1>1, Zenon
<1>3. getRanges(unit, specs, size) = ranges[n]
  BY Zenon DEF getRanges, RangesUpTo
<1> QED
  BY <1>2, <1>3, Zenon

\* Another unit than bytes has no parts.
LEMMA OnlyBytes ==
  ASSUME NEW unit, NEW S, NEW specs \in Seq(S), NEW size, unit # "bytes"
  PROVE  ContentLength(getRanges(unit, specs, size)) = 0
<1>1. PICK n \in Nat : n = Len(specs)
  BY LenProperties
<1>2. PICK f : RangesUpTo(unit, specs, size, f, n) /\ getRanges(unit, specs, size) = f[n]
  BY <1>1, RangesUpToIs
<1>3. getRanges(unit, specs, size) = <<>>
  BY <1>2 DEF RangesUpTo
<1>4. 0 = Len(<<>>)
  OBVIOUS
<1>5. PICK g : SumUpTo(<<>>, g, 0) /\ ContentLength(<<>>) = g[0]
  BY <1>4, SumUpToIs
<1> QED
  BY <1>3, <1>5 DEF SumUpTo

LEMMA ListUpTo ==
  ASSUME NEW S, NEW k \in Nat, NEW g, \A i \in 1 .. k : g[i] \in S
  PROVE  [i \in 1 .. k |-> g[i]] \in Seq(S) /\ Len([i \in 1 .. k |-> g[i]]) = k
<1>1. [i \in 1 .. k |-> g[i]] \in [1 .. k -> S]
  OBVIOUS
<1> QED
  BY <1>1

\* When all ranges end inside the file, the parts are what the header asks for, in its
\* order, and lie in the file.
THEOREM RangesAreAsked ==
  ASSUME NEW specs \in Seq(Specs), NEW size \in Nat,
         \A k \in DOMAIN specs : EndsInside(specs[k], size)
  PROVE  LET parts == getRanges("bytes", specs, size)
         IN  /\ parts \in Seq(FileParts)
             /\ \A i \in DOMAIN parts : /\ parts[i].length > 0
                                        /\ parts[i].begin + parts[i].length <= size
             /\ PositionsOf(parts) = AskedInOrder(specs, size)
             /\ ContentLength(parts) = Len(AskedInOrder(specs, size))
<1>1. PICK n \in Nat : n = Len(specs) /\ DOMAIN specs = 1 .. n
  BY LenProperties
<1>2. PICK f : RangesUpTo("bytes", specs, size, f, n) /\ getRanges("bytes", specs, size) = f[n]
  BY <1>1, RangesUpToIs
<1>3. \A k \in 0 .. n : f[k] = IF k = 0 THEN <<>>
                               ELSE IF PartOf(specs[k], size) = NoPart THEN f[k - 1]
                               ELSE Append(f[k - 1], PartOf(specs[k], size))
  BY <1>2 DEF RangesUpTo
<1> DEFINE asked == [i \in 1 .. n |-> Ascending(Asked(specs[i], size))]
           first(k) == [i \in 1 .. k |-> asked[i]]
           inFile(part) == /\ part \in FileParts /\ part.length > 0
                           /\ part.begin + part.length <= size
           Good(k) == /\ f[k] \in Seq(FileParts)
                      /\ \A i \in DOMAIN f[k] : inFile(f[k][i])
                      /\ PositionsOf(f[k]) = FlattenSeq(first(k))
<1>4. \A k \in 1 .. n : LET part == PartOf(specs[k], size)
                        IN  /\ part \in FileParts /\ (part # NoPart => inFile(part))
                            /\ asked[k] = Positions(part.begin, part.length)
  <2> TAKE k \in 1 .. n
  <2>1. specs[k] \in Specs /\ EndsInside(specs[k], size)
    BY <1>1, ElementOfSeq
  <2> QED
    BY <2>1, InsideParts
<1>5. \A k \in 1 .. n : asked[k] \in Seq(Nat)
  BY <1>4, PositionsTyped DEF FileParts
<1> HIDE DEF asked
<1>6. \A k \in 0 .. n : first(k) \in Lists(Nat) /\ Len(first(k)) = k
  <2> TAKE k \in 0 .. n
  <2>1. k \in Nat /\ \A i \in 1 .. k : asked[i] \in Seq(Nat)
    BY <1>5
  <2> QED
    BY <2>1, ListUpTo DEF Lists
<1>7. Good(0)
  <2>0. 0 \in 0 .. n
    OBVIOUS
  <2>1. f[0] = <<>> /\ f[0] \in Seq(FileParts) /\ DOMAIN f[0] = {}
    <3>1. f[0] = <<>>
      BY <1>3, <2>0
    <3> QED
      BY <3>1, EmptySeq
  <2>2. PartLists(<<>>) = <<>>
    BY DEF PartLists
  <2>3. first(0) = <<>>
    BY <1>6, EmptySeq DEF Lists
  <2> QED
    BY <2>1, <2>2, <2>3 DEF PositionsOf
<1>8. ASSUME NEW k \in Nat, k + 1 \in 1 .. n, Good(k)
      PROVE  Good(k + 1)
  <2> DEFINE part == PartOf(specs[k + 1], size)
  <2>1. k + 1 \in 0 .. n /\ k \in 0 .. n /\ (k + 1) - 1 = k /\ k + 1 # 0
    BY <1>8
  <2>2. f[k + 1] = IF part = NoPart THEN f[k] ELSE Append(f[k], part)
    BY <1>3, <2>1
  <2>3. /\ part \in FileParts /\ (part # NoPart => inFile(part))
        /\ asked[k + 1] = Positions(part.begin, part.length)
    BY <1>4, <1>8
  <2> HIDE DEF part
  <2>4. first(k + 1) = Append(first(k), asked[k + 1])
    <3>1. first(k) \in Lists(Nat) /\ Len(first(k)) = k
          /\ first(k + 1) \in Lists(Nat) /\ Len(first(k + 1)) = k + 1
      BY <1>6, <2>1
    <3>2. asked[k + 1] \in Seq(Nat)
      BY <1>5, <1>8
    <3>3. /\ Append(first(k), asked[k + 1]) \in Lists(Nat)
          /\ Len(Append(first(k), asked[k + 1])) = k + 1
          /\ \A i \in 1 .. k : Append(first(k), asked[k + 1])[i] = first(k)[i]
          /\ Append(first(k), asked[k + 1])[k + 1] = asked[k + 1]
      BY <3>1, <3>2, AppendProperties DEF Lists
    <3>4. \A i \in 1 .. k + 1 : first(k + 1)[i] = Append(first(k), asked[k + 1])[i]
      <4>1. \A i \in 1 .. k + 1 : first(k + 1)[i] = asked[i]
        OBVIOUS
      <4>2. \A i \in 1 .. k : first(k)[i] = asked[i]
        OBVIOUS
      <4>3. \A i \in 1 .. k + 1 : i = k + 1 \/ i \in 1 .. k
        OBVIOUS
      <4> QED
        BY <3>3, <4>1, <4>2, <4>3
    <3> HIDE DEF first
    <3> QED
      BY <3>1, <3>3, <3>4, SeqEqual DEF Lists
  <2>5. FlattenSeq(first(k + 1)) = FlattenSeq(first(k)) \o asked[k + 1]
    <3>1. first(k) \in Lists(Nat) /\ asked[k + 1] \in Seq(Nat)
      BY <1>5, <1>6, <1>8, <2>1
    <3> HIDE DEF first
    <3>2. FlattenSeq(Append(first(k), asked[k + 1])) = FlattenSeq(first(k)) \o asked[k + 1]
      BY <3>1, FlattenAppend
    <3> QED
      BY <2>4, <3>2
  <2>6. FlattenSeq(first(k)) \in Seq(Nat)
    BY <1>6, <2>1, FlattenTyped
  <2>7. CASE part = NoPart
    <3>1. asked[k + 1] = <<>>
      BY <2>3, <2>7, PositionsTyped, EmptySeq DEF NoPart, Part
    <3> HIDE DEF first
    <3>2. FlattenSeq(first(k)) \o <<>> = FlattenSeq(first(k))
      BY <2>6, ConcatEmptySeq
    <3> QED
      BY <1>8, <2>2, <2>5, <2>7, <3>1, <3>2
  <2>8. CASE part # NoPart
    <3>1. f[k + 1] = Append(f[k], part) /\ f[k] \in Seq(FileParts) /\ part \in FileParts
      BY <1>8, <2>2, <2>3, <2>8
    <3>2. PICK m \in Nat : m = Len(f[k]) /\ DOMAIN f[k] = 1 .. m
      BY <3>1, LenProperties
    <3>3. /\ f[k + 1] \in Seq(FileParts) /\ Len(f[k + 1]) = m + 1 /\ DOMAIN f[k + 1] = 1 .. m + 1
          /\ \A i \in 1 .. m : f[k + 1][i] = f[k][i]
          /\ f[k + 1][m + 1] = part
      <4>1. /\ f[k + 1] \in Seq(FileParts) /\ Len(f[k + 1]) = m + 1
            /\ \A i \in 1 .. m : f[k + 1][i] = f[k][i]
            /\ f[k + 1][m + 1] = part
        BY <3>1, <3>2, AppendProperties
      <4> QED
        BY <4>1, LenProperties
    <3>4. \A i \in DOMAIN f[k + 1] : inFile(f[k + 1][i])
      <4>1. \A i \in 1 .. m + 1 : i = m + 1 \/ i \in 1 .. m
        OBVIOUS
      <4>2. \A i \in 1 .. m : inFile(f[k][i])
        BY <1>8, <3>2
      <4>3. inFile(part)
        BY <2>3, <2>8
      <4> HIDE DEF inFile
      <4> QED
        BY <3>3, <4>1, <4>2, <4>3
    <3>5. PositionsOf(f[k + 1]) = PositionsOf(f[k]) \o asked[k + 1]
      <4>1. PartLists(f[k + 1]) = Append(PartLists(f[k]), asked[k + 1])
        <5>1. /\ PartLists(f[k]) \in Lists(Nat) /\ Len(PartLists(f[k])) = m
              /\ PartLists(f[k + 1]) \in Lists(Nat) /\ Len(PartLists(f[k + 1])) = m + 1
          BY <3>1, <3>2, <3>3, PartListsTyped
        <5>2. asked[k + 1] \in Seq(Nat)
          BY <1>5, <1>8
        <5>3. /\ Append(PartLists(f[k]), asked[k + 1]) \in Lists(Nat)
              /\ Len(Append(PartLists(f[k]), asked[k + 1])) = m + 1
              /\ \A i \in 1 .. m : Append(PartLists(f[k]), asked[k + 1])[i] = PartLists(f[k])[i]
              /\ Append(PartLists(f[k]), asked[k + 1])[m + 1] = asked[k + 1]
          BY <5>1, <5>2, AppendProperties DEF Lists
        <5>4. /\ \A i \in 1 .. m : PartLists(f[k + 1])[i] = PartLists(f[k])[i]
              /\ PartLists(f[k + 1])[m + 1] = asked[k + 1]
          <6>1. \A i \in 1 .. m : i \in 1 .. m + 1
            OBVIOUS
          <6>2. m + 1 \in 1 .. m + 1
            OBVIOUS
          <6> QED
            BY <2>3, <3>2, <3>3, <6>1, <6>2 DEF PartLists
        <5>5. \A i \in 1 .. m + 1 : PartLists(f[k + 1])[i] = Append(PartLists(f[k]), asked[k + 1])[i]
          <6>1. \A i \in 1 .. m + 1 : i = m + 1 \/ i \in 1 .. m
            OBVIOUS
          <6> QED
            BY <5>3, <5>4, <6>1
        <5> QED
          BY <5>1, <5>3, <5>5, SeqEqual DEF Lists
      <4>2. PartLists(f[k]) \in Lists(Nat) /\ asked[k + 1] \in Seq(Nat)
        BY <1>5, <1>8, <3>1, PartListsTyped
      <4>3. FlattenSeq(Append(PartLists(f[k]), asked[k + 1]))
              = FlattenSeq(PartLists(f[k])) \o asked[k + 1]
        BY <4>2, FlattenAppend
      <4> QED
        BY <4>1, <4>3 DEF PositionsOf
    <3> HIDE DEF first, inFile
    <3> QED
      BY <1>8, <2>5, <3>3, <3>4, <3>5
  <2> HIDE DEF Good
  <2> QED
    BY <2>7, <2>8
<1> DEFINE T == { k \in Nat : k \in 0 .. n => Good(k) }
<1> HIDE DEF Good
<1>9. T = Nat
  <2>1. T \subseteq Nat
    OBVIOUS
  <2>2. 0 \in T
    BY <1>7
  <2>3. ASSUME NEW k \in T PROVE k + 1 \in T
    <3>1. k \in Nat /\ k + 1 \in Nat /\ (k + 1 \in 0 .. n => k \in 0 .. n /\ k + 1 \in 1 .. n)
      OBVIOUS
    <3>2. k \in 0 .. n => Good(k)
      OBVIOUS
    <3>3. k + 1 \in 0 .. n => Good(k + 1)
      BY <1>8, <3>1, <3>2
    <3> QED
      BY <3>1, <3>3
  <2> HIDE DEF T
  <2> QED
    BY <2>1, <2>2, <2>3, NatSetInduction
<1>10. Good(n)
  <2>1. n \in 0 .. n
    OBVIOUS
  <2> QED
    BY <1>9, <2>1
<1>11. first(n) = [k \in DOMAIN specs |-> Ascending(Asked(specs[k], size))]
  BY <1>1 DEF asked
<1> HIDE DEF first
<1>12. PositionsOf(f[n]) = AskedInOrder(specs, size)
  BY <1>10, <1>11 DEF Good, AskedInOrder
<1>13. ContentLength(f[n]) = Len(PositionsOf(f[n]))
  BY <1>10, LengthOfParts DEF Good
<1> QED
  BY <1>2, <1>10, <1>12, <1>13 DEF Good

-----------------------------------------------------------------------------
(* The bodies of requests                                                   *)

LEMMA MinIs ==
  ASSUME NEW S \in SUBSET Nat, S # {}
  PROVE  Min(S) \in S /\ \A i \in S : Min(S) <= i
<1>1. PICK x \in S : \A y \in S : ~(<<y, x>> \in OpToRel(<, Nat))
  BY NatLessThanWellFounded, WFMin
<1>2. \A y \in S : x <= y
  <2> SUFFICES ASSUME NEW y \in S, y < x PROVE FALSE
    OBVIOUS
  <2>1. <<y, x>> \in OpToRel(<, Nat)
    BY DEF OpToRel
  <2> QED
    BY <1>1, <2>1
<1>3. \E z \in S : \A y \in S : z =< y
  BY <1>2
<1> QED
  BY <1>3 DEF Min

\* A text stands at a place of a buffer.
At(buf, text, i) == \A k \in DOMAIN text : buf[i + k - 1].t = text[k]

LEMMA FindIs ==
  ASSUME NEW S, NEW buf \in Seq(S), NEW text, NEW cur \in Nat \ {0},
         NEW n \in Int, n = Len(buf) - Len(text) + 1
  PROVE  LET place == Find(buf, text, cur)
         IN  \/ place = NotFound /\ \A i \in cur .. n : ~At(buf, text, i)
             \/ /\ place \in cur .. n /\ At(buf, text, place)
                /\ \A i \in cur .. place - 1 : ~At(buf, text, i)
<1> DEFINE places == { i \in cur .. n : At(buf, text, i) }
<1>1. Find(buf, text, cur) = IF places = {} THEN NotFound ELSE Min(places)
  BY Zenon DEF Find, At
<1>3. places \in SUBSET Nat
  OBVIOUS
<1>4. CASE places = {}
  <2>1. \A i \in cur .. n : ~At(buf, text, i)
    BY <1>4
  <2> HIDE DEF places
  <2> QED
    BY <1>1, <1>4, <2>1
<1>5. CASE places # {}
  <2> HIDE DEF places
  <2>1. Min(places) \in places /\ \A i \in places : Min(places) <= i
    BY <1>3, <1>5, MinIs
  <2>2. Min(places) \in cur .. n /\ At(buf, text, Min(places))
    BY <2>1 DEF places
  <2>3. ASSUME NEW i \in cur .. Min(places) - 1 PROVE ~At(buf, text, i)
    <3>1. i < Min(places) /\ i \in cur .. n
      BY <2>2
    <3>2. i \notin places
      BY <2>1, <2>2, <3>1
    <3> QED
      BY <3>1, <3>2 DEF places
  <2> QED
    BY <1>1, <1>5, <2>2, <2>3
<1> QED
  BY <1>4, <1>5

\* The texts that the multipart parser looks for.
LEMMA FindDelimiter ==
  ASSUME NEW S, NEW buf \in Seq(S), NEW cur \in Nat \ {0}
  PROVE  LET place == Find(buf, Delimiter, cur)
         IN  \/ /\ place = NotFound
                /\ \A i \in cur .. Len(buf) - 1 : ~(buf[i].t = "nl" /\ buf[i + 1].t = "bnd")
             \/ /\ place \in cur .. Len(buf) - 1 /\ buf[place].t = "nl" /\ buf[place + 1].t = "bnd"
                /\ \A i \in cur .. place - 1 : ~(buf[i].t = "nl" /\ buf[i + 1].t = "bnd")
<1>1. /\ Len(Delimiter) = 2 /\ DOMAIN Delimiter = 1 .. 2
      /\ Delimiter[1] = "nl" /\ Delimiter[2] = "bnd"
  BY DEF Delimiter
<1>2. PICK len \in Nat : len = Len(buf)
  BY LenProperties
<1>3. Len(buf) - Len(Delimiter) + 1 = Len(buf) - 1 /\ Len(buf) - 1 \in Int
  BY <1>1, <1>2
<1>4. \A i \in Int : At(buf, Delimiter, i) <=> buf[i].t = "nl" /\ buf[i + 1].t = "bnd"
  <2> TAKE i \in Int
  <2>1. i + 1 - 1 = i /\ i + 2 - 1 = i + 1 /\ 1 \in 1 .. 2 /\ 2 \in 1 .. 2
        /\ \A k \in 1 .. 2 : k = 1 \/ k = 2
    OBVIOUS
  <2> QED
    BY <1>1, <2>1 DEF At
<1>5. LET place == Find(buf, Delimiter, cur)
       IN  \/ place = NotFound /\ \A i \in cur .. Len(buf) - 1 : ~At(buf, Delimiter, i)
           \/ /\ place \in cur .. Len(buf) - 1 /\ At(buf, Delimiter, place)
              /\ \A i \in cur .. place - 1 : ~At(buf, Delimiter, i)
  BY <1>3, FindIs
<1>6. /\ \A i \in cur .. Len(buf) - 1 : i \in Int
      /\ \A place \in cur .. Len(buf) - 1 : \A i \in cur .. place - 1 : i \in Int
  BY <1>2
<1> QED
  BY <1>4, <1>5, <1>6

LEMMA FindEmptyLine ==
  ASSUME NEW S, NEW buf \in Seq(S), NEW cur \in Nat \ {0}
  PROVE  LET place == Find(buf, EmptyLine, cur)
         IN  \/ /\ place = NotFound
                /\ \A i \in cur .. Len(buf) - 1 : ~(buf[i].t = "nl" /\ buf[i + 1].t = "nl")
             \/ /\ place \in cur .. Len(buf) - 1 /\ buf[place].t = "nl" /\ buf[place + 1].t = "nl"
                /\ \A i \in cur .. place - 1 : ~(buf[i].t = "nl" /\ buf[i + 1].t = "nl")
<1>1. /\ Len(EmptyLine) = 2 /\ DOMAIN EmptyLine = 1 .. 2
      /\ EmptyLine[1] = "nl" /\ EmptyLine[2] = "nl"
  BY DEF EmptyLine
<1>2. PICK len \in Nat : len = Len(buf)
  BY LenProperties
<1>3. Len(buf) - Len(EmptyLine) + 1 = Len(buf) - 1 /\ Len(buf) - 1 \in Int
  BY <1>1, <1>2
<1>4. \A i \in Int : At(buf, EmptyLine, i) <=> buf[i].t = "nl" /\ buf[i + 1].t = "nl"
  <2> TAKE i \in Int
  <2>1. i + 1 - 1 = i /\ i + 2 - 1 = i + 1 /\ 1 \in 1 .. 2 /\ 2 \in 1 .. 2
        /\ \A k \in 1 .. 2 : k = 1 \/ k = 2
    OBVIOUS
  <2> QED
    BY <1>1, <2>1 DEF At
<1>5. LET place == Find(buf, EmptyLine, cur)
       IN  \/ place = NotFound /\ \A i \in cur .. Len(buf) - 1 : ~At(buf, EmptyLine, i)
           \/ /\ place \in cur .. Len(buf) - 1 /\ At(buf, EmptyLine, place)
              /\ \A i \in cur .. place - 1 : ~At(buf, EmptyLine, i)
  BY <1>3, FindIs
<1>6. /\ \A i \in cur .. Len(buf) - 1 : i \in Int
      /\ \A place \in cur .. Len(buf) - 1 : \A i \in cur .. place - 1 : i \in Int
  BY <1>2
<1> QED
  BY <1>4, <1>5, <1>6

LEMMA FindDataEnd ==
  ASSUME NEW S, NEW buf \in Seq(S), NEW cur \in Nat \ {0}
  PROVE  LET place == Find(buf, DataEnd, cur)
         IN  \/ place = NotFound
             \/ place \in cur .. Len(buf) - 3 /\ At(buf, DataEnd, place)
<1>1. Len(DataEnd) = 4
  BY DEF DataEnd
<1>2. PICK len \in Nat : len = Len(buf)
  BY LenProperties
<1>3. Len(buf) - Len(DataEnd) + 1 = Len(buf) - 3 /\ Len(buf) - 3 \in Int
  BY <1>1, <1>2
<1> QED
  BY <1>3, FindIs

\* A file's block is being received.
Open(ss) == ss.type = "FILE" /\ ss.state \in {"COPY_DATA_BLOCK", "SAVE_DATA_BLOCK"}

\* The temporary files are numbered as they are made, and one more than the saved files
\* was made while a block is being received.
Numbered(data, ss) ==
  /\ \A i \in DOMAIN data.files : data.files[i].tmp = i
  /\ data.made = Len(data.files) + (IF Open(ss) THEN 1 ELSE 0)
  /\ Open(ss) => ss.tmp = data.made

DelimiterAt(buf, i) == i + 1 <= Len(buf) /\ buf[i].t = "nl" /\ buf[i + 1].t = "bnd"

\* What is left over behind the end of the body.
LeftBehindEnd(buf, left) ==
  left = 0 \/ \E i \in 1 .. Len(buf) - 3 : At(buf, DataEnd, i) /\ left = Len(buf) - i - 3

\* What a value of parse means to the next call, and to the caller.
Outcome(buf, dr, m) ==
  /\ m.ss.state # "SAVE_DATA_BLOCK" /\ (m.dies => ~m.ok)
  /\ m.ok /\ Complete(dr) => ~Open(m.ss) /\ LeftBehindEnd(buf, m.left)
  /\ m.ok /\ ~Complete(dr) /\ m.ss.state = "FIND_DATA_BLOCK" =>
       m.left \in 2 .. Len(buf) /\ DelimiterAt(buf, Len(buf) - m.left + 1)

Running(buf, dr, m) ==
  /\ m.cur \in 1 .. Len(buf) + 1 /\ m.left = 0 /\ m.ok = ~Complete(dr) /\ ~m.dies
  /\ m.falls => Len(buf) >= 1
  /\ m.ss.state = "INITIALIZATION" => m.cur = 1
  /\ m.ss.state \in {"FIND_DATA_BLOCK", "SAVE_DATA_BLOCK"} => DelimiterAt(buf, m.cur)

LoopInv(buf, dr, m) ==
  /\ m \in Loops /\ m.left \in Nat /\ Numbered(m.rd, m.ss)
  /\ IF m.done THEN Outcome(buf, dr, m) ELSE Running(buf, dr, m)

\* A case that does not return goes forward, and none takes a file back.
Rank(state) == IF state = "SAVE_DATA_BLOCK" THEN 1 ELSE IF state = "FIND_DATA_BLOCK" THEN 2 ELSE 0
Place(m)    == 4 * m.cur + Rank(m.ss.state)
Good(buf, dr, m, next) ==
  /\ LoopInv(buf, dr, next) /\ (next.done \/ Place(next) > Place(m))
  /\ next.rd.made >= m.rd.made

\* The loop is about to execute a case.
Working(buf, dr, m) ==
  m \in Loops /\ Numbered(m.rd, m.ss) /\ Running(buf, dr, m) /\ ~m.done /\ ~m.falls /\ Len(buf) >= 1

LEMMA MadeTyped ==
  ASSUME NEW m \in Loops
  PROVE  m.rd \in Data /\ m.rd.made \in Nat /\ m.rd.made >= m.rd.made
BY DEF Loops, Data

LEMMA ReturnTyped ==
  ASSUME NEW m \in Loops, NEW ok \in BOOLEAN, NEW left \in Int
  PROVE  ReturnLeft(m, ok, left) \in Loops
BY DEF Loops, ReturnLeft

LEMMA ReturnIsGood ==
  ASSUME NEW buf, NEW dr, NEW m, Working(buf, dr, m), NEW ok \in BOOLEAN, NEW left \in Nat,
         m.ss.state # "SAVE_DATA_BLOCK",
         ok /\ Complete(dr) => ~Open(m.ss) /\ LeftBehindEnd(buf, left),
         ok /\ ~Complete(dr) /\ m.ss.state = "FIND_DATA_BLOCK" =>
           left \in 2 .. Len(buf) /\ DelimiterAt(buf, Len(buf) - left + 1)
  PROVE  Good(buf, dr, m, ReturnLeft(m, ok, left))
<1> DEFINE next == ReturnLeft(m, ok, left)
<1>0. next \in Loops
  <2>1. m \in Loops /\ left \in Int
    BY DEF Working
  <2> QED
    BY <2>1, ReturnTyped
<1>1. /\ next.left = left /\ next.rd = m.rd /\ next.ss = m.ss /\ next.done /\ (next.ok <=> ok)
  BY DEF Working, Loops, ReturnLeft
<1>2. ~next.dies
  BY DEF Working, Running, Loops, ReturnLeft
<1> HIDE DEF next
<1>3. Outcome(buf, dr, next)
  BY <1>1, <1>2 DEF Outcome
<1>4. LoopInv(buf, dr, next)
  BY <1>0, <1>1, <1>3 DEF LoopInv, Working
<1>5. m.rd.made \in Nat
  BY DEF Working, Loops, Data
<1> QED
  BY <1>1, <1>4, <1>5 DEF Good, next

LEMMA RefusalIsGood ==
  ASSUME NEW buf, NEW dr, NEW m, Working(buf, dr, m), m.ss.state # "SAVE_DATA_BLOCK"
  PROVE  Good(buf, dr, m, Return(m, FALSE))
<1>1. m.left = 0 /\ m = [m EXCEPT !.left = 0]
  BY DEF Working, Running, Loops
<1>2. Return(m, FALSE) = ReturnLeft(m, FALSE, 0)
  BY <1>1 DEF Return, ReturnLeft, Working, Loops
<1>3. Good(buf, dr, m, ReturnLeft(m, FALSE, 0))
  BY ReturnIsGood
<1> QED
  BY <1>2, <1>3

\* A case that goes on.
GoOn(m, cur, ss, rd, falls) == [m EXCEPT !.cur = cur, !.ss = ss, !.rd = rd, !.falls = falls]

LEMMA GoOnTyped ==
  ASSUME NEW m \in Loops, NEW cur \in Nat, NEW ss \in MultipartStates, NEW rd \in Data,
         NEW falls \in BOOLEAN
  PROVE  LET next == GoOn(m, cur, ss, rd, falls)
         IN  /\ next \in Loops /\ next.cur = cur /\ next.ss = ss /\ next.rd = rd
             /\ next.left = m.left /\ (next.done <=> m.done) /\ (next.ok <=> m.ok)
             /\ (next.dies <=> m.dies)
BY DEF Loops, GoOn

LEMMA GoOnIsGood ==
  ASSUME NEW buf, NEW dr, NEW m, Working(buf, dr, m),
         NEW cur \in 1 .. Len(buf) + 1, NEW ss \in MultipartStates, NEW rd \in Data,
         NEW falls \in BOOLEAN, Numbered(rd, ss), rd.made >= m.rd.made, ss.state # "INITIALIZATION",
         ss.state \in {"FIND_DATA_BLOCK", "SAVE_DATA_BLOCK"} => DelimiterAt(buf, cur),
         4 * cur + Rank(ss.state) > Place(m)
  PROVE  Good(buf, dr, m, GoOn(m, cur, ss, rd, falls))
<1> DEFINE next == GoOn(m, cur, ss, rd, falls)
<1>1. cur \in Nat /\ m \in Loops
  BY DEF Working
<1>2. /\ next \in Loops /\ next.cur = cur /\ next.ss = ss /\ next.rd = rd
      /\ next.left = m.left /\ (next.done <=> m.done) /\ (next.ok <=> m.ok)
      /\ (next.dies <=> m.dies)
  BY <1>1, GoOnTyped
<1> HIDE DEF next
<1>3. Running(buf, dr, next)
  <2>1. (next.ok <=> ~Complete(dr)) /\ next.ok \in BOOLEAN
    BY <1>1, <1>2 DEF Working, Running, Loops
  <2>2. next.ok = ~Complete(dr)
    BY <2>1 DEF Complete
  <2> QED
    BY <1>1, <1>2, <2>2 DEF Working, Running
<1>4. LoopInv(buf, dr, next)
  BY <1>2, <1>3 DEF Working, Running, LoopInv
<1> QED
  BY <1>2, <1>4 DEF Good, next, Place

LEMMA InitializationIsGood ==
  ASSUME NEW S, NEW buf \in Seq(S), NEW dr, NEW m, Working(buf, dr, m), m.ss.state = "INITIALIZATION"
  PROVE  Good(buf, dr, m, Initialization(buf, dr, m))
<1>1. m \in Loops /\ m.ss \in MultipartStates /\ ~m.falls /\ m.left = 0
  BY DEF Working, Running, Loops
<1>2. ASSUME NEW ok \in BOOLEAN PROVE Good(buf, dr, m, Return(m, ok))
  <2>1. Return(m, ok) = ReturnLeft(m, ok, 0)
    BY <1>1 DEF Return, ReturnLeft, Loops
  <2>2. ~Open(m.ss) /\ LeftBehindEnd(buf, 0) /\ m.ss.state # "SAVE_DATA_BLOCK"
    BY DEF Open, LeftBehindEnd
  <2>3. Good(buf, dr, m, ReturnLeft(m, ok, 0))
    BY <2>2, ReturnIsGood
  <2> QED
    BY <2>1, <2>3
<1>3. Len(buf) \in Nat => Good(buf, dr, m, ReturnLeft(m, ~Complete(dr), Len(buf)))
  <2>1. ~Open(m.ss) /\ m.ss.state # "SAVE_DATA_BLOCK" /\ m.ss.state # "FIND_DATA_BLOCK"
    BY DEF Open
  <2>2. (~Complete(dr)) \in BOOLEAN
    BY DEF Complete
  <2> QED
    BY <2>1, <2>2, ReturnIsGood
<1>4. Len(buf) \in Nat /\ Len(FirstEnd) = 3
  BY LenProperties DEF FirstEnd
<1> DEFINE ss == [m.ss EXCEPT !.state = "GET_DATA_BLOCK_TYPE"]
           next == [m EXCEPT !.cur = 3, !.ss.state = "GET_DATA_BLOCK_TYPE"]
<1>5. ASSUME Len(buf) >= Len(FirstEnd) PROVE Good(buf, dr, m, next)
  <2>1. next = GoOn(m, 3, ss, m.rd, FALSE)
    BY <1>1 DEF GoOn, Loops
  <2>2. ss \in MultipartStates /\ ss.state = "GET_DATA_BLOCK_TYPE" /\ m.rd \in Data
    BY <1>1 DEF MultipartStates, Loops
  <2>3. Numbered(m.rd, ss)
    BY <1>1, <2>2 DEF Working, Numbered, Open, MultipartStates
  <2>4. m.cur = 1 /\ 3 \in 1 .. Len(buf) + 1
    BY <1>4, <1>5 DEF Working, Running
  <2>5. 4 * 3 + Rank(ss.state) > Place(m)
    BY <2>2, <2>4 DEF Place, Rank
  <2> HIDE DEF ss, next
  <2>6. Good(buf, dr, m, GoOn(m, 3, ss, m.rd, FALSE))
    BY <1>1, <2>2, <2>3, <2>4, <2>5, GoOnIsGood, MadeTyped
  <2> QED
    BY <2>1, <2>6
<1>6. (dr.full = Len(FirstEnd) /\ Complete(dr)) \in BOOLEAN /\ FALSE \in BOOLEAN
  BY Zenon DEF Complete
<1> HIDE DEF next
<1> DEFINE alone == dr.full = Len(FirstEnd) /\ Complete(dr)
<1>7. Good(buf, dr, m, Return(m, FALSE)) /\ Good(buf, dr, m, Return(m, alone))
  BY <1>2, <1>6
<1>8. Good(buf, dr, m, ReturnLeft(m, ~Complete(dr), Len(buf)))
  BY <1>3, <1>4
<1>9. Len(buf) < Len(FirstEnd) \/ Len(buf) >= Len(FirstEnd)
  BY <1>4
<1> QED
  BY <1>5, <1>7, <1>8, <1>9, Zenon DEF Initialization, next, alone

LEMMA SaveDataBlockIsGood ==
  ASSUME NEW buf, NEW dr, NEW m, Working(buf, dr, m), m.ss.state = "SAVE_DATA_BLOCK", Len(buf) \in Nat
  PROVE  Good(buf, dr, m, SaveDataBlock(m))
<1> DEFINE ss == [m.ss EXCEPT !.state = "FIND_DATA_BLOCK", !.value = <<>>]
           field == Field(m.ss.name, m.ss.value)
           saved == FileIncoming(m.ss.name, m.ss.value, m.ss.tmp, m.ss.good)
           fields == IF m.ss.type = "DATA" THEN Append(m.rd.fields, field) ELSE m.rd.fields
           files == IF m.ss.type = "FILE" THEN Append(m.rd.files, saved) ELSE m.rd.files
           rd == [m.rd EXCEPT !.fields = fields, !.files = files]
<1>1. m \in Loops /\ m.ss \in MultipartStates /\ m.rd \in Data /\ ~m.falls /\ m.cur \in Nat
  BY DEF Working, Running, Loops
<1>2. SaveDataBlock(m) = GoOn(m, m.cur, ss, rd, FALSE)
  BY <1>1 DEF SaveDataBlock, GoOn, Loops, Data, MultipartStates
<1>3. ss \in MultipartStates /\ ss.state = "FIND_DATA_BLOCK" /\ ~Open(ss)
  BY <1>1, EmptySeq DEF MultipartStates, Open
<1>4. /\ m.rd.fields \in Seq([name : Seq(Units), value : Seq(Units)])
      /\ m.rd.files \in Seq([name : Seq(Units), value : Seq(Units), tmp : Nat, good : BOOLEAN])
      /\ m.rd.made \in Nat
  BY <1>1 DEF Data
<1>5. /\ field \in [name : Seq(Units), value : Seq(Units)]
      /\ saved \in [name : Seq(Units), value : Seq(Units), tmp : Nat, good : BOOLEAN]
      /\ saved.tmp = m.ss.tmp
  BY <1>1 DEF MultipartStates, Field, FileIncoming
<1> HIDE DEF field, saved
<1>6. /\ fields \in Seq([name : Seq(Units), value : Seq(Units)])
      /\ files \in Seq([name : Seq(Units), value : Seq(Units), tmp : Nat, good : BOOLEAN])
  BY <1>4, <1>5, AppendProperties
<1>7. (\A i \in DOMAIN files : files[i].tmp = i) /\ m.rd.made = Len(files)
  <2>1. PICK n \in Nat : n = Len(m.rd.files) /\ DOMAIN m.rd.files = 1 .. n
    BY <1>4, LenProperties
  <2>2. CASE m.ss.type = "FILE"
    <3>1. Open(m.ss)
      BY <2>2 DEF Open
    <3>2. (\A i \in 1 .. n : m.rd.files[i].tmp = i) /\ m.rd.made = n + 1 /\ m.ss.tmp = n + 1
      BY <2>1, <3>1 DEF Working, Numbered
    <3>3. /\ Len(files) = n + 1 /\ DOMAIN files = 1 .. n + 1 /\ files[n + 1] = saved
          /\ \A i \in 1 .. n : files[i] = m.rd.files[i]
      <4>1. /\ Len(files) = n + 1 /\ files[n + 1] = saved
            /\ \A i \in 1 .. n : files[i] = m.rd.files[i]
        BY <1>4, <1>5, <2>1, <2>2, AppendProperties
      <4> QED
        BY <1>6, <4>1, LenProperties
    <3>4. \A i \in 1 .. n + 1 : i = n + 1 \/ i \in 1 .. n
      OBVIOUS
    <3> HIDE DEF files
    <3> QED
      BY <1>5, <3>2, <3>3, <3>4
  <2>3. CASE m.ss.type # "FILE"
    <3>1. ~Open(m.ss) /\ files = m.rd.files
      BY <2>3 DEF Open
    <3>2. /\ \A i \in DOMAIN m.rd.files : m.rd.files[i].tmp = i
          /\ m.rd.made = n + (IF Open(m.ss) THEN 1 ELSE 0)
      BY <2>1, Zenon DEF Working, Numbered
    <3>3. m.rd.made = n
      BY <3>1, <3>2
    <3> HIDE DEF files
    <3> QED
      BY <2>1, <3>1, <3>2, <3>3
  <2> QED
    BY <2>2, <2>3
<1> HIDE DEF fields, files
<1>8. rd \in Data /\ rd.files = files /\ rd.made = m.rd.made
  BY <1>1, <1>6 DEF Data
<1>9. Numbered(rd, ss)
  <2>1. Len(files) \in Nat
    BY <1>6, LenProperties
  <2> HIDE DEF rd, ss
  <2> QED
    BY <1>3, <1>7, <1>8, <2>1 DEF Numbered
<1>10. DelimiterAt(buf, m.cur) /\ m.cur \in 1 .. Len(buf) + 1
  BY DEF Working, Running
<1>11. 4 * m.cur + Rank(ss.state) > Place(m)
  BY <1>1, <1>3 DEF Place, Rank
<1> HIDE DEF ss, rd
<1> QED
  BY <1>1, <1>2, <1>3, <1>8, <1>9, <1>10, <1>11, GoOnIsGood, MadeTyped

LEMMA CopiedTyped ==
  ASSUME NEW m \in Loops, NEW cur \in Nat, NEW ss \in MultipartStates, NEW ok \in BOOLEAN,
         NEW left \in Int
  PROVE  [m EXCEPT !.cur = cur, !.ss = ss, !.done = TRUE, !.ok = ok, !.left = left] \in Loops
BY DEF Loops

LEMMA CopyDataBlockIsGood ==
  ASSUME NEW buf \in Seq(Units), NEW dr, NEW m, Working(buf, dr, m), m.ss.state = "COPY_DATA_BLOCK"
  PROVE  Good(buf, dr, m, CopyDataBlock(buf, dr, m))
<1> DEFINE blockEnd == Find(buf, Delimiter, m.cur)
           end    == IF blockEnd = NotFound THEN Len(buf) - Len(Delimiter) + 1 ELSE blockEnd
           good   == m.ss.type = "DATA" \/ (m.ss.good /\ end >= m.cur)
           value  == IF good THEN m.ss.value \o SubSeq(buf, m.cur, end - 1) ELSE m.ss.value
           copied == [m EXCEPT !.cur = end, !.ss.good = good, !.ss.value = value]
           ss     == [m.ss EXCEPT !.good = good, !.value = value]
<1>1. /\ m \in Loops /\ m.ss \in MultipartStates /\ m.rd \in Data /\ ~m.falls /\ ~m.done /\ ~m.dies
      /\ m.cur \in Nat \ {0} /\ m.left = 0 /\ Numbered(m.rd, m.ss) /\ Len(buf) \in Nat
      /\ Len(buf) >= 1 /\ m.cur <= Len(buf) + 1
  BY LenProperties DEF Working, Running, Loops
<1>2. \/ blockEnd = NotFound
      \/ blockEnd \in m.cur .. Len(buf) - 1 /\ buf[blockEnd].t = "nl" /\ buf[blockEnd + 1].t = "bnd"
  BY <1>1, FindDelimiter
<1> HIDE DEF blockEnd
<1>3. Len(Delimiter) = 2 /\ NotFound = 0
  BY DEF Delimiter, NotFound
<1>4. end \in Nat /\ end - 1 <= Len(buf)
  BY <1>1, <1>2, <1>3
<1>5. good \in BOOLEAN
  BY <1>1, <1>4 DEF MultipartStates
<1>6. CASE m.ss.type = "DATA" /\ end < m.cur
  <2>1. CopyDataBlock(buf, dr, m) = Dies(m)
    BY <1>6, Zenon DEF CopyDataBlock, blockEnd
  <2> DEFINE next == Dies(m)
  <2>2. /\ next \in Loops /\ next.left = 0 /\ next.rd = m.rd /\ next.ss = m.ss
        /\ next.done /\ ~next.ok /\ next.dies
    BY <1>1 DEF Dies, Loops
  <2> HIDE DEF next
  <2>3. LoopInv(buf, dr, next)
    BY <1>1, <2>2 DEF LoopInv, Outcome
  <2> QED
    BY <1>1, <2>1, <2>2, <2>3, MadeTyped DEF Good, next
<1>7. CASE ~(m.ss.type = "DATA" /\ end < m.cur)
  <2>1. value \in Seq(Units)
    <3>1. CASE ~good
      BY <1>1, <3>1 DEF MultipartStates
    <3>2. CASE good
      <4>1. m.ss.value \in Seq(Units)
        BY <1>1 DEF MultipartStates
      <4>2. SubSeq(buf, m.cur, end - 1) \in Seq(Units)
        <5>1. m.cur \in 1 .. Len(buf) + 1 /\ end - 1 \in m.cur - 1 .. Len(buf)
          BY <1>1, <1>4, <1>7, <3>2
        <5> HIDE DEF end, good
        <5> QED
          BY <5>1, SubSeqProperties
      <4> QED
        BY <3>2, <4>1, <4>2, ConcatProperties
    <3> QED
      BY <3>1, <3>2
  <2>2. CopyDataBlock(buf, dr, m) =
          IF blockEnd = NotFound THEN ReturnLeft(copied, ~Complete(dr), Len(Delimiter))
          ELSE Falls([copied EXCEPT !.ss.state = "SAVE_DATA_BLOCK"])
    BY <1>7, Zenon DEF CopyDataBlock, blockEnd
  <2> HIDE DEF end, good, value
  <2>3. /\ ss \in MultipartStates /\ ss.type = m.ss.type /\ ss.tmp = m.ss.tmp
        /\ ss.state = "COPY_DATA_BLOCK"
    BY <1>1, <1>5, <2>1 DEF MultipartStates
  <2>4. CASE blockEnd = NotFound
    <3> DEFINE next == ReturnLeft(copied, ~Complete(dr), Len(Delimiter))
    <3>1. next = [m EXCEPT !.cur = end, !.ss = ss, !.done = TRUE, !.ok = ~Complete(dr), !.left = 2]
      BY <1>1, <1>3 DEF ReturnLeft, Loops, MultipartStates
    <3>2. (~Complete(dr)) \in BOOLEAN
      BY DEF Complete
    <3> HIDE DEF next, ss
    <3>3. next \in Loops
      <4>1. m \in Loops /\ end \in Nat /\ 2 \in Int
        BY <1>1, <1>4
      <4> QED
        BY <2>3, <3>1, <3>2, <4>1, CopiedTyped
    <3>4. /\ next.left = 2 /\ next.rd = m.rd /\ next.ss = ss
          /\ next.done /\ (next.ok <=> ~Complete(dr)) /\ ~next.dies
      BY <1>1, <3>1 DEF Loops
    <3>5. Numbered(m.rd, ss)
      BY <1>1, <2>3 DEF Numbered, Open
    <3>6. LoopInv(buf, dr, next)
      BY <2>3, <3>3, <3>4, <3>5 DEF LoopInv, Outcome
    <3> QED
      BY <1>1, <2>2, <2>4, <3>4, <3>6, MadeTyped DEF Good, next
  <2>5. CASE blockEnd # NotFound
    <3> DEFINE next == Falls([copied EXCEPT !.ss.state = "SAVE_DATA_BLOCK"])
               saving == [ss EXCEPT !.state = "SAVE_DATA_BLOCK"]
    <3>1. next = GoOn(m, end, saving, m.rd, TRUE)
      BY <1>1 DEF Falls, GoOn, Loops, MultipartStates
    <3>2. /\ saving \in MultipartStates /\ saving.type = m.ss.type /\ saving.tmp = m.ss.tmp
          /\ saving.state = "SAVE_DATA_BLOCK"
      BY <2>3 DEF MultipartStates
    <3> HIDE DEF next, saving, ss
    <3>3. Numbered(m.rd, saving)
      BY <1>1, <3>2 DEF Numbered, Open
    <3>4. end = blockEnd /\ end \in m.cur .. Len(buf) - 1
      BY <1>2, <2>5 DEF end
    <3>5. end \in 1 .. Len(buf) + 1 /\ DelimiterAt(buf, end)
      BY <1>1, <1>2, <2>5, <3>4 DEF DelimiterAt
    <3>6. 4 * end + Rank(saving.state) > Place(m)
      BY <1>1, <3>2, <3>4 DEF Place, Rank
    <3>7. m.rd \in Data
      BY <1>1
    <3>8. Good(buf, dr, m, GoOn(m, end, saving, m.rd, TRUE))
      BY <1>1, <3>2, <3>3, <3>5, <3>6, <3>7, GoOnIsGood, MadeTyped
    <3> QED
      BY <2>2, <2>5, <3>1, <3>8 DEF next
  <2> QED
    BY <2>4, <2>5
<1> QED
  BY <1>6, <1>7

LEMMA GetDataBlockTypeIsGood ==
  ASSUME NEW buf \in Seq(Units), NEW dr, NEW m, Working(buf, dr, m), NEW canOpen,
         m.ss.state = "GET_DATA_BLOCK_TYPE"
  PROVE  Good(buf, dr, m, GetDataBlockType(buf, dr, m, canOpen))
<1> DEFINE end    == Find(buf, EmptyLine, m.cur)
           header == PartHeader(buf, m.cur, end)
           ss(type) == [m.ss EXCEPT !.state = "COPY_DATA_BLOCK", !.name = <<header>>, !.value = <<>>,
                                    !.type = type]
           file   == [ss("FILE") EXCEPT !.good = TRUE, !.tmp = m.rd.made + 1]
           rd     == [m.rd EXCEPT !.made = @ + 1]
           found  == [m EXCEPT !.cur = end + 2, !.ss.state = "COPY_DATA_BLOCK", !.ss.name = <<header>>,
                               !.ss.value = <<>>]
<1>1. /\ m \in Loops /\ m.ss \in MultipartStates /\ m.rd \in Data /\ ~m.falls
      /\ m.cur \in Nat \ {0} /\ Numbered(m.rd, m.ss) /\ Len(buf) \in Nat /\ m.cur <= Len(buf) + 1
  BY LenProperties DEF Working, Running, Loops
<1>2. \/ end = NotFound
      \/ end \in m.cur .. Len(buf) - 1 /\ buf[end].t = "nl" /\ buf[end + 1].t = "nl"
  BY <1>1, FindEmptyLine
<1>3. end \in Nat
  BY <1>1, <1>2 DEF NotFound
<1>4. header \in Units
  <2> DEFINE headers == { i \in m.cur .. end - 1 : buf[i].t \in {"part", "file", "anon"} }
  <2>1. header = IF headers = {} THEN [t |-> "anon", r |-> 0] ELSE buf[Min(headers)]
    BY Zenon DEF PartHeader
  <2>2. headers \in SUBSET Nat /\ \A i \in headers : i \in 1 .. Len(buf)
    BY <1>1, <1>2, <1>3 DEF NotFound
  <2> HIDE DEF headers, header
  <2>3. headers # {} => Min(headers) \in 1 .. Len(buf)
    BY <2>2, MinIs
  <2>4. headers # {} => buf[Min(headers)] \in Units
    BY <2>3, ElementOfSeq
  <2>5. [t |-> "anon", r |-> 0] \in Units
    BY DEF Units, Words, Signs
  <2> QED
    BY <2>1, <2>4, <2>5
<1>5. GetDataBlockType(buf, dr, m, canOpen) =
        IF end = NotFound THEN ReturnLeft(m, ~Complete(dr), Len(buf) - m.cur + 1)
        ELSE IF header.t = "anon" THEN Return(m, FALSE)
        ELSE IF header.t = "part" THEN Falls([found EXCEPT !.ss.type = "DATA"])
        ELSE IF ~canOpen THEN Return(m, FALSE)
        ELSE Falls([found EXCEPT !.ss.type = "FILE", !.ss.good = TRUE,
                                 !.ss.tmp = m.rd.made + 1, !.rd.made = @ + 1])
  BY Zenon DEF GetDataBlockType
<1>6. Good(buf, dr, m, Return(m, FALSE))
  BY RefusalIsGood
<1> HIDE DEF end, header
<1>7. CASE end = NotFound
  <2>1. (~Complete(dr)) \in BOOLEAN
    BY DEF Complete
  <2>2. Len(buf) - m.cur + 1 \in Nat
    BY <1>1
  <2>3. Good(buf, dr, m, ReturnLeft(m, ~Complete(dr), Len(buf) - m.cur + 1))
    BY <2>1, <2>2, ReturnIsGood
  <2> QED
    BY <1>5, <1>7, <2>3
<1>8. CASE end # NotFound
  <2>1. <<header>> \in Seq(Units) /\ <<>> \in Seq(Units)
    BY <1>4
  <2>2. /\ \A type \in {"DATA", "FILE"} :
             ss(type) \in MultipartStates /\ ss(type).type = type /\ ss(type).state = "COPY_DATA_BLOCK"
    BY <1>1, <2>1 DEF MultipartStates
  <2>3. m.rd.made \in Nat /\ rd \in Data /\ rd.made = m.rd.made + 1 /\ rd.files = m.rd.files
    <3>1. m.rd.made \in Nat /\ m.rd.made + 1 \in Nat
      BY <1>1 DEF Data
    <3>2. rd \in Data
      BY <1>1, <3>1, Zenon DEF Data
    <3> QED
      BY <1>1, <3>1, <3>2 DEF Data
  <2>4. /\ file \in MultipartStates /\ file.type = "FILE" /\ file.state = "COPY_DATA_BLOCK"
        /\ file.tmp = m.rd.made + 1
    <3>1. /\ ss("FILE") \in MultipartStates /\ ss("FILE").type = "FILE"
          /\ ss("FILE").state = "COPY_DATA_BLOCK" /\ m.rd.made + 1 \in Nat
      BY <2>2, <2>3
    <3> HIDE DEF ss
    <3> QED
      BY <3>1 DEF MultipartStates
  <2>5. Falls([found EXCEPT !.ss.type = "DATA"]) = GoOn(m, end + 2, ss("DATA"), m.rd, TRUE)
    BY <1>1 DEF Falls, GoOn, Loops, MultipartStates
  <2>6. Falls([found EXCEPT !.ss.type = "FILE", !.ss.good = TRUE,
                            !.ss.tmp = m.rd.made + 1, !.rd.made = @ + 1])
          = GoOn(m, end + 2, file, rd, TRUE)
    <3>1. [found EXCEPT !.ss.type = "FILE", !.ss.good = TRUE, !.ss.tmp = m.rd.made + 1,
                        !.rd.made = @ + 1] = [m EXCEPT !.cur = end + 2, !.ss = file, !.rd = rd]
      <4> DEFINE copying == [m.ss EXCEPT !.state = "COPY_DATA_BLOCK", !.name = <<header>>,
                                         !.value = <<>>]
      <4>1. found = [m EXCEPT !.cur = end + 2, !.ss = copying]
        BY <1>1 DEF Loops
      <4>2. DOMAIN found = DOMAIN m /\ found.ss = copying /\ found.rd = m.rd
        BY <1>1, <4>1 DEF Loops
      <4>3. file = [copying EXCEPT !.type = "FILE", !.good = TRUE, !.tmp = m.rd.made + 1]
        BY <1>1 DEF MultipartStates
      <4> HIDE DEF copying, file, rd, found, ss
      <4>4. [found EXCEPT !.ss.type = "FILE", !.ss.good = TRUE, !.ss.tmp = m.rd.made + 1,
                          !.rd.made = @ + 1] = [found EXCEPT !.ss = file, !.rd = rd]
        <5>1. PICK f, s, d, n : f = found /\ s = copying /\ d = m.rd /\ n = m.rd.made + 1
          OBVIOUS
        <5>2. f.ss = s /\ f.rd = d
          BY <4>2, <5>1
        <5>3. [f EXCEPT !.ss.type = "FILE", !.ss.good = TRUE, !.ss.tmp = n, !.rd.made = @ + 1]
                = [f EXCEPT !.ss = [s EXCEPT !.type = "FILE", !.good = TRUE, !.tmp = n],
                            !.rd = [d EXCEPT !.made = @ + 1]]
          BY <5>2
        <5> QED
          BY <4>3, <5>1, <5>3 DEF rd
      <4> QED
        BY <1>1, <4>1, <4>4 DEF Loops
    <3>2. [m EXCEPT !.cur = end + 2, !.ss = file, !.rd = rd].falls = m.falls
      BY <1>1 DEF Loops
    <3> HIDE DEF file, rd, found
    <3> QED
      BY <1>1, <3>1 DEF Falls, GoOn, Loops
  <2> HIDE DEF ss, file, rd, found
  <2>7. /\ end + 2 \in 1 .. Len(buf) + 1
        /\ 4 * (end + 2) + Rank("COPY_DATA_BLOCK") > Place(m)
    BY <1>1, <1>2, <1>8 DEF Place, Rank
  <2>8. Numbered(m.rd, ss("DATA")) /\ Numbered(rd, file)
    <3>1. ~Open(m.ss) /\ ~Open(ss("DATA")) /\ Open(file)
      BY <2>2, <2>4 DEF Open
    <3>2. Len(m.rd.files) \in Nat
      BY <1>1, LenProperties DEF Data
    <3> QED
      BY <1>1, <2>3, <2>4, <3>1, <3>2 DEF Numbered
  <2>9. /\ Good(buf, dr, m, GoOn(m, end + 2, ss("DATA"), m.rd, TRUE))
        /\ Good(buf, dr, m, GoOn(m, end + 2, file, rd, TRUE))
    <3>1. /\ m.rd \in Data /\ ss("DATA") \in MultipartStates /\ ss("DATA").state = "COPY_DATA_BLOCK"
      BY <1>1, <2>2
    <3> QED
      <4>1. /\ m.rd.made >= m.rd.made /\ rd.made >= m.rd.made
            /\ TRUE \in BOOLEAN /\ file.state # "INITIALIZATION" /\ ss("DATA").state # "INITIALIZATION"
        BY <1>1, <2>3, <2>4, <3>1, MadeTyped
      <4>2. Good(buf, dr, m, GoOn(m, end + 2, ss("DATA"), m.rd, TRUE))
        BY <2>7, <2>8, <3>1, <4>1, GoOnIsGood
      <4>3. Good(buf, dr, m, GoOn(m, end + 2, file, rd, TRUE))
        BY <2>3, <2>4, <2>7, <2>8, <4>1, GoOnIsGood
      <4> QED
        BY <4>2, <4>3
  <2> QED
    BY <1>5, <1>6, <1>8, <2>5, <2>6, <2>9
<1> QED
  BY <1>7, <1>8

LEMMA FindDataBlockIsGood ==
  ASSUME NEW buf \in Seq(Units), NEW dr, NEW m, Working(buf, dr, m), m.ss.state = "FIND_DATA_BLOCK"
  PROVE  Good(buf, dr, m, FindDataBlock(buf, dr, m))
<1> DEFINE left == Len(buf) - m.cur + 1
           next == Find(buf, Delimiter, m.cur)
           end  == Find(buf, DataEnd, m.cur)
           getting == [m.ss EXCEPT !.state = "GET_DATA_BLOCK_TYPE"]
           found == Falls([m EXCEPT !.cur = next + Len(Delimiter) + 1,
                                    !.ss.state = "GET_DATA_BLOCK_TYPE"])
<1>1. /\ m \in Loops /\ m.ss \in MultipartStates /\ m.rd \in Data /\ ~m.falls
      /\ m.cur \in Nat \ {0} /\ Numbered(m.rd, m.ss) /\ Len(buf) \in Nat /\ DelimiterAt(buf, m.cur)
  BY LenProperties DEF Working, Running, Loops
<1>2. left \in Nat /\ left >= 2 /\ Len(buf) - left + 1 = m.cur /\ left <= Len(buf)
      /\ Len(DataEnd) = 4 /\ Len(Delimiter) = 2
  BY <1>1 DEF DelimiterAt, DataEnd, Delimiter
<1>3. next = m.cur /\ next # NotFound
  <2>1. \/ /\ next = NotFound
           /\ \A i \in m.cur .. Len(buf) - 1 : ~(buf[i].t = "nl" /\ buf[i + 1].t = "bnd")
        \/ /\ next \in m.cur .. Len(buf) - 1
           /\ \A i \in m.cur .. next - 1 : ~(buf[i].t = "nl" /\ buf[i + 1].t = "bnd")
    BY <1>1, FindDelimiter
  <2> HIDE DEF next
  <2>2. m.cur \in m.cur .. Len(buf) - 1 /\ buf[m.cur].t = "nl" /\ buf[m.cur + 1].t = "bnd"
    BY <1>1 DEF DelimiterAt
  <2> QED
    BY <1>1, <2>1, <2>2 DEF NotFound
<1>4. end = NotFound \/ (end \in m.cur .. Len(buf) - 3 /\ At(buf, DataEnd, end))
  BY <1>1, FindDataEnd
<1>5. FindDataBlock(buf, dr, m) =
        IF Len(DataEnd) > left THEN ReturnLeft(m, ~Complete(dr), left)
        ELSE IF end = m.cur THEN ReturnLeft(m, Complete(dr), left - Len(DataEnd))
        ELSE IF next = NotFound THEN ReturnLeft(m, ~Complete(dr), left)
        ELSE found
  BY Zenon DEF FindDataBlock
<1>6. (~Complete(dr)) \in BOOLEAN /\ Complete(dr) \in BOOLEAN
  BY DEF Complete
<1> HIDE DEF next, end
<1>7. CASE Len(DataEnd) > left
  <2>1. left \in 2 .. Len(buf) /\ DelimiterAt(buf, Len(buf) - left + 1)
    BY <1>1, <1>2
  <2> HIDE DEF left
  <2>2. Good(buf, dr, m, ReturnLeft(m, ~Complete(dr), left))
    BY <1>2, <1>6, <2>1, ReturnIsGood
  <2> QED
    BY <1>5, <1>7, <2>2
<1>8. CASE ~(Len(DataEnd) > left) /\ end = m.cur
  <2>1. left - Len(DataEnd) \in Nat /\ ~Open(m.ss)
    BY <1>2, <1>8 DEF Open
  <2>2. LeftBehindEnd(buf, left - Len(DataEnd))
    <3>1. end \in 1 .. Len(buf) - 3 /\ At(buf, DataEnd, end)
      BY <1>1, <1>4, <1>8 DEF NotFound
    <3>2. left - Len(DataEnd) = Len(buf) - end - 3
      BY <1>1, <1>2, <1>8
    <3> QED
      BY <3>1, <3>2 DEF LeftBehindEnd
  <2> HIDE DEF left
  <2>3. Good(buf, dr, m, ReturnLeft(m, Complete(dr), left - Len(DataEnd)))
    BY <1>6, <2>1, <2>2, ReturnIsGood
  <2> QED
    BY <1>5, <1>8, <2>3
<1>9. CASE ~(Len(DataEnd) > left) /\ end # m.cur
  <2>1. found = GoOn(m, m.cur + 3, getting, m.rd, TRUE)
    <3>1. next + Len(Delimiter) + 1 = m.cur + 3
      BY <1>1, <1>2, <1>3
    <3> QED
      BY <1>1, <3>1 DEF Falls, GoOn, Loops, MultipartStates
  <2>2. getting \in MultipartStates /\ getting.state = "GET_DATA_BLOCK_TYPE" /\ m.rd \in Data
    BY <1>1 DEF MultipartStates
  <2>3. Numbered(m.rd, getting)
    <3>1. ~Open(m.ss) /\ ~Open(getting)
      BY <2>2 DEF Open
    <3> HIDE DEF getting
    <3> QED
      BY <1>1, <3>1 DEF Numbered
  <2>4. m.cur + 3 \in 1 .. Len(buf) + 1
    BY <1>1, <1>2, <1>9
  <2>5. 4 * (m.cur + 3) + Rank(getting.state) > Place(m)
    BY <1>1, <2>2 DEF Place, Rank
  <2> HIDE DEF getting
  <2>6. Good(buf, dr, m, GoOn(m, m.cur + 3, getting, m.rd, TRUE))
    BY <1>1, <2>2, <2>3, <2>4, <2>5, GoOnIsGood, MadeTyped
  <2> QED
    BY <1>3, <1>5, <1>9, <2>1, <2>6
<1> QED
  BY <1>7, <1>8, <1>9

\* A case of the switch, as the loop executes it.
LEMMA TurnIsGood ==
  ASSUME NEW buf \in Seq(Units), NEW dr, NEW m, NEW canOpen, LoopInv(buf, dr, m), ~Over(buf, m)
  PROVE  Good(buf, dr, m, Turn(buf, dr, [m EXCEPT !.falls = FALSE], canOpen))
<1> DEFINE t == [m EXCEPT !.falls = FALSE]
<1>1. m \in Loops /\ ~m.done /\ Running(buf, dr, m) /\ Numbered(m.rd, m.ss)
  BY DEF LoopInv, Over
<1>2. /\ t \in Loops /\ ~t.falls /\ t.cur = m.cur /\ t.ss = m.ss /\ t.rd = m.rd /\ t.left = m.left
      /\ ~t.done /\ (t.ok <=> m.ok) /\ (t.dies <=> m.dies)
  BY <1>1 DEF Loops
<1>3. Len(buf) \in Nat /\ Len(buf) >= 1
  BY <1>1, LenProperties DEF Over, Running
<1> HIDE DEF t
<1>4. t.ok = ~Complete(dr)
  <2>1. t.ok \in BOOLEAN /\ (t.ok <=> ~Complete(dr))
    BY <1>1, <1>2 DEF Running, Loops
  <2> QED
    BY <2>1 DEF Complete
<1>5. Working(buf, dr, t)
  BY <1>1, <1>2, <1>3, <1>4 DEF Working, Running
<1>6. t.ss.state \in {"INITIALIZATION", "FIND_DATA_BLOCK", "GET_DATA_BLOCK_TYPE", "COPY_DATA_BLOCK",
                      "SAVE_DATA_BLOCK"}
  BY <1>2 DEF Loops, MultipartStates
<1>7. CASE t.ss.state = "INITIALIZATION"
  <2>1. Turn(buf, dr, t, canOpen) = Initialization(buf, dr, t)
    BY <1>7 DEF Turn
  <2> QED
    BY <1>2, <1>5, <1>7, <2>1, InitializationIsGood DEF Good, Place, t
<1>8. CASE t.ss.state = "FIND_DATA_BLOCK"
  <2>1. Turn(buf, dr, t, canOpen) = FindDataBlock(buf, dr, t)
    BY <1>8 DEF Turn
  <2> QED
    BY <1>2, <1>5, <1>8, <2>1, FindDataBlockIsGood DEF Good, Place, t
<1>9. CASE t.ss.state = "GET_DATA_BLOCK_TYPE"
  <2>1. Turn(buf, dr, t, canOpen) = GetDataBlockType(buf, dr, t, canOpen)
    BY <1>9 DEF Turn
  <2> QED
    BY <1>2, <1>5, <1>9, <2>1, GetDataBlockTypeIsGood DEF Good, Place, t
<1>10. CASE t.ss.state = "COPY_DATA_BLOCK"
  <2>1. Turn(buf, dr, t, canOpen) = CopyDataBlock(buf, dr, t)
    BY <1>10 DEF Turn
  <2> QED
    BY <1>2, <1>5, <1>10, <2>1, CopyDataBlockIsGood DEF Good, Place, t
<1>11. CASE t.ss.state = "SAVE_DATA_BLOCK"
  <2>1. Turn(buf, dr, t, canOpen) = SaveDataBlock(t)
    BY <1>11 DEF Turn
  <2> QED
    BY <1>2, <1>3, <1>5, <1>11, <2>1, SaveDataBlockIsGood DEF Good, Place, t
<1> QED
  BY <1>6, <1>7, <1>8, <1>9, <1>10, <1>11

\* The loop after so many turns.
NextTurn(buf, dr, canOpen) ==
  [m \in Loops |-> IF Over(buf, m) THEN m ELSE Turn(buf, dr, [m EXCEPT !.falls = FALSE], canOpen)]

LoopStart(rd, dr) ==
  [cur |-> 1, ss |-> dr.ss, left |-> dr.left, rd |-> rd, falls |-> FALSE,
   done |-> FALSE, ok |-> ~Complete(dr), dies |-> FALSE]

LoopUpTo(turn, start, f, n) == f = [k \in 0 .. n |-> IF k # 0 THEN turn[f[k - 1]] ELSE start]

LEMMA LoopExists ==
  ASSUME NEW turn, NEW start, NEW n \in Nat
  PROVE  \E f : LoopUpTo(turn, start, f, n)
<1> DEFINE T == { k \in Nat : \E f : LoopUpTo(turn, start, f, k) }
<1>1. 0 \in T
  <2>1. LoopUpTo(turn, start, [k \in 0 .. 0 |-> start], 0)
    BY DEF LoopUpTo
  <2> QED
    BY <2>1
<1>2. ASSUME NEW k \in T PROVE k + 1 \in T
  <2>1. PICK f : LoopUpTo(turn, start, f, k)
    OBVIOUS
  <2> DEFINE g == [i \in 0 .. k + 1 |-> IF i = k + 1 THEN turn[f[k]] ELSE f[i]]
  <2>2. \A i \in 0 .. k : f[i] = IF i # 0 THEN turn[f[i - 1]] ELSE start
    BY <2>1 DEF LoopUpTo
  <2>3. \A i \in 0 .. k + 1 : i # 0 => i - 1 \in 0 .. k /\ g[i - 1] = f[i - 1]
    OBVIOUS
  <2>4. \A i \in 0 .. k + 1 : g[i] = IF i # 0 THEN turn[g[i - 1]] ELSE start
    BY <2>2, <2>3
  <2>5. LoopUpTo(turn, start, g, k + 1)
    BY <2>4 DEF LoopUpTo
  <2> HIDE DEF g
  <2> QED
    BY <2>5
<1> HIDE DEF T
<1>3. T = Nat
  <2>1. T \subseteq Nat
    BY DEF T
  <2> QED
    BY <1>1, <1>2, <2>1, NatSetInduction
<1> QED
  BY <1>3 DEF T

\* What parse makes of the end of the loop.
ParsedFrom(dr, m) ==
  [ok |-> m.ok, dr |-> [dr EXCEPT !.left = m.left, !.ss = m.ss], rd |-> m.rd, dies |-> m.dies]

LEMMA ParseMultipartIs ==
  ASSUME NEW buf \in Seq(Units), NEW rd, NEW dr, NEW canOpen
  PROVE  \E f : /\ LoopUpTo(NextTurn(buf, dr, canOpen), LoopStart(rd, dr), f, Turns(buf))
                /\ ParseMultipart(buf, rd, dr, canOpen) = ParsedFrom(dr, f[Turns(buf)])
<1> DEFINE turn == NextTurn(buf, dr, canOpen)
           start == LoopStart(rd, dr)
           loop == CHOOSE f : LoopUpTo(turn, start, f, Turns(buf))
<1>1. Turns(buf) \in Nat
  BY LenProperties DEF Turns
<1>2. \E f : LoopUpTo(turn, start, f, Turns(buf))
  BY <1>1, LoopExists
<1>3. LoopUpTo(turn, start, loop, Turns(buf))
  BY <1>2, Zenon
<1>4. ParseMultipart(buf, rd, dr, canOpen) = ParsedFrom(dr, loop[Turns(buf)])
  BY Zenon DEF ParseMultipart, LoopUpTo, NextTurn, LoopStart, ParsedFrom
<1> QED
  BY <1>3, <1>4, Zenon

\* What a call of parse may be given: a receiver whose left is reset, the files numbered, and a
\* delimiter in front when the last call stopped between two blocks.
Receivers == [full : Nat, recv : Nat, left : Nat, ss : MultipartStates]

Parsable(buf, rd, dr) ==
  /\ rd \in Data /\ dr \in Receivers /\ dr.left = 0
  /\ Numbered(rd, dr.ss) /\ dr.ss.state # "SAVE_DATA_BLOCK"
  /\ dr.ss.state = "FIND_DATA_BLOCK" => DelimiterAt(buf, 1)

\* What it gives back.
ParsedWell(buf, rd, dr, got) ==
  /\ got.rd \in Data /\ got.rd.made >= rd.made /\ got.dr \in Receivers /\ got.ok \in BOOLEAN /\ got.dies \in BOOLEAN
  /\ got.dr.full = dr.full /\ got.dr.recv = dr.recv
  /\ Numbered(got.rd, got.dr.ss) /\ got.dr.ss.state # "SAVE_DATA_BLOCK" /\ (got.dies => ~got.ok)
  /\ got.ok /\ Complete(dr) => ~Open(got.dr.ss) /\ LeftBehindEnd(buf, got.dr.left)
  /\ got.ok /\ ~Complete(dr) /\ got.dr.ss.state = "FIND_DATA_BLOCK" =>
       got.dr.left \in 2 .. Len(buf) /\ DelimiterAt(buf, Len(buf) - got.dr.left + 1)

LEMMA LoopStarts ==
  ASSUME NEW buf \in Seq(Units), NEW rd, NEW dr, Parsable(buf, rd, dr)
  PROVE  LoopInv(buf, dr, LoopStart(rd, dr)) /\ Place(LoopStart(rd, dr)) \in Nat
         /\ Place(LoopStart(rd, dr)) >= 4
<1> DEFINE m == LoopStart(rd, dr)
<1>1. rd \in Data /\ dr.ss \in MultipartStates /\ dr.left = 0 /\ Len(buf) \in Nat
  BY LenProperties DEF Parsable, Receivers
<1>2. (~Complete(dr)) \in BOOLEAN
  BY DEF Complete
<1>3. m \in Loops
  BY <1>1, <1>2 DEF LoopStart, Loops
<1>4. /\ m.cur = 1 /\ m.ss = dr.ss /\ m.left = 0 /\ m.rd = rd /\ ~m.falls /\ ~m.done
      /\ m.ok = ~Complete(dr) /\ ~m.dies
  BY <1>1 DEF LoopStart
<1> HIDE DEF m
<1>5. LoopInv(buf, dr, m)
  BY <1>1, <1>3, <1>4 DEF LoopInv, Running, Parsable
<1>6. Place(m) \in Nat /\ Place(m) >= 4
  BY <1>4 DEF Place, Rank
<1> QED
  BY <1>5, <1>6 DEF m

\* The loop of parse ends in so many turns, whatever the body is.
THEOREM MultipartIsParsed ==
  ASSUME NEW buf \in Seq(Units), NEW rd, NEW dr, NEW canOpen, Parsable(buf, rd, dr)
  PROVE  /\ \E f : /\ LoopUpTo(NextTurn(buf, dr, canOpen), LoopStart(rd, dr), f, Turns(buf))
                   /\ \A k \in 0 .. Turns(buf) : LoopInv(buf, dr, f[k])
                   /\ Over(buf, f[Turns(buf)])
                   /\ ParseMultipart(buf, rd, dr, canOpen) = ParsedFrom(dr, f[Turns(buf)])
         /\ ParsedWell(buf, rd, dr, ParseMultipart(buf, rd, dr, canOpen))
<1> DEFINE turn == NextTurn(buf, dr, canOpen)
           start == LoopStart(rd, dr)
<1>1. PICK f : /\ LoopUpTo(turn, start, f, Turns(buf))
               /\ ParseMultipart(buf, rd, dr, canOpen) = ParsedFrom(dr, f[Turns(buf)])
  BY ParseMultipartIs, Zenon
<1>2. PICK n \in Nat : n = Turns(buf)
  BY LenProperties DEF Turns
<1>3. \A k \in 0 .. n : f[k] = IF k # 0 THEN turn[f[k - 1]] ELSE start
  BY <1>1, <1>2 DEF LoopUpTo
<1>4. LoopInv(buf, dr, start) /\ Place(start) \in Nat /\ Place(start) >= 4
  BY LoopStarts
<1>5. \A m \in Loops : turn[m] = IF Over(buf, m) THEN m
                                 ELSE Turn(buf, dr, [m EXCEPT !.falls = FALSE], canOpen)
  BY Zenon DEF NextTurn
<1> HIDE DEF turn, start
<1> DEFINE Fine(k) == /\ LoopInv(buf, dr, f[k]) /\ (Over(buf, f[k]) \/ Place(f[k]) >= k + 4)
                      /\ f[k].rd.made >= rd.made
           T == { k \in Nat : k \in 0 .. n => Fine(k) }
<1>6. 0 \in T
  <2>1. f[0] = start
    BY <1>3
  <2>2. start.rd = rd /\ rd.made \in Nat
    BY DEF start, LoopStart, Parsable, Data
  <2> QED
    BY <1>4, <2>1, <2>2
<1>7. ASSUME NEW k \in T PROVE k + 1 \in T
  <2>0. k \in Nat /\ k + 1 \in Nat
    OBVIOUS
  <2> SUFFICES ASSUME k + 1 \in 0 .. n PROVE Fine(k + 1)
    BY <2>0, Zenon
  <2>1. k \in 0 .. n /\ k + 1 # 0 /\ (k + 1) - 1 = k
    OBVIOUS
  <2>2. Fine(k)
    BY <2>1, Zenon
  <2>3. f[k + 1] = turn[f[k]]
    BY <1>3, <2>1
  <2>4. f[k] \in Loops
    BY <2>2 DEF LoopInv
  <2> HIDE DEF T
  <2>5. CASE Over(buf, f[k])
    BY <1>5, <2>2, <2>3, <2>4, <2>5
  <2>6. CASE ~Over(buf, f[k])
    <3>1. f[k + 1] = Turn(buf, dr, [f[k] EXCEPT !.falls = FALSE], canOpen)
      BY <1>5, <2>3, <2>4, <2>6
    <3>2. Good(buf, dr, f[k], f[k + 1])
      BY <2>2, <2>6, <3>1, TurnIsGood
    <3>3. Place(f[k]) \in Nat /\ Place(f[k + 1]) \in Nat
      <4>1. f[k + 1] \in Loops
        BY <3>2 DEF Good, LoopInv
      <4>2. \A m \in Loops : Place(m) \in Nat
        BY DEF Place, Rank, Loops
      <4> QED
        BY <2>4, <4>1, <4>2
    <3>4. Over(buf, f[k + 1]) \/ Place(f[k + 1]) >= (k + 1) + 4
      BY <2>0, <2>2, <2>6, <3>2, <3>3 DEF Good, Over
    <3>5. f[k + 1].rd.made >= rd.made
      <4>1. f[k + 1] \in Loops
        BY <3>2 DEF Good, LoopInv
      <4>2. PICK x \in Nat, y \in Nat, z \in Nat :
              x = f[k + 1].rd.made /\ y = f[k].rd.made /\ z = rd.made
        BY <2>4, <4>1, MadeTyped DEF Parsable, Data
      <4>3. x >= y /\ y >= z
        BY <2>2, <3>2, <4>2 DEF Good
      <4>4. x >= z
        BY <4>3
      <4> QED
        BY <4>2, <4>4
    <3> QED
      BY <3>2, <3>4, <3>5 DEF Good
  <2> QED
    BY <2>5, <2>6
<1> HIDE DEF T, Fine
<1>8. T = Nat
  <2>1. T \subseteq Nat
    BY DEF T
  <2> QED
    BY <1>6, <1>7, <2>1, NatSetInduction
<1>9. Fine(n)
  <2>1. n \in T /\ n \in 0 .. n
    BY <1>8
  <2> QED
    BY <2>1, Zenon DEF T
<1> DEFINE m == f[n]
<1>10. LoopInv(buf, dr, m)
  BY <1>9 DEF Fine
<1>11. Over(buf, m)
  <2> SUFFICES ASSUME ~Over(buf, m) PROVE FALSE
    OBVIOUS
  <2>1. Place(m) >= n + 4 /\ ~m.done
    BY <1>9 DEF Fine, Over
  <2>2. m.cur \in 1 .. Len(buf) + 1 /\ Len(buf) \in Nat
    BY <1>10, <2>1, LenProperties DEF LoopInv, Running
  <2>3. n = 4 * Len(buf) + 4
    BY <1>2 DEF Turns
  <2> HIDE DEF m
  <2> QED
    BY <2>1, <2>2, <2>3 DEF Place, Rank
<1> HIDE DEF m
<1>12. Outcome(buf, dr, m) /\ m \in Loops /\ m.left \in Nat /\ Numbered(m.rd, m.ss)
  <2>1. CASE m.done
    BY <1>10, <2>1 DEF LoopInv
  <2>2. CASE ~m.done
    <3>1. Running(buf, dr, m) /\ m.cur > Len(buf)
      BY <1>10, <1>11, <2>2 DEF LoopInv, Over
    <3>2. m.ss.state \notin {"FIND_DATA_BLOCK", "SAVE_DATA_BLOCK"}
      BY <3>1, LenProperties DEF Running, DelimiterAt
    <3> QED
      BY <1>10, <3>1, <3>2 DEF LoopInv, Running, Outcome
  <2> QED
    BY <2>1, <2>2
<1> DEFINE got == ParseMultipart(buf, rd, dr, canOpen)
<1>13. got = ParsedFrom(dr, m)
  BY <1>1, <1>2 DEF m
<1> HIDE DEF got
<1>14. /\ got.rd = m.rd /\ got.dr = [dr EXCEPT !.left = m.left, !.ss = m.ss]
       /\ (got.ok = m.ok) /\ (got.dies = m.dies)
  BY <1>13 DEF ParsedFrom
<1>15. /\ m.ss \in MultipartStates /\ m.rd \in Data /\ m.ok \in BOOLEAN /\ m.dies \in BOOLEAN
  BY <1>12 DEF Loops
<1>16. /\ got.dr \in Receivers /\ got.dr.left = m.left /\ got.dr.ss = m.ss
       /\ got.dr.full = dr.full /\ got.dr.recv = dr.recv
  BY <1>12, <1>14, <1>15 DEF Receivers, Parsable
<1>17. ParsedWell(buf, rd, dr, got)
  <2>1. m.rd.made >= rd.made
    BY <1>9 DEF Fine, m
  <2> QED
    BY <2>1, <1>12, <1>14, <1>15, <1>16 DEF ParsedWell, Outcome
<1>18. LoopUpTo(turn, start, f, Turns(buf)) /\ Over(buf, f[Turns(buf)])
  BY <1>1, <1>2, <1>11 DEF m
<1>19. \A k \in 0 .. Turns(buf) : LoopInv(buf, dr, f[k])
  <2> SUFFICES ASSUME NEW k \in 0 .. n PROVE LoopInv(buf, dr, f[k])
    BY <1>2
  <2>1. k \in T
    BY <1>8
  <2> QED
    BY <2>1, Zenon DEF T, Fine
<1>20. got = ParsedFrom(dr, f[Turns(buf)])
  BY <1>2, <1>13 DEF m
<1> QED
  BY <1>17, <1>18, <1>19, <1>20, Zenon DEF got, turn, start

\* A finite set of numbers has a first, a second, and so on up to its last member.
LEMMA KthExists ==
  ASSUME NEW S \in SUBSET Nat, IsFiniteSet(S), NEW k \in 1 .. Cardinality(S)
  PROVE  \E i \in S : Cardinality({ j \in S : j < i }) = k - 1
<1> DEFINE below(i) == { j \in S : j < i }
           T == { n \in Nat : n + 1 \in 1 .. Cardinality(S) => \E i \in S : Cardinality(below(i)) = n }
<1>0. Cardinality(S) \in Nat
  BY FS_CardinalityType
<1>1. 0 \in T
  <2> SUFFICES ASSUME 1 \in 1 .. Cardinality(S)
               PROVE  \E i \in S : Cardinality(below(i)) = 0
    OBVIOUS
  <2>1. S # {}
    BY FS_EmptySet
  <2>2. Min(S) \in S /\ below(Min(S)) = {}
    <3>1. Min(S) \in S /\ \A i \in S : Min(S) <= i
      BY <2>1, MinIs
    <3>2. PICK x \in Nat : x = Min(S)
      BY <3>1
    <3>3. \A j \in S : j \in Nat /\ ~(j < x)
      BY <3>1, <3>2
    <3> QED
      BY <3>1, <3>2, <3>3
  <2>3. Cardinality({}) = 0
    BY FS_EmptySet
  <2> QED
    BY <2>2, <2>3
<1>2. ASSUME NEW n \in T PROVE n + 1 \in T
  <2>0. n \in Nat /\ n + 1 \in Nat
    OBVIOUS
  <2> SUFFICES ASSUME (n + 1) + 1 \in 1 .. Cardinality(S)
               PROVE  \E i \in S : Cardinality(below(i)) = n + 1
    BY <2>0, Zenon
  <2>1. n + 1 \in 1 .. Cardinality(S) /\ n + 1 < Cardinality(S)
    BY <1>0, <2>0
  <2>2. PICK i \in S : Cardinality(below(i)) = n
    BY <2>1, Zenon
  <2>3. IsFiniteSet(below(i))
    BY FS_Subset
  <2> DEFINE upTo == below(i) \union {i}
             rest == S \ upTo
  <2>4. i \notin below(i) /\ upTo \subseteq S
    OBVIOUS
  <2>5. Cardinality(upTo) = n + 1 /\ IsFiniteSet(upTo)
    BY <2>2, <2>3, <2>4, FS_AddElement
  <2>6. rest # {}
    <3>1. upTo # S
      BY <2>1, <2>5
    <3> QED
      BY <2>4, <3>1
  <2>7. rest \in SUBSET Nat /\ rest \subseteq S /\ \A j \in S : j \in rest <=> j > i
    <3>1. \A j \in S : j \in rest <=> ~(j < i) /\ j # i
      OBVIOUS
    <3>2. \A j \in S : j \in Nat /\ i \in Nat
      OBVIOUS
    <3>3. rest \in SUBSET Nat /\ rest \subseteq S
      OBVIOUS
    <3> HIDE DEF rest
    <3> QED
      BY <3>1, <3>2, <3>3
  <2>8. Min(rest) \in rest /\ \A j \in rest : Min(rest) <= j
    BY <2>6, <2>7, MinIs
  <2>9. below(Min(rest)) = upTo
    <3>1. ASSUME NEW j \in S PROVE j < Min(rest) <=> j \in upTo
      <4>1. j \in upTo <=> j \notin rest
        OBVIOUS
      <4> HIDE DEF upTo, rest
      <4>2. j \in Nat /\ i \in Nat /\ Min(rest) \in Nat /\ Min(rest) > i
        BY <2>7, <2>8
      <4> QED
        BY <2>7, <2>8, <4>1, <4>2
    <3> HIDE DEF rest
    <3> QED
      BY <2>4, <3>1
  <2> HIDE DEF rest, upTo, below
  <2>10. Min(rest) \in S
    BY <2>7, <2>8
  <2> QED
    BY <2>5, <2>9, <2>10
<1> HIDE DEF T
<1>3. T = Nat
  <2>1. T \subseteq Nat
    BY DEF T
  <2> QED
    BY <1>1, <1>2, <2>1, NatSetInduction
<1>4. k - 1 \in Nat /\ (k - 1) + 1 \in 1 .. Cardinality(S)
  BY <1>0
<1> QED
  BY <1>3, <1>4 DEF T

\* What is left over behind the last sign.
LEMMA LastPiece ==
  ASSUME NEW S, NEW buf \in Seq(S)
  PROVE  Len(Last(Pieces(buf))) \in Nat
<1> DEFINE stops == { i \in DOMAIN buf : buf[i].t = "amp" } \union { Len(buf) + 1 }
           n == Cardinality(stops)
           stop(k) == IF k = 0 THEN 0
                      ELSE CHOOSE i \in stops : Cardinality({ j \in stops : j < i }) = k - 1
<1>1. Len(buf) \in Nat /\ DOMAIN buf = 1 .. Len(buf)
  BY LenProperties
<1>2. stops \in SUBSET Nat /\ Len(buf) + 1 \in stops /\ IsFiniteSet(stops)
  <2>1. stops \subseteq 1 .. Len(buf) + 1 /\ Len(buf) + 1 \in stops
    BY <1>1
  <2>2. IsFiniteSet(1 .. Len(buf) + 1)
    BY <1>1, FS_Interval
  <2> HIDE DEF stops
  <2>3. IsFiniteSet(stops)
    BY <2>1, <2>2, FS_Subset
  <2>4. 1 .. Len(buf) + 1 \subseteq Nat
    BY <1>1
  <2> QED
    BY <2>1, <2>3, <2>4
<1>3. Pieces(buf) = [k \in 1 .. n |-> SubSeq(buf, stop(k - 1) + 1, stop(k) - 1)]
  BY Zenon DEF Pieces
<1> HIDE DEF stops
<1>4. n \in Nat /\ n >= 1
  BY <1>2, FS_CardinalityType, FS_EmptySet
<1>5. \A k \in 0 .. n : stop(k) \in Nat
  <2> TAKE k \in 0 .. n
  <2>1. CASE k = 0
    BY <2>1
  <2>2. CASE k # 0
    <3>1. k \in 1 .. n
      BY <1>4, <2>2
    <3>2. \E i \in stops : Cardinality({ j \in stops : j < i }) = k - 1
      BY <1>2, <3>1, KthExists
    <3> QED
      BY <1>2, <2>2, <3>2
  <2> QED
    BY <2>1, <2>2
<1> HIDE DEF stop
<1>6. Len(Pieces(buf)) = n /\ Last(Pieces(buf)) = SubSeq(buf, stop(n - 1) + 1, stop(n) - 1)
  <2> HIDE DEF n
  <2> QED
    <3> DEFINE piece(k) == SubSeq(buf, stop(k - 1) + 1, stop(k) - 1)
    <3>1. Pieces(buf) = [k \in 1 .. n |-> piece(k)]
      BY <1>3
    <3> HIDE DEF piece
    <3>2. Len(Pieces(buf)) = n /\ Pieces(buf)[n] = piece(n)
      BY <1>4, <3>1
    <3> QED
      BY <3>2 DEF Last, piece
<1> HIDE DEF n
<1>7. PICK a \in Int, b \in Int : a = stop(n - 1) + 1 /\ b = stop(n) - 1
  <2>1. n - 1 \in 0 .. n /\ n \in 0 .. n
    BY <1>4
  <2> QED
    BY <1>5, <2>1
<1>8. Len(SubSeq(buf, a, b)) \in Nat
  <2>1. SubSeq(buf, a, b) = [i \in 1 .. 1 + b - a |-> buf[i + a - 1]]
    OBVIOUS
  <2>2. CASE 1 + b - a >= 0
    BY <2>1, <2>2
  <2>3. CASE 1 + b - a < 0
    <3>1. 1 .. 1 + b - a = 1 .. 0
      BY <2>3
    <3>2. SubSeq(buf, a, b) = [i \in 1 .. 0 |-> buf[i + a - 1]]
      BY <2>1, <3>1
    <3> QED
      BY <3>2
  <2> QED
    BY <2>2, <2>3
<1> QED
  BY <1>6, <1>7, <1>8

\* What a parser of fields gives back.
FieldsParsed(dr, rd, got) ==
  /\ got.ok \in BOOLEAN /\ got.dies = FALSE
  /\ got.rd.files = rd.files /\ got.rd.made = rd.made /\ DOMAIN got.rd = DOMAIN rd
  /\ got.dr = [dr EXCEPT !.left = got.dr.left] /\ got.dr.left \in Nat
  /\ Complete(dr) => got.dr = dr

LEMMA FormIsParsed ==
  ASSUME NEW S, NEW buf \in Seq(S), NEW rd, NEW dr, dr = [dr EXCEPT !.left = dr.left],
         "left" \in DOMAIN dr, dr.left \in Nat, {"fields", "files", "made"} \subseteq DOMAIN rd
  PROVE  /\ FieldsParsed(dr, rd, ParseFormUrlencoded(buf, rd, dr))
         /\ FieldsParsed(dr, rd, ParseTextPlain(buf, rd, dr))
<1>1. Len(Last(Pieces(buf))) \in Nat
  BY LastPiece
<1>2. ASSUME NEW ok \in BOOLEAN PROVE FieldsParsed(dr, rd, Parsed(ok, dr, rd))
  BY DEF FieldsParsed, Parsed
<1>3. ASSUME NEW fields
      PROVE  FieldsParsed(dr, rd,
               Parsed(TRUE, IF Complete(dr) THEN dr ELSE [dr EXCEPT !.left = Len(Last(Pieces(buf)))],
                      [rd EXCEPT !.fields = @ \o fields]))
  BY <1>1 DEF FieldsParsed, Parsed
<1>4. (dr.full = 0 \/ ~Complete(dr)) \in BOOLEAN
  BY DEF Complete
<1>5. FieldsParsed(dr, rd, ParseFormUrlencoded(buf, rd, dr))
  BY <1>2, <1>3, <1>4, Zenon DEF ParseFormUrlencoded, ParsePieces
<1>6. FieldsParsed(dr, rd, ParseTextPlain(buf, rd, dr))
  BY <1>2, <1>3, <1>4, Zenon DEF ParseTextPlain, ParsePieces
<1> QED
  BY <1>5, <1>6
=============================================================================
