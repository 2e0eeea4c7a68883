----------------------------- MODULE BodyProofs -----------------------------
(***************************************************************************)
(* Proofs about the bodies of requests.  First the parsers of RequestBody, *)
(* for any body: where its parts or its pairs stand in it (Laid, Paired),  *)
(* what each case of the switch does with a chunk, and that the chunks     *)
(* together give what the whole says, wherever it is cut.  Then a          *)
(* connection of HttpConnection: between two chunks the parser stands in   *)
(* the body where the receiver has left it (BodyInv), so a body arrives    *)
(* whole and is refused only for what it is.                               *)
(***************************************************************************)
EXTENDS ConnectionProofs

-----------------------------------------------------------------------------
(* Where the items of a body stand in it                                    *)

\* Each of the sequences that are joined stands behind those before it.
LEMMA OneMoreJoined ==
  ASSUME NEW S, NEW n \in Nat, NEW g, \A i \in 1 .. n : g[i] \in Seq(S),
         NEW k \in Nat, k + 1 <= n
  PROVE  Joined(g, k + 1) = Joined(g, k) \o g[k + 1]
BY OneMoreList

\* The sequences are found in what they are joined to, each behind the lengths of those before it.
LEMMA JoinedAt ==
  ASSUME NEW S, NEW n \in Nat, NEW g, \A i \in 1 .. n : g[i] \in Seq(S),
         NEW k \in Nat, k + 1 <= n
  PROVE  LET at == Len(Joined(g, k))
             size == Len(g[k + 1])
         IN  /\ at \in Nat /\ size \in Nat /\ Len(Joined(g, k + 1)) = at + size
             /\ Joined(g, n) \in Seq(S) /\ Len(Joined(g, n)) \in Nat /\ at + size <= Len(Joined(g, n))
             /\ \A i \in 1 .. size : Joined(g, n)[at + i] = g[k + 1][i]
<1>0. \A m \in Nat : m + 1 <= n => Joined(g, m + 1) = Joined(g, m) \o g[m + 1]
  BY OneMoreJoined
<1>1. k + 1 \in Nat /\ k + 1 \in 1 .. n
  OBVIOUS
<1>2. PICK a \in Seq(S) : a = Joined(g, k)
  BY OneMoreList
<1>3. PICK b \in Seq(S) : b = g[k + 1]
  BY <1>1
<1>4. PICK at \in Nat, size \in Nat : at = Len(a) /\ size = Len(b)
  BY LenProperties
<1>5. Joined(g, k + 1) = a \o b
  BY <1>0, <1>2, <1>3
<1> DEFINE Longer(m) == /\ Joined(g, m) \in Seq(S) /\ Len(Joined(g, m)) \in Nat
                        /\ at + size <= Len(Joined(g, m))
                        /\ \A i \in 1 .. size : Joined(g, m)[at + i] = b[i]
           T == { m \in Nat : m <= n /\ k + 1 <= m => Longer(m) }
<1>6. /\ a \o b \in Seq(S) /\ Len(a \o b) = at + size
      /\ \A i \in 1 .. at + size : (a \o b)[i] = IF i <= at THEN a[i] ELSE b[i - at]
  BY <1>4, ConcatProperties
<1>7. Longer(k + 1)
  <2>1. \A i \in 1 .. size : at + i \in 1 .. at + size /\ ~(at + i <= at) /\ (at + i) - at = i
    BY <1>4
  <2>2. at + size \in Nat /\ at + size <= at + size
    BY <1>4
  <2> QED
    BY <1>5, <1>6, <2>1, <2>2
<1>8. ASSUME NEW m \in Nat, k + 1 <= m, m + 1 <= n, Longer(m) PROVE Longer(m + 1)
  <2>1. PICK c \in Seq(S) : c = Joined(g, m)
    BY <1>8
  <2>2. PICK d \in Seq(S) : d = g[m + 1]
    <3>1. m + 1 \in 1 .. n
      BY <1>8
    <3> QED
      BY <3>1
  <2>3. Joined(g, m + 1) = c \o d
    <3>1. Joined(g, m + 1) = Joined(g, m) \o g[m + 1]
      BY <1>0, <1>8
    <3> QED
      BY <2>1, <2>2, <3>1
  <2>4. PICK x \in Nat, y \in Nat : x = Len(c) /\ y = Len(d)
    BY LenProperties
  <2>5. /\ c \o d \in Seq(S) /\ Len(c \o d) = x + y
        /\ \A i \in 1 .. x + y : (c \o d)[i] = IF i <= x THEN c[i] ELSE d[i - x]
    BY <2>4, ConcatProperties
  <2>6. at + size <= x /\ \A i \in 1 .. size : c[at + i] = b[i]
    BY <1>8, <2>1, <2>4
  <2>7. \A i \in 1 .. size : at + i \in 1 .. x + y /\ at + i <= x
    BY <2>4, <2>6
  <2>8. at + size <= x + y /\ x + y \in Nat
    BY <2>4, <2>6
  <2> QED
    BY <2>3, <2>5, <2>6, <2>7, <2>8
<1> HIDE DEF Longer
<1>9. T = Nat
  <2>1. T \subseteq Nat
    OBVIOUS
  <2>2. 0 \in T
    OBVIOUS
  <2>3. ASSUME NEW m \in T PROVE m + 1 \in T
    <3>1. m \in Nat /\ m + 1 \in Nat /\ (m + 1 <= n => m <= n) /\ (k + 1 <= m + 1 => k + 1 <= m \/ k + 1 = m + 1)
      OBVIOUS
    <3>2. m <= n /\ k + 1 <= m => Longer(m)
      OBVIOUS
    <3>3. m + 1 <= n /\ k + 1 <= m + 1 => Longer(m + 1)
      BY <1>7, <1>8, <3>1, <3>2
    <3> QED
      BY <3>1, <3>3
  <2> HIDE DEF T
  <2> QED
    BY <2>1, <2>2, <2>3, NatSetInduction
<1>10. Longer(n)
  <2>1. n \in T
    BY <1>9
  <2> QED
    BY <2>1
<1> QED
  BY <1>2, <1>3, <1>4, <1>5, <1>6, <1>10 DEF Longer

\* The words of a part.
LEMMA PartWords ==
  ASSUME NEW item \in Items
  PROVE  LET part == PartText(item)
             size == Len(item.value)
         IN  /\ size \in Nat /\ part \in Seq(Words) /\ Len(part) = size + 6
             /\ part[1] = "nl" /\ part[2] = item.kind /\ part[3] = "nl" /\ part[4] = "nl"
             /\ \A j \in 1 .. size : part[4 + j] = item.value[j]
             /\ part[size + 5] = "nl" /\ part[size + 6] = "bnd"
<1>1. item.kind \in Words /\ item.value \in Seq(Words) /\ "nl" \in Words
  BY DEF Items, Words, Signs, Texts
<1>2. PICK a \in Seq(Words) : /\ a = <<"nl", item.kind, "nl", "nl">> /\ Len(a) = 4 /\ a[1] = "nl"
                              /\ a[2] = item.kind /\ a[3] = "nl" /\ a[4] = "nl"
  <2>1. PICK kind \in Words : kind = item.kind
    BY <1>1
  <2>2. <<"nl", kind, "nl", "nl">> \in Seq(Words)
    BY <1>1, <2>1
  <2>3. /\ Len(<<"nl", kind, "nl", "nl">>) = 4
        /\ <<"nl", kind, "nl", "nl">>[1] = "nl" /\ <<"nl", kind, "nl", "nl">>[2] = kind
        /\ <<"nl", kind, "nl", "nl">>[3] = "nl" /\ <<"nl", kind, "nl", "nl">>[4] = "nl"
    OBVIOUS
  <2> QED
    BY <2>1, <2>2, <2>3, Zenon
<1>3. PICK b \in Seq(Words) : b = item.value
  BY <1>1
<1>4. PICK c \in Seq(Words) : c = <<"nl", "bnd">> /\ Len(c) = 2 /\ c[1] = "nl" /\ c[2] = "bnd"
  BY SignsTyped DEF Texts
<1>5. PICK size \in Nat : size = Len(b)
  BY LenProperties
<1>6. PICK ab \in Seq(Words) : ab = a \o b
  BY ConcatProperties
<1>7. PICK abc \in Seq(Words) : abc = ab \o c
  BY ConcatProperties
<1>8. /\ Len(ab) = 4 + size
      /\ \A i \in 1 .. 4 + size : ab[i] = IF i <= 4 THEN a[i] ELSE b[i - 4]
  BY <1>2, <1>5, <1>6, ConcatProperties
<1>9. /\ Len(abc) = 4 + size + 2
      /\ \A i \in 1 .. 4 + size + 2 : abc[i] = IF i <= 4 + size THEN ab[i] ELSE c[i - (4 + size)]
  BY <1>4, <1>7, <1>8, ConcatProperties
<1>10. PartText(item) = abc
  BY <1>2, <1>3, <1>4, <1>6, <1>7 DEF PartText
<1>11. abc[1] = "nl" /\ abc[2] = item.kind /\ abc[3] = "nl" /\ abc[4] = "nl"
  <2>1. \A i \in {1, 2, 3, 4} : abc[i] = a[i]
    <3> TAKE i \in {1, 2, 3, 4}
    <3>1. i \in 1 .. 4 + size + 2 /\ i <= 4 + size /\ i \in 1 .. 4 + size /\ i <= 4
      OBVIOUS
    <3> QED
      BY <1>8, <1>9, <3>1
  <2> QED
    BY <1>2, <2>1
<1>12. ASSUME NEW j \in 1 .. size PROVE abc[4 + j] = b[j]
  <2>1. /\ 4 + j \in 1 .. 4 + size + 2 /\ 4 + j <= 4 + size /\ 4 + j \in 1 .. 4 + size
        /\ ~(4 + j <= 4) /\ (4 + j) - 4 = j
    OBVIOUS
  <2> QED
    BY <1>8, <1>9, <2>1
<1>13. abc[size + 5] = "nl" /\ abc[size + 6] = "bnd"
  <2>1. /\ size + 5 \in 1 .. 4 + size + 2 /\ ~(size + 5 <= 4 + size) /\ (size + 5) - (4 + size) = 1
        /\ size + 6 \in 1 .. 4 + size + 2 /\ ~(size + 6 <= 4 + size) /\ (size + 6) - (4 + size) = 2
    OBVIOUS
  <2> QED
    BY <1>4, <1>9, <2>1
<1>14. 4 + size + 2 = size + 6
  OBVIOUS
<1> QED
  BY <1>3, <1>5, <1>9, <1>10, <1>11, <1>12, <1>13, <1>14

\* The words of a pair.
LEMMA PairWords ==
  ASSUME NEW item \in Items
  PROVE  LET pair == PairText(item)
             name == Len(item.name)
             size == Len(item.value)
         IN  /\ name \in Nat /\ size \in Nat /\ pair \in Seq(Words) /\ Len(pair) = name + 1 + size
             /\ \A j \in 1 .. name : pair[j] = item.name[j]
             /\ pair[name + 1] = "eq"
             /\ \A j \in 1 .. size : pair[name + 1 + j] = item.value[j]
<1>1. PICK a \in Seq(Words), b \in Seq(Words) : a = item.name /\ b = item.value
  BY DEF Items, Texts
<1>2. PICK c \in Seq(Words) : c = <<"eq">> /\ Len(c) = 1 /\ c[1] = "eq"
  BY SignsTyped DEF Texts
<1>3. PICK name \in Nat, size \in Nat : name = Len(a) /\ size = Len(b)
  BY LenProperties
<1>4. PICK ac \in Seq(Words) : ac = a \o c
  BY ConcatProperties
<1>5. PICK acb \in Seq(Words) : acb = ac \o b
  BY ConcatProperties
<1>6. /\ Len(ac) = name + 1
      /\ \A i \in 1 .. name + 1 : ac[i] = IF i <= name THEN a[i] ELSE c[i - name]
  BY <1>2, <1>3, <1>4, ConcatProperties
<1>7. /\ Len(acb) = name + 1 + size
      /\ \A i \in 1 .. name + 1 + size : acb[i] = IF i <= name + 1 THEN ac[i] ELSE b[i - (name + 1)]
  <2>1. PICK n \in Nat : n = name + 1 /\ n = Len(ac)
    BY <1>6
  <2>2. /\ Len(ac \o b) = n + size
        /\ \A i \in 1 .. n + size : (ac \o b)[i] = IF i <= n THEN ac[i] ELSE b[i - n]
    <3>1. /\ Len(ac \o b) = Len(ac) + Len(b)
          /\ \A i \in 1 .. Len(ac) + Len(b) : (ac \o b)[i] = IF i <= Len(ac) THEN ac[i] ELSE b[i - Len(ac)]
      BY ConcatProperties
    <3> QED
      BY <1>3, <2>1, <3>1
  <2> QED
    BY <1>5, <2>1, <2>2
<1>8. PairText(item) = acb
  BY <1>1, <1>2, <1>4, <1>5 DEF PairText
<1>9. ASSUME NEW j \in 1 .. name PROVE acb[j] = a[j]
  <2>1. j \in 1 .. name + 1 + size /\ j <= name + 1 /\ j \in 1 .. name + 1 /\ j <= name
    OBVIOUS
  <2> QED
    BY <1>6, <1>7, <2>1
<1>10. acb[name + 1] = "eq"
  <2>1. /\ name + 1 \in 1 .. name + 1 + size /\ name + 1 \in 1 .. name + 1
        /\ ~(name + 1 <= name) /\ (name + 1) - name = 1 /\ name + 1 <= name + 1
    OBVIOUS
  <2> QED
    BY <1>2, <1>6, <1>7, <2>1
<1>11. ASSUME NEW j \in 1 .. size PROVE acb[name + 1 + j] = b[j]
  <2>1. /\ name + 1 + j \in 1 .. name + 1 + size /\ ~(name + 1 + j <= name + 1)
        /\ (name + 1 + j) - (name + 1) = j
    OBVIOUS
  <2> QED
    BY <1>7, <2>1
<1> QED
  BY <1>1, <1>3, <1>7, <1>8, <1>9, <1>10, <1>11

\* The units of a text are its words, each marked with its request.
LEMMA TokenAt ==
  ASSUME NEW words \in Texts, NEW r \in Nat
  PROVE  LET text == Tokens(words, r)
         IN  /\ Len(words) \in Nat /\ Len(text) = Len(words) /\ text \in Seq(Units)
             /\ \A i \in 1 .. Len(words) : text[i] = [t |-> words[i], r |-> r] /\ text[i].t = words[i]
<1>1. Tokens(words, r) \in Seq([t : Words, r : Nat]) /\ Len(Tokens(words, r)) = Len(words)
  BY TokensTyped
<1>2. PICK n \in Nat : n = Len(words) /\ DOMAIN words = 1 .. n
  BY LenProperties DEF Texts
<1>3. ASSUME NEW i \in 1 .. n
      PROVE  Tokens(words, r)[i] = [t |-> words[i], r |-> r] /\ Tokens(words, r)[i].t = words[i]
  <2>1. PICK x : x = Tokens(words, r)[i]
    OBVIOUS
  <2>2. x = [t |-> words[i], r |-> r]
    BY <1>2, <2>1 DEF Tokens
  <2>3. x.t = words[i]
    BY <2>2
  <2> QED
    BY <2>1, <2>2, <2>3
<1> QED
  BY <1>1, <1>2, <1>3 DEF Units

\* A body of parts: the boundary, the parts, and the end.
Parts(q) == [i \in DOMAIN q.items |-> PartText(q.items[i])]

\* The texts of the parts of a body, one for each item, from none of them to all.
LEMMA PartsJoined ==
  ASSUME NEW q \in Requests
  PROVE  \E n \in Nat :
           /\ n = Len(q.items) /\ DOMAIN q.items = 1 .. n
           /\ \A i \in 1 .. n : q.items[i] \in Items /\ Parts(q)[i] = PartText(q.items[i])
                                /\ Parts(q)[i] \in Seq(Words)
           /\ Joined(Parts(q), 0) = <<>> /\ Joined(Parts(q), n) = FlattenSeq(Parts(q))
<1>1. PICK n \in Nat : n = Len(q.items) /\ DOMAIN q.items = 1 .. n
  BY LenProperties DEF Requests
<1>2. \A i \in 1 .. n : q.items[i] \in Items
  BY <1>1, ElementOfSeq DEF Requests
<1>3. \A i \in 1 .. n : Parts(q)[i] = PartText(q.items[i])
  BY <1>1 DEF Parts
<1>4. \A i \in 1 .. n : Parts(q)[i] \in Seq(Words)
  BY <1>2, <1>3, PartTextTyped DEF Texts
<1>5. Parts(q) = [i \in 1 .. n |-> Parts(q)[i]]
  BY <1>1 DEF Parts
<1>6. Joined(Parts(q), 0) = <<>> /\ Joined(Parts(q), n) = FlattenSeq(Parts(q))
  BY <1>5, AllJoined
<1> QED
  BY <1>1, <1>2, <1>3, <1>4, <1>6

\* A body of parts: a delimiter, the parts, and the end of the last delimiter.
LEMMA MultipartWords ==
  ASSUME NEW q \in Requests, q.variant = "multipart", WellFramed(q), NEW n \in Nat, n = Len(q.items)
  PROVE  \E size \in Nat, words \in Texts : \E all :
           /\ all = Joined(Parts(q), n) /\ size = Len(all) /\ words = BodyText(q)
           /\ Len(words) = size + 3 /\ words[1] = "bnd"
           /\ \A i \in 1 .. size : words[1 + i] = all[i]
           /\ words[size + 2] = "fin" /\ words[size + 3] = "nl"
<1>0. BodyText(q) \in Texts
  BY BodyTyped
<1>1. PICK all \in Seq(Words) : all = FlattenSeq(Parts(q)) /\ all = Joined(Parts(q), n)
  <2>1. \A i \in 1 .. n : Parts(q)[i] \in Seq(Words)
    BY PartsJoined
  <2>2. Parts(q) \in Lists(Words)
    <3>1. DOMAIN q.items = 1 .. n
      BY PartsJoined
    <3>2. Parts(q) \in [1 .. n -> Seq(Words)]
      BY <2>1, <3>1 DEF Parts
    <3> QED
      BY <3>2 DEF Lists
  <2> QED
    BY <2>2, FlattenTyped, PartsJoined
<1>2. PICK a \in Seq(Words) : a = <<"bnd">> /\ Len(a) = 1 /\ a[1] = "bnd"
  BY SignsTyped DEF Texts
<1>3. PICK c \in Seq(Words) : c = <<"fin", "nl">> /\ Len(c) = 2 /\ c[1] = "fin" /\ c[2] = "nl"
  BY SignsTyped DEF Texts
<1>4. PICK aa \in Seq(Words) : aa = a \o all
  BY ConcatProperties
<1>5. PICK aac \in Seq(Words) : aac = aa \o c
  BY ConcatProperties
<1>6. BodyText(q) = aac
  <2>1. q.epilogue = <<>>
    BY DEF WellFramed
  <2>2. all = FlattenSeq([i \in DOMAIN q.items |-> PartText(q.items[i])])
    BY <1>1 DEF Parts
  <2>3. BodyText(q) = aac \o <<>>
    BY <1>2, <1>3, <1>4, <1>5, <2>1, <2>2 DEF BodyText
  <2> QED
    BY <2>3, ConcatEmptySeq
<1>7. PICK size \in Nat : size = Len(all)
  BY LenProperties
<1>8. /\ Len(aa) = 1 + size
      /\ \A i \in 1 .. 1 + size : aa[i] = IF i <= 1 THEN a[i] ELSE all[i - 1]
  BY <1>2, <1>4, <1>7, ConcatProperties
<1>9. /\ Len(aac) = 1 + size + 2
      /\ \A i \in 1 .. 1 + size + 2 : aac[i] = IF i <= 1 + size THEN aa[i] ELSE c[i - (1 + size)]
  BY <1>3, <1>5, <1>8, ConcatProperties
<1>10. aac[1] = "bnd"
  <2>1. 1 \in 1 .. 1 + size + 2 /\ 1 <= 1 + size /\ 1 \in 1 .. 1 + size
    OBVIOUS
  <2> QED
    BY <1>2, <1>8, <1>9, <2>1
<1>11. ASSUME NEW i \in 1 .. size PROVE aac[1 + i] = all[i]
  <2>1. /\ 1 + i \in 1 .. 1 + size + 2 /\ 1 + i <= 1 + size /\ 1 + i \in 1 .. 1 + size
        /\ ~(1 + i <= 1) /\ (1 + i) - 1 = i
    OBVIOUS
  <2> QED
    BY <1>8, <1>9, <2>1
<1>12. aac[size + 2] = "fin" /\ aac[size + 3] = "nl"
  <2>1. /\ size + 2 \in 1 .. 1 + size + 2 /\ ~(size + 2 <= 1 + size) /\ (size + 2) - (1 + size) = 1
        /\ size + 3 \in 1 .. 1 + size + 2 /\ ~(size + 3 <= 1 + size) /\ (size + 3) - (1 + size) = 2
    OBVIOUS
  <2> QED
    BY <1>3, <1>9, <2>1
<1>13. 1 + size + 2 = size + 3
  OBVIOUS
<1> QED
  BY <1>0, <1>1, <1>6, <1>7, <1>9, <1>10, <1>11, <1>12, <1>13

\* A part stands behind one place and goes up to another.
PartAt(text, item, r, at, next) ==
  LET size == Len(item.value)
  IN  /\ next = at + size + 6
      /\ text[at + 1].t = "nl" /\ text[at + 2] = [t |-> item.kind, r |-> r]
      /\ text[at + 3].t = "nl" /\ text[at + 4].t = "nl"
      /\ \A j \in 1 .. size : text[at + 4 + j] = [t |-> item.value[j], r |-> r]
                              /\ text[at + 4 + j].t # "bnd"
      /\ text[at + size + 5].t = "nl" /\ text[at + size + 6].t = "bnd"

\* The parts of a body, each behind a boundary, and the end of the body behind the last.
Laid(text, q, r, n, b) ==
  /\ n = Len(q.items) /\ b \in [1 .. n + 1 -> Nat]
  /\ b[1] = 1 /\ text[1].t = "bnd"
  /\ \A k \in 1 .. n : PartAt(text, q.items[k], r, b[k], b[k + 1])
  /\ \A k \in 1 .. n + 1 : b[k] >= 1 /\ b[k] <= b[n + 1]
  /\ text[b[n + 1] + 1].t = "fin" /\ text[b[n + 1] + 2].t = "nl" /\ Len(text) = b[n + 1] + 2

\* The parts of a body that is framed are found in it at some places.
LEMMA LaidExists ==
  ASSUME NEW q \in Requests, q.variant = "multipart", WellFramed(q), NEW r \in Nat
  PROVE  \E n \in Nat : \E b : Laid(Tokens(BodyText(q), r), q, r, n, b)
<1>1. PICK n \in Nat :
        /\ n = Len(q.items) /\ DOMAIN q.items = 1 .. n
        /\ \A i \in 1 .. n : q.items[i] \in Items /\ Parts(q)[i] = PartText(q.items[i])
                             /\ Parts(q)[i] \in Seq(Words)
        /\ Joined(Parts(q), 0) = <<>> /\ Joined(Parts(q), n) = FlattenSeq(Parts(q))
  BY PartsJoined
<1>2. PICK g : g = Parts(q)
  OBVIOUS
<1>3a. PICK all : all = Joined(g, n)
  OBVIOUS
<1>3. PICK size \in Nat, words \in Texts :
        /\ all = Joined(g, n) /\ size = Len(all) /\ words = BodyText(q)
        /\ Len(words) = size + 3 /\ words[1] = "bnd"
        /\ \A i \in 1 .. size : words[1 + i] = all[i]
        /\ words[size + 2] = "fin" /\ words[size + 3] = "nl"
  <2>1. n = Len(q.items)
    BY <1>1
  <2> QED
    BY <1>2, <1>3a, <2>1, MultipartWords
<1>4. PICK text \in Seq(Units) :
        /\ text = Tokens(BodyText(q), r) /\ Len(text) = size + 3
        /\ \A i \in 1 .. size + 3 : text[i] = [t |-> words[i], r |-> r] /\ text[i].t = words[i]
  BY <1>3, TokenAt
<1>5. \A k \in Nat : k + 1 <= n =>
        /\ Len(Joined(g, k)) \in Nat /\ Len(g[k + 1]) \in Nat
        /\ Len(Joined(g, k + 1)) = Len(Joined(g, k)) + Len(g[k + 1])
        /\ Len(Joined(g, k)) + Len(g[k + 1]) <= size
        /\ \A i \in 1 .. Len(g[k + 1]) : all[Len(Joined(g, k)) + i] = g[k + 1][i]
  <2> TAKE k \in Nat
  <2> HAVE k + 1 <= n
  <2>1. \A i \in 1 .. n : g[i] \in Seq(Words)
    BY <1>1, <1>2
  <2> QED
    BY <1>3, <2>1, JoinedAt
<1> DEFINE b == [k \in 1 .. n + 1 |-> 1 + Len(Joined(g, k - 1))]
<1>6. \A k \in 1 .. n + 1 : Len(Joined(g, k - 1)) \in Nat /\ Len(Joined(g, k - 1)) <= size
  <2> TAKE k \in 1 .. n + 1
  <2>1. CASE k = n + 1
    BY <1>3, <2>1
  <2>2. CASE k # n + 1
    <3>1. PICK j \in Nat : j = k - 1 /\ j + 1 <= n
      BY <2>2
    <3> QED
      BY <1>5, <3>1
  <2> QED
    BY <2>1, <2>2
<1>7. /\ b \in [1 .. n + 1 -> Nat] /\ b[1] = 1 /\ b[n + 1] = size + 1
      /\ \A k \in 1 .. n + 1 : b[k] >= 1 /\ b[k] <= size + 1
  <2>1. \A k \in 1 .. n + 1 : b[k] = 1 + Len(Joined(g, k - 1))
    OBVIOUS
  <2>2. 1 \in 1 .. n + 1 /\ n + 1 \in 1 .. n + 1 /\ 1 - 1 = 0 /\ (n + 1) - 1 = n
    OBVIOUS
  <2>3. b[1] = 1
    BY <1>1, <1>2, <2>1, <2>2
  <2>4. b[n + 1] = size + 1
    BY <1>3, <2>1, <2>2
  <2>5. b \in [1 .. n + 1 -> Nat]
    BY <1>6
  <2> QED
    BY <1>6, <2>1, <2>3, <2>4, <2>5
<1>8. ASSUME NEW k \in 1 .. n PROVE PartAt(text, q.items[k], r, b[k], b[k + 1])
  <2>1. PICK item \in Items : item = q.items[k] /\ g[k] = PartText(item)
    BY <1>1, <1>2
  <2>2. PICK j \in Nat : j = k - 1 /\ j + 1 = k /\ j + 1 <= n
    OBVIOUS
  <2>3. PICK at \in Nat : at = Len(Joined(g, j))
    BY <1>5, <2>2
  <2>4a. PICK part : part = PartText(item)
    OBVIOUS
  <2>4. PICK value \in Nat :
             /\ part = PartText(item) /\ value = Len(item.value) /\ Len(part) = value + 6
             /\ part[1] = "nl" /\ part[2] = item.kind /\ part[3] = "nl" /\ part[4] = "nl"
             /\ \A i \in 1 .. value : part[4 + i] = item.value[i]
             /\ part[value + 5] = "nl" /\ part[value + 6] = "bnd"
    BY <2>4a, PartWords
  <2>5. /\ Len(Joined(g, k)) = at + (value + 6) /\ at + (value + 6) <= size
        /\ \A i \in 1 .. value + 6 : all[at + i] = part[i]
    <3>1. /\ Len(Joined(g, j + 1)) = Len(Joined(g, j)) + Len(g[j + 1])
          /\ Len(Joined(g, j)) + Len(g[j + 1]) <= size
          /\ \A i \in 1 .. Len(g[j + 1]) : all[Len(Joined(g, j)) + i] = g[j + 1][i]
      BY <1>5, <2>2
    <3>2. g[j + 1] = part /\ Len(g[j + 1]) = value + 6
      BY <2>1, <2>2, <2>4
    <3> QED
      BY <2>2, <2>3, <3>1, <3>2
  <2>6. b[k] = at + 1 /\ b[k + 1] = (at + 1) + value + 6
    <3>1. \A l \in 1 .. n + 1 : b[l] = 1 + Len(Joined(g, l - 1))
      OBVIOUS
    <3>2. k \in 1 .. n + 1 /\ k + 1 \in 1 .. n + 1 /\ (k + 1) - 1 = k
      OBVIOUS
    <3>3. b[k] = 1 + at
      BY <2>2, <2>3, <3>1, <3>2
    <3>4. b[k + 1] = 1 + (at + (value + 6))
      BY <2>5, <3>1, <3>2
    <3>5. 1 + at = at + 1 /\ 1 + (at + (value + 6)) = (at + 1) + value + 6
      OBVIOUS
    <3> QED
      BY <3>3, <3>4, <3>5
  <2> HIDE DEF b
  <2>7. ASSUME NEW i \in 1 .. value + 6
        PROVE  text[(at + 1) + i] = [t |-> part[i], r |-> r] /\ text[(at + 1) + i].t = part[i]
    <3>1. at + i \in 1 .. size /\ 1 + (at + i) = (at + 1) + i /\ (at + 1) + i \in 1 .. size + 3
      BY <2>5
    <3>2. words[1 + (at + i)] = all[at + i]
      BY <1>3, <3>1
    <3>3. words[(at + 1) + i] = part[i]
      BY <2>5, <3>1, <3>2
    <3> QED
      BY <1>4, <3>1, <3>3
  <2>8. \A i \in 1 .. value : item.value[i] # "bnd"
    <3>1. "bnd" \notin ToSet(item.value)
      BY <1>1, <2>1 DEF WellFramed
    <3>2. DOMAIN item.value = 1 .. value
      BY <2>4, LenProperties DEF Items, Texts
    <3>3. ToSet(item.value) = { item.value[i] : i \in 1 .. value }
      BY <3>2 DEF ToSet
    <3> QED
      BY <3>1, <3>3
  <2>9. PICK p \in Nat : p = at + 1
    OBVIOUS
  <2>10. /\ text[p + 1].t = "nl" /\ text[p + 2] = [t |-> item.kind, r |-> r]
         /\ text[p + 3].t = "nl" /\ text[p + 4].t = "nl"
    <3>1. 1 \in 1 .. value + 6 /\ 2 \in 1 .. value + 6 /\ 3 \in 1 .. value + 6 /\ 4 \in 1 .. value + 6
      OBVIOUS
    <3> QED
      BY <2>4, <2>7, <2>9, <3>1
  <2>11. text[p + value + 5].t = "nl" /\ text[p + value + 6].t = "bnd"
    <3>1. /\ value + 5 \in 1 .. value + 6 /\ value + 6 \in 1 .. value + 6
          /\ p + (value + 5) = p + value + 5 /\ p + (value + 6) = p + value + 6
      OBVIOUS
    <3> QED
      BY <2>4, <2>7, <2>9, <3>1
  <2>12. ASSUME NEW i \in 1 .. value
         PROVE  text[p + 4 + i] = [t |-> item.value[i], r |-> r] /\ text[p + 4 + i].t # "bnd"
    <3>1. 4 + i \in 1 .. value + 6 /\ p + (4 + i) = p + 4 + i
      OBVIOUS
    <3>2. /\ text[p + (4 + i)] = [t |-> part[4 + i], r |-> r]
          /\ text[p + (4 + i)].t = part[4 + i]
      BY <2>7, <2>9, <3>1
    <3>3. part[4 + i] = item.value[i] /\ item.value[i] # "bnd"
      BY <2>4, <2>8
    <3> QED
      BY <3>1, <3>2, <3>3
  <2> QED
    BY <2>1, <2>4, <2>6, <2>9, <2>10, <2>11, <2>12 DEF PartAt
<1> HIDE DEF b
<1>9. /\ text[1].t = "bnd" /\ text[(size + 1) + 1].t = "fin" /\ text[(size + 1) + 2].t = "nl"
      /\ Len(text) = (size + 1) + 2
  <2>1. /\ 1 \in 1 .. size + 3 /\ size + 2 \in 1 .. size + 3 /\ size + 3 \in 1 .. size + 3
        /\ (size + 1) + 1 = size + 2 /\ (size + 1) + 2 = size + 3
    OBVIOUS
  <2> QED
    BY <1>3, <1>4, <2>1
<1>10. Laid(text, q, r, n, b)
  BY <1>1, <1>7, <1>8, <1>9 DEF Laid
<1> QED
  BY <1>4, <1>10

-----------------------------------------------------------------------------
(* What a case of the switch does                                           *)

\* A return: what the loop has stored stays.
Stops(m, next, ok, left) ==
  /\ next.done /\ (next.ok <=> ok) /\ next.left = left /\ ~next.dies
  /\ next.ss = m.ss /\ next.rd = m.rd

\* A return keeps what the loop stored.
LEMMA ReturnStops ==
  ASSUME NEW buf, NEW d, NEW m, Working(buf, d, m), NEW ok \in BOOLEAN, NEW left \in Int
  PROVE  Stops(m, ReturnLeft(m, ok, left), ok, left) /\ Stops(m, Return(m, ok), ok, 0)
<1>1. m \in Loops /\ m.left = 0 /\ ~m.dies
  BY DEF Working, Running
<1> QED
  BY <1>1 DEF Stops, Return, ReturnLeft, Loops

\* A text is found where it stands in front.
LEMMA FindFirst ==
  ASSUME NEW buf \in Seq(Units), NEW text, NEW cur \in Nat \ {0}, NEW n \in Int,
         n = Len(buf) - Len(text) + 1, cur <= n
  PROVE  Find(buf, text, cur) = cur <=> At(buf, text, cur)
<1>1. LET place == Find(buf, text, cur)
      IN  \/ place = NotFound /\ \A i \in cur .. n : ~At(buf, text, i)
          \/ /\ place \in cur .. n /\ At(buf, text, place)
             /\ \A i \in cur .. place - 1 : ~At(buf, text, i)
  BY FindIs
<1>2. PICK place : place = Find(buf, text, cur)
  OBVIOUS
<1>3. cur \in cur .. n /\ NotFound # cur
  BY DEF NotFound
<1>4. place \in cur .. n /\ place # cur => cur \in cur .. place - 1
  OBVIOUS
<1> QED
  BY <1>1, <1>2, <1>3, <1>4

\* A case that only goes forward.
Goes(m, next, cur, state) ==
  /\ ~next.done /\ next.cur = cur /\ next.ss.state = state /\ next.ss.boundary = m.ss.boundary
  /\ next.rd = m.rd

\* INITIALIZATION: the first line is the delimiter, or the whole body is the last one.
LEMMA InitializationIs ==
  ASSUME NEW buf \in Seq(Units), NEW d, NEW m, Working(buf, d, m), m.ss.state = "INITIALIZATION",
         NEW next, next = Initialization(buf, d, m)
  PROVE  /\ m.cur = 1
         /\ \/ ~m.ss.boundary /\ Stops(m, next, FALSE, 0)
            \/ Len(buf) < 3 /\ Stops(m, next, ~Complete(d), Len(buf))
            \/ /\ Len(buf) >= 3 /\ buf[1].t = "bnd" /\ buf[2].t = "fin" /\ buf[3].t = "nl"
               /\ Stops(m, next, d.full = 3 /\ Complete(d), 0)
            \/ Len(buf) >= 3 /\ buf[1].t # "bnd" /\ Stops(m, next, FALSE, 0)
            \/ /\ Len(buf) >= 3 /\ ~(buf[1].t = "bnd" /\ buf[2].t = "fin" /\ buf[3].t = "nl")
               /\ Goes(m, next, 3, "GET_DATA_BLOCK_TYPE")
<1>1. m \in Loops /\ m.ss \in MultipartStates /\ ~m.done /\ m.cur = 1
  BY DEF Working, Running, Loops
<1>2. PICK len \in Nat : len = Len(buf)
  BY LenProperties
<1>3. Len(FirstEnd) = 3 /\ DOMAIN FirstEnd = 1 .. 3 /\ FirstEnd[1] = "bnd" /\ FirstEnd[2] = "fin" /\ FirstEnd[3] = "nl"
  BY DEF FirstEnd
<1>4. Len(<<"bnd">>) = 1 /\ DOMAIN <<"bnd">> = 1 .. 1 /\ <<"bnd">>[1] = "bnd"
  OBVIOUS
<1>5. /\ At(buf, FirstEnd, 1) <=> buf[1].t = "bnd" /\ buf[2].t = "fin" /\ buf[3].t = "nl"
  <2>1. At(buf, FirstEnd, 1) <=> \A k \in {1, 2, 3} : buf[k].t = FirstEnd[k]
    <3>1. \A k \in 1 .. 3 : 1 + k - 1 = k
      OBVIOUS
    <3>2. 1 .. 3 = {1, 2, 3}
      OBVIOUS
    <3> QED
      BY <1>3, <3>1, <3>2 DEF At
  <2> QED
    BY <1>3, <2>1
<1>6. At(buf, <<"bnd">>, 1) <=> buf[1].t = "bnd"
  <2>1. At(buf, <<"bnd">>, 1) <=> \A k \in {1} : buf[1 + k - 1].t = <<"bnd">>[k]
    <3>1. 1 .. 1 = {1}
      OBVIOUS
    <3> QED
      BY <1>4, <3>1 DEF At
  <2>2. 1 + 1 - 1 = 1
    OBVIOUS
  <2> QED
    BY <1>4, <2>1, <2>2
<1>7. len >= 3 => (Find(buf, FirstEnd, 1) = 1 <=> At(buf, FirstEnd, 1))
  <2> HAVE len >= 3
  <2>1. PICK n \in Int : n = len - 2 /\ 1 <= n
    OBVIOUS
  <2>2. n = Len(buf) - Len(FirstEnd) + 1 /\ 1 \in Nat \ {0}
    BY <1>2, <1>3, <2>1
  <2> QED
    BY <2>1, <2>2, FindFirst
<1>8. len >= 3 => (Find(buf, <<"bnd">>, 1) = 1 <=> At(buf, <<"bnd">>, 1))
  <2> HAVE len >= 3
  <2>1. len \in Int /\ len = Len(buf) - Len(<<"bnd">>) + 1 /\ 1 \in Nat \ {0} /\ 1 <= len
    BY <1>2, <1>4
  <2> QED
    BY <2>1, FindFirst
<1> DEFINE gone == [m EXCEPT !.cur = 3, !.ss.state = "GET_DATA_BLOCK_TYPE"]
<1>9. next = IF ~m.ss.boundary THEN Return(m, FALSE)
             ELSE IF Len(buf) < Len(FirstEnd) THEN ReturnLeft(m, ~Complete(d), Len(buf))
             ELSE IF Find(buf, FirstEnd, 1) = 1 THEN Return(m, d.full = Len(FirstEnd) /\ Complete(d))
             ELSE IF Find(buf, <<"bnd">>, 1) # 1 THEN Return(m, FALSE)
             ELSE gone
  BY Zenon DEF Initialization
<1>10. Goes(m, gone, 3, "GET_DATA_BLOCK_TYPE")
  BY <1>1 DEF Goes, Loops, MultipartStates
<1>11. /\ Stops(m, Return(m, FALSE), FALSE, 0)
       /\ Stops(m, ReturnLeft(m, ~Complete(d), Len(buf)), ~Complete(d), Len(buf))
       /\ Stops(m, Return(m, d.full = Len(FirstEnd) /\ Complete(d)), d.full = Len(FirstEnd) /\ Complete(d), 0)
  <2>1. FALSE \in BOOLEAN /\ (~Complete(d)) \in BOOLEAN /\ 0 \in Int /\ Len(buf) \in Int
        /\ (d.full = Len(FirstEnd) /\ Complete(d)) \in BOOLEAN
    BY <1>2 DEF Complete
  <2> HIDE DEF gone
  <2> QED
    BY <2>1, ReturnStops
<1> HIDE DEF gone
<1>12. CASE ~m.ss.boundary
  BY <1>1, <1>9, <1>11, <1>12
<1>13. CASE m.ss.boundary /\ len < 3
  BY <1>1, <1>2, <1>3, <1>9, <1>11, <1>13
<1>14. CASE m.ss.boundary /\ len >= 3 /\ At(buf, FirstEnd, 1)
  BY <1>1, <1>2, <1>3, <1>5, <1>7, <1>9, <1>11, <1>14
<1>15. CASE m.ss.boundary /\ len >= 3 /\ ~At(buf, FirstEnd, 1) /\ ~At(buf, <<"bnd">>, 1)
  BY <1>1, <1>2, <1>3, <1>6, <1>7, <1>8, <1>9, <1>11, <1>15
<1>16. CASE m.ss.boundary /\ len >= 3 /\ ~At(buf, FirstEnd, 1) /\ At(buf, <<"bnd">>, 1)
  <2>1. next = gone
    <3>1. Find(buf, <<"bnd">>, 1) = 1
      BY <1>8, <1>16, Zenon
    <3>2. Find(buf, FirstEnd, 1) # 1 /\ ~(Len(buf) < Len(FirstEnd)) /\ m.ss.boundary
      BY <1>2, <1>3, <1>7, <1>16
    <3> QED
      BY <1>9, <3>1, <3>2, Zenon
  <2>2. Goes(m, next, 3, "GET_DATA_BLOCK_TYPE")
    BY <1>10, <2>1
  <2> QED
    BY <1>1, <1>2, <1>5, <1>16, <2>2
<1> QED
  <2>1. len < 3 \/ len >= 3
    OBVIOUS
  <2> QED
    BY <2>1, <1>12, <1>13, <1>14, <1>15, <1>16, Zenon

\* FIND_DATA_BLOCK: behind a delimiter comes another part, or the end.
LEMMA FindDataBlockIs ==
  ASSUME NEW buf \in Seq(Units), NEW d, NEW m, Working(buf, d, m), m.ss.state = "FIND_DATA_BLOCK",
         NEW next, next = FindDataBlock(buf, d, m)
  PROVE  LET left == Len(buf) - m.cur + 1
         IN  \/ left < 4 /\ Stops(m, next, ~Complete(d), left)
             \/ /\ left >= 4 /\ buf[m.cur + 2].t = "fin" /\ Stops(m, next, Complete(d), left - 4)
             \/ /\ left >= 4 /\ ~(buf[m.cur + 2].t = "fin" /\ buf[m.cur + 3].t = "nl")
                /\ Goes(m, next, m.cur + 3, "GET_DATA_BLOCK_TYPE")
<1>1. /\ m \in Loops /\ m.ss \in MultipartStates /\ ~m.done
      /\ m.cur \in Nat \ {0} /\ Len(buf) \in Nat /\ DelimiterAt(buf, m.cur)
  BY LenProperties DEF Working, Running, Loops
<1>2. PICK len \in Nat, cur \in Nat \ {0} : len = Len(buf) /\ cur = m.cur
  BY <1>1
<1>3. cur + 1 <= len /\ buf[cur].t = "nl" /\ buf[cur + 1].t = "bnd"
  BY <1>1, <1>2 DEF DelimiterAt
<1>4. Len(DataEnd) = 4 /\ DOMAIN DataEnd = 1 .. 4 /\ DataEnd[1] = "nl" /\ DataEnd[2] = "bnd"
      /\ DataEnd[3] = "fin" /\ DataEnd[4] = "nl" /\ Len(Delimiter) = 2
  BY DEF DataEnd, Delimiter
<1>5. At(buf, DataEnd, cur) <=> buf[cur + 2].t = "fin" /\ buf[cur + 3].t = "nl"
  <2>1. 1 .. 4 = {1, 2, 3, 4}
    OBVIOUS
  <2>2. At(buf, DataEnd, cur) <=> \A k \in {1, 2, 3, 4} : buf[cur + k - 1].t = DataEnd[k]
    BY <1>4, <2>1 DEF At
  <2>3. cur + 1 - 1 = cur /\ cur + 2 - 1 = cur + 1 /\ cur + 3 - 1 = cur + 2 /\ cur + 4 - 1 = cur + 3
    OBVIOUS
  <2> QED
    BY <1>3, <1>4, <2>2, <2>3
<1>6. len - cur + 1 >= 4 => (Find(buf, DataEnd, cur) = cur <=> At(buf, DataEnd, cur))
  <2> HAVE len - cur + 1 >= 4
  <2>1. PICK n \in Int : n = len - 3 /\ cur <= n
    OBVIOUS
  <2>2. n = Len(buf) - Len(DataEnd) + 1
    BY <1>2, <1>4, <2>1
  <2> QED
    BY <2>1, <2>2, FindFirst
<1>7. Find(buf, Delimiter, cur) = cur /\ cur # NotFound
  <2>1. \/ /\ Find(buf, Delimiter, cur) = NotFound
           /\ \A i \in cur .. len - 1 : ~(buf[i].t = "nl" /\ buf[i + 1].t = "bnd")
        \/ /\ Find(buf, Delimiter, cur) \in cur .. len - 1
           /\ \A i \in cur .. Find(buf, Delimiter, cur) - 1 : ~(buf[i].t = "nl" /\ buf[i + 1].t = "bnd")
    BY <1>2, FindDelimiter
  <2>2. PICK place : place = Find(buf, Delimiter, cur)
    OBVIOUS
  <2>3. cur \in cur .. len - 1 /\ NotFound # cur
    BY <1>3 DEF NotFound
  <2>4. place \in cur .. len - 1 /\ place # cur => cur \in cur .. place - 1
    OBVIOUS
  <2> QED
    BY <1>3, <2>1, <2>2, <2>3, <2>4
<1> DEFINE gone == Falls([m EXCEPT !.cur = cur + 3, !.ss.state = "GET_DATA_BLOCK_TYPE"])
<1>8. Goes(m, gone, cur + 3, "GET_DATA_BLOCK_TYPE")
  BY <1>1 DEF Goes, Loops, MultipartStates, Falls
<1>9. next = IF 4 > len - cur + 1 THEN ReturnLeft(m, ~Complete(d), len - cur + 1)
             ELSE IF Find(buf, DataEnd, cur) = cur
                  THEN ReturnLeft(m, Complete(d), (len - cur + 1) - 4)
             ELSE gone
  <2>1. next = IF Len(DataEnd) > len - cur + 1 THEN ReturnLeft(m, ~Complete(d), len - cur + 1)
               ELSE IF Find(buf, DataEnd, cur) = cur
                    THEN ReturnLeft(m, Complete(d), (len - cur + 1) - Len(DataEnd))
               ELSE IF Find(buf, Delimiter, cur) = NotFound THEN ReturnLeft(m, ~Complete(d), len - cur + 1)
               ELSE Falls([m EXCEPT !.cur = Find(buf, Delimiter, cur) + Len(Delimiter) + 1,
                                    !.ss.state = "GET_DATA_BLOCK_TYPE"])
    <3>1. next = IF Len(DataEnd) > Len(buf) - m.cur + 1
                 THEN ReturnLeft(m, ~Complete(d), Len(buf) - m.cur + 1)
                 ELSE IF Find(buf, DataEnd, m.cur) = m.cur
                      THEN ReturnLeft(m, Complete(d), (Len(buf) - m.cur + 1) - Len(DataEnd))
                 ELSE IF Find(buf, Delimiter, m.cur) = NotFound
                      THEN ReturnLeft(m, ~Complete(d), Len(buf) - m.cur + 1)
                 ELSE Falls([m EXCEPT !.cur = Find(buf, Delimiter, m.cur) + Len(Delimiter) + 1,
                                      !.ss.state = "GET_DATA_BLOCK_TYPE"])
      BY Zenon DEF FindDataBlock
    <3> QED
      BY <1>2, <3>1
  <2>2. Find(buf, Delimiter, cur) + Len(Delimiter) + 1 = cur + 3
    BY <1>4, <1>7
  <2> QED
    BY <1>4, <1>7, <2>1, <2>2, Zenon
<1>10. /\ Stops(m, ReturnLeft(m, ~Complete(d), len - cur + 1), ~Complete(d), len - cur + 1)
       /\ Stops(m, ReturnLeft(m, Complete(d), (len - cur + 1) - 4), Complete(d), (len - cur + 1) - 4)
  <2>1. (~Complete(d)) \in BOOLEAN /\ Complete(d) \in BOOLEAN
        /\ len - cur + 1 \in Int /\ (len - cur + 1) - 4 \in Int
    BY DEF Complete
  <2> HIDE DEF gone
  <2> QED
    BY <2>1, ReturnStops
<1> HIDE DEF gone
<1>11. CASE len - cur + 1 < 4
  BY <1>2, <1>9, <1>10, <1>11
<1>12. CASE len - cur + 1 >= 4 /\ At(buf, DataEnd, cur)
  BY <1>2, <1>5, <1>6, <1>9, <1>10, <1>12
<1>13. CASE len - cur + 1 >= 4 /\ ~At(buf, DataEnd, cur)
  BY <1>2, <1>5, <1>6, <1>8, <1>9, <1>13
<1> QED
  BY <1>2, <1>11, <1>12, <1>13

\* A delimiter begins at a place of a buffer.
Delimits(buf, i) == buf[i].t = "nl" /\ buf[i + 1].t = "bnd"

\* Up to an end, what follows of the block was stored, or its file is bad.
Copied(buf, m, next, end) ==
  LET good == m.ss.type = "DATA" \/ (m.ss.good /\ end >= m.cur)
  IN  /\ next.rd = m.rd /\ next.ss.name = m.ss.name /\ next.ss.type = m.ss.type
      /\ (next.ss.good <=> good)
      /\ next.ss.value = IF good THEN m.ss.value \o SubSeq(buf, m.cur, end - 1) ELSE m.ss.value
      /\ m.ss.type = "DATA" => end >= m.cur

BlockCopied(buf, d, m, next) ==
  \/ /\ \A i \in m.cur .. Len(buf) - 1 : ~Delimits(buf, i)
     /\ \/ /\ m.ss.type = "DATA" /\ Len(buf) - 1 < m.cur
           /\ next.done /\ next.dies /\ ~next.ok
        \/ /\ Copied(buf, m, next, Len(buf) - 1) /\ next.ss.state = "COPY_DATA_BLOCK"
           /\ next.done /\ ~next.dies /\ (next.ok <=> ~Complete(d)) /\ next.left = 2
  \/ \E end \in m.cur .. Len(buf) - 1 :
       /\ Delimits(buf, end) /\ \A i \in m.cur .. end - 1 : ~Delimits(buf, i)
       /\ Copied(buf, m, next, end) /\ next.ss.state = "SAVE_DATA_BLOCK"
       /\ ~next.done /\ next.cur = end

\* COPY_DATA_BLOCK: up to the delimiter, or what certainly is in front of one.
LEMMA CopyDataBlockIs ==
  ASSUME NEW buf \in Seq(Units), NEW d, NEW m, Working(buf, d, m), m.ss.state = "COPY_DATA_BLOCK",
         NEW next, next = CopyDataBlock(buf, d, m)
  PROVE  BlockCopied(buf, d, m, next)
<1>1. /\ m \in Loops /\ m.ss \in MultipartStates /\ m.rd \in Data /\ ~m.falls /\ ~m.done /\ ~m.dies
      /\ m.cur \in Nat \ {0} /\ Len(buf) \in Nat
  BY LenProperties DEF Working, Running, Loops
<1>2a. PICK place : place = Find(buf, Delimiter, m.cur)
  OBVIOUS
<1>2. PICK len \in Nat, cur \in Nat \ {0} :
            len = Len(buf) /\ cur = m.cur /\ place = Find(buf, Delimiter, cur)
  BY <1>1, <1>2a
<1>3. \/ place = NotFound /\ \A i \in cur .. len - 1 : ~Delimits(buf, i)
      \/ /\ place \in cur .. len - 1 /\ Delimits(buf, place)
         /\ \A i \in cur .. place - 1 : ~Delimits(buf, i)
  BY <1>2, FindDelimiter DEF Delimits
<1> DEFINE last      == IF Find(buf, Delimiter, m.cur) = NotFound THEN Len(buf) - Len(Delimiter) + 1
                        ELSE Find(buf, Delimiter, m.cur)
           good(e)   == m.ss.type = "DATA" \/ (m.ss.good /\ e >= m.cur)
           copied(e) == [m EXCEPT !.cur = e, !.ss.good = good(e),
                                  !.ss.value = IF good(e) THEN @ \o SubSeq(buf, m.cur, e - 1) ELSE @]
<1>4a. CopyDataBlock(buf, d, m) =
         IF m.ss.type = "DATA" /\ last < m.cur THEN Dies(m)
         ELSE IF Find(buf, Delimiter, m.cur) = NotFound
              THEN ReturnLeft(copied(last), ~Complete(d), Len(Delimiter))
         ELSE Falls([copied(last) EXCEPT !.ss.state = "SAVE_DATA_BLOCK"])
  BY Zenon DEF CopyDataBlock
<1> HIDE DEF copied, good
<1>4. PICK end : end = last /\ end = IF place = NotFound THEN len - 1 ELSE place
  <2>1. Len(Delimiter) = 2 /\ len - Len(Delimiter) + 1 = len - 1
    BY DEF Delimiter
  <2> QED
    BY <1>2, <2>1
<1> HIDE DEF last
<1>5. next = IF m.ss.type = "DATA" /\ end < m.cur THEN Dies(m)
             ELSE IF place = NotFound THEN ReturnLeft(copied(end), ~Complete(d), 2)
             ELSE Falls([copied(end) EXCEPT !.ss.state = "SAVE_DATA_BLOCK"])
  <2>1. Len(Delimiter) = 2
    BY DEF Delimiter
  <2> QED
    BY <1>2, <1>4, <1>4a, <2>1, Zenon
<1>6. end \in Int
  BY <1>3, <1>4
<1>7. PICK c : c = copied(end)
  OBVIOUS
<1>7a. /\ c.rd = m.rd /\ c.ss.name = m.ss.name /\ c.ss.type = m.ss.type
      /\ (c.ss.good <=> good(end)) /\ c.cur = end
      /\ c.ss.state = m.ss.state /\ DOMAIN c = DOMAIN m /\ DOMAIN c.ss = DOMAIN m.ss
      /\ c.ss.value = (IF good(end) THEN m.ss.value \o SubSeq(buf, m.cur, end - 1) ELSE m.ss.value)
      /\ ~c.done /\ ~c.dies
  BY <1>1, <1>7 DEF Loops, MultipartStates, copied
<1>8. {"cur", "ss", "rd", "done", "ok", "dies", "left", "falls"} = DOMAIN m
      /\ {"name", "type", "good", "value", "state"} \subseteq DOMAIN m.ss
  BY <1>1 DEF Loops, MultipartStates
<1>9. CASE m.ss.type = "DATA" /\ end < m.cur
  <2>1. next = Dies(m)
    BY <1>5, <1>9, Zenon
  <2>2. next.done /\ next.dies /\ ~next.ok
    BY <1>1, <2>1 DEF Dies, Loops
  <2>3. place = NotFound /\ end = len - 1
    BY <1>2, <1>3, <1>4, <1>9
  <2> QED
    BY <1>2, <1>3, <1>9, <2>2, <2>3 DEF NotFound, BlockCopied
<1>10. CASE ~(m.ss.type = "DATA" /\ end < m.cur) /\ place = NotFound
  <2>1. next = ReturnLeft(c, ~Complete(d), 2)
    BY <1>5, <1>7, <1>10, Zenon
  <2>2. /\ next.ss = c.ss /\ next.rd = c.rd /\ next.done /\ (next.dies <=> c.dies)
        /\ (next.ok <=> ~Complete(d)) /\ next.left = 2
    BY <1>7, <1>7a, <1>8, <2>1 DEF ReturnLeft
  <2>3. Copied(buf, m, next, end)
    <3>1. m.ss.type = "DATA" => end >= m.cur
      BY <1>1, <1>2, <1>6, <1>10
    <3>2. /\ next.rd = m.rd /\ next.ss.name = m.ss.name /\ next.ss.type = m.ss.type
          /\ (next.ss.good <=> good(end))
          /\ next.ss.value = IF good(end) THEN m.ss.value \o SubSeq(buf, m.cur, end - 1) ELSE m.ss.value
      BY <1>7a, <2>2, Zenon
    <3> QED
      BY <3>1, <3>2, Zenon DEF Copied, good
  <2>4. end = len - 1
    BY <1>4, <1>10
  <2> QED
    BY <1>2, <1>3, <1>7a, <1>10, <2>2, <2>3, <2>4 DEF NotFound, BlockCopied
<1>11. CASE ~(m.ss.type = "DATA" /\ end < m.cur) /\ place # NotFound
  <2>1. next = Falls([c EXCEPT !.ss.state = "SAVE_DATA_BLOCK"])
    BY <1>5, <1>7, <1>11, Zenon
  <2>2. /\ next.ss = [c.ss EXCEPT !.state = "SAVE_DATA_BLOCK"] /\ next.rd = c.rd
        /\ (next.done <=> c.done) /\ next.cur = c.cur
    BY <1>7, <1>7a, <1>8, <2>1 DEF Falls
  <2>3. /\ next.ss.name = c.ss.name /\ next.ss.type = c.ss.type
        /\ next.ss.good = c.ss.good /\ next.ss.value = c.ss.value
        /\ next.ss.state = "SAVE_DATA_BLOCK"
    BY <1>7a, <1>8, <2>2
  <2>4. Copied(buf, m, next, end)
    <3>1. m.ss.type = "DATA" => end >= m.cur
      BY <1>1, <1>2, <1>6, <1>11
    <3>2. /\ next.rd = m.rd /\ next.ss.name = m.ss.name /\ next.ss.type = m.ss.type
          /\ (next.ss.good <=> good(end))
          /\ next.ss.value = IF good(end) THEN m.ss.value \o SubSeq(buf, m.cur, end - 1) ELSE m.ss.value
      BY <1>7a, <2>2, <2>3, Zenon
    <3> QED
      BY <3>1, <3>2, Zenon DEF Copied, good
  <2>5. end = place /\ end \in cur .. len - 1 /\ Delimits(buf, end)
        /\ \A i \in cur .. end - 1 : ~Delimits(buf, i)
    BY <1>3, <1>4, <1>11
  <2> QED
    BY <1>2, <1>7a, <2>2, <2>3, <2>4, <2>5 DEF BlockCopied
<1> QED
  BY <1>9, <1>10, <1>11

\* SAVE_DATA_BLOCK: the block becomes a field or a file of the request.
LEMMA SaveDataBlockIs ==
  ASSUME NEW buf, NEW rc, NEW m, Working(buf, rc, m), NEW next, next = SaveDataBlock(m)
  PROVE  /\ ~next.done /\ next.cur = m.cur /\ next.ss.state = "FIND_DATA_BLOCK"
         /\ next.rd.fields = IF m.ss.type = "DATA" THEN Append(m.rd.fields, Field(m.ss.name, m.ss.value))
                             ELSE m.rd.fields
         /\ next.rd.files = IF m.ss.type = "FILE"
                            THEN Append(m.rd.files, FileIncoming(m.ss.name, m.ss.value, m.ss.tmp, m.ss.good))
                            ELSE m.rd.files
<1>1. /\ m \in Loops /\ m.ss \in MultipartStates /\ m.rd \in Data /\ ~m.done
  BY DEF Working, Running, Loops
<1>2. {"cur", "ss", "rd", "done"} \subseteq DOMAIN m
      /\ {"state", "value", "type", "name"} \subseteq DOMAIN m.ss
      /\ {"fields", "files"} \subseteq DOMAIN m.rd
  BY <1>1 DEF Loops, MultipartStates, Data
<1>3. PICK fields, files :
        /\ fields = IF m.ss.type = "DATA" THEN Append(m.rd.fields, Field(m.ss.name, m.ss.value))
                    ELSE m.rd.fields
        /\ files = IF m.ss.type = "FILE"
                   THEN Append(m.rd.files, FileIncoming(m.ss.name, m.ss.value, m.ss.tmp, m.ss.good))
                   ELSE m.rd.files
  OBVIOUS
<1>4. next = [m EXCEPT !.ss.state = "FIND_DATA_BLOCK", !.ss.value = <<>>,
                       !.rd.fields = fields, !.rd.files = files]
  BY <1>3, Zenon DEF SaveDataBlock
<1>5. PICK s, d : s = m.ss /\ d = m.rd
  OBVIOUS
<1>6. PICK s2, d2 : /\ s2 = [s EXCEPT !.state = "FIND_DATA_BLOCK", !.value = <<>>]
                    /\ d2 = [d EXCEPT !.fields = fields, !.files = files]
  OBVIOUS
<1>7. next = [m EXCEPT !.ss = s2, !.rd = d2]
  BY <1>2, <1>4, <1>5, <1>6
<1>8. next.rd = d2 /\ next.ss = s2 /\ next.cur = m.cur /\ next.done = m.done
  BY <1>2, <1>7
<1>9. d2.fields = fields /\ d2.files = files /\ s2.state = "FIND_DATA_BLOCK"
  BY <1>2, <1>5, <1>6
<1> QED
  BY <1>1, <1>3, <1>8, <1>9

\* The header of a part was found: its block begins behind the empty line.
TypeFound(buf, d, m, end, header, next) ==
  \/ end = NotFound /\ Stops(m, next, ~Complete(d), Len(buf) - m.cur + 1)
  \/ end # NotFound /\ header.t # "part" /\ Stops(m, next, FALSE, 0)
  \/ /\ end # NotFound /\ header.t # "anon"
     /\ ~next.done /\ next.cur = end + 2 /\ next.ss.state = "COPY_DATA_BLOCK"
     /\ next.ss.name = <<header>> /\ next.ss.value = <<>>
     /\ next.ss.type = (IF header.t = "part" THEN "DATA" ELSE "FILE")
     /\ next.rd.fields = m.rd.fields /\ next.rd.files = m.rd.files /\ next.falls

\* GET_DATA_BLOCK_TYPE: the header of a part, by its kind.
LEMMA GetDataBlockTypeIs ==
  ASSUME NEW buf \in Seq(Units), NEW rc, NEW m, Working(buf, rc, m), NEW canOpen,
         NEW end, end = Find(buf, EmptyLine, m.cur), NEW header, header = PartHeader(buf, m.cur, end),
         NEW next, next = GetDataBlockType(buf, rc, m, canOpen)
  PROVE  TypeFound(buf, rc, m, end, header, next)
<1>1. /\ m \in Loops /\ m.ss \in MultipartStates /\ m.rd \in Data /\ ~m.done
      /\ m.cur \in Nat \ {0} /\ Len(buf) \in Nat
  BY LenProperties DEF Working, Running, Loops
<1> DEFINE found(e, h) == [m EXCEPT !.cur = e + 2, !.ss.state = "COPY_DATA_BLOCK", !.ss.name = <<h>>,
                                    !.ss.value = <<>>]
           place == Find(buf, EmptyLine, m.cur)
           first == PartHeader(buf, m.cur, Find(buf, EmptyLine, m.cur))
<1>2a. GetDataBlockType(buf, rc, m, canOpen) =
        IF place = NotFound THEN ReturnLeft(m, ~Complete(rc), Len(buf) - m.cur + 1)
        ELSE IF first.t = "anon" THEN Return(m, FALSE)
        ELSE IF first.t = "part" THEN Falls([found(place, first) EXCEPT !.ss.type = "DATA"])
        ELSE IF ~canOpen THEN Return(m, FALSE)
        ELSE Falls([found(place, first) EXCEPT !.ss.type = "FILE", !.ss.good = TRUE,
                                               !.ss.tmp = m.rd.made + 1, !.rd.made = @ + 1])
  BY Zenon DEF GetDataBlockType
<1>2b. PICK found_ : found_ = found(end, header)
  OBVIOUS
<1>2c. end = place /\ header = first
  OBVIOUS
<1>2d. found_ = [m EXCEPT !.cur = end + 2, !.ss.state = "COPY_DATA_BLOCK", !.ss.name = <<header>>,
                         !.ss.value = <<>>]
  BY <1>2b
<1> HIDE DEF found, place, first
<1>2. next = IF end = NotFound THEN ReturnLeft(m, ~Complete(rc), Len(buf) - m.cur + 1)
        ELSE IF header.t = "anon" THEN Return(m, FALSE)
        ELSE IF header.t = "part" THEN Falls([found_ EXCEPT !.ss.type = "DATA"])
        ELSE IF ~canOpen THEN Return(m, FALSE)
        ELSE Falls([found_ EXCEPT !.ss.type = "FILE", !.ss.good = TRUE,
                                 !.ss.tmp = m.rd.made + 1, !.rd.made = @ + 1])
  <2>1. next = GetDataBlockType(buf, rc, m, canOpen)
    OBVIOUS
  <2>2. found_ = found(place, first)
    BY <1>2b, <1>2c
  <2> QED
    BY <1>2a, <1>2c, <2>1, <2>2, Zenon
<1>3. /\ {"cur", "ss", "rd", "done", "falls"} \subseteq DOMAIN m
      /\ {"state", "value", "type", "name", "good", "tmp"} \subseteq DOMAIN m.ss
      /\ {"fields", "files", "made"} \subseteq DOMAIN m.rd
  BY <1>1 DEF Loops, MultipartStates, Data
<1>4. /\ DOMAIN found_ = DOMAIN m /\ DOMAIN found_.ss = DOMAIN m.ss /\ found_.rd = m.rd
      /\ found_.cur = end + 2 /\ found_.ss.state = "COPY_DATA_BLOCK" /\ found_.ss.name = <<header>>
      /\ found_.ss.value = <<>> /\ ~found_.done
  BY <1>1, <1>2d, <1>3
<1>5. /\ Stops(m, ReturnLeft(m, ~Complete(rc), Len(buf) - m.cur + 1), ~Complete(rc), Len(buf) - m.cur + 1)
      /\ Stops(m, Return(m, FALSE), FALSE, 0)
  <2>1. (~Complete(rc)) \in BOOLEAN /\ FALSE \in BOOLEAN /\ Len(buf) - m.cur + 1 \in Int /\ 0 \in Int
    BY <1>1 DEF Complete
  <2> QED
    BY <2>1, ReturnStops
<1>6. CASE end = NotFound
  BY <1>2, <1>5, <1>6 DEF TypeFound
<1>7. CASE end # NotFound /\ (header.t = "anon" \/ (header.t # "part" /\ ~canOpen))
  <2>1. next = Return(m, FALSE) /\ header.t # "part"
    BY <1>2, <1>7
  <2> QED
    BY <1>5, <1>7, <2>1 DEF TypeFound
<1>8. CASE end # NotFound /\ header.t = "part"
  <2>1. next = Falls([found_ EXCEPT !.ss.type = "DATA"])
    BY <1>2, <1>8
  <2>2. next.ss = [found_.ss EXCEPT !.type = "DATA"] /\ next.rd = found_.rd /\ next.cur = found_.cur
        /\ next.done = found_.done /\ next.falls
    BY <1>3, <1>4, <2>1 DEF Falls
  <2>3. /\ next.ss.type = "DATA" /\ next.ss.state = found_.ss.state /\ next.ss.name = found_.ss.name
        /\ next.ss.value = found_.ss.value
    BY <1>3, <1>4, <2>2
  <2> QED
    BY <1>4, <1>8, <2>2, <2>3 DEF TypeFound
<1>9. CASE end # NotFound /\ header.t # "anon" /\ header.t # "part" /\ canOpen
  <2>1. next = Falls([found_ EXCEPT !.ss.type = "FILE", !.ss.good = TRUE,
                                   !.ss.tmp = m.rd.made + 1, !.rd.made = @ + 1])
    BY <1>2, <1>9
  <2>2. PICK f, s, d, n : f = found_ /\ s = found_.ss /\ d = m.rd /\ n = m.rd.made + 1
    OBVIOUS
  <2>3. f.ss = s /\ f.rd = d /\ {"cur", "ss", "rd", "done", "falls"} \subseteq DOMAIN f
        /\ {"state", "value", "type", "name", "good", "tmp"} \subseteq DOMAIN s
        /\ {"fields", "files", "made"} \subseteq DOMAIN d
    BY <1>3, <1>4, <2>2
  <2>4. next = Falls([f EXCEPT !.ss = [s EXCEPT !.type = "FILE", !.good = TRUE, !.tmp = n],
                               !.rd = [d EXCEPT !.made = @ + 1]])
    <3>1. [f EXCEPT !.ss.type = "FILE", !.ss.good = TRUE, !.ss.tmp = n, !.rd.made = @ + 1]
            = [f EXCEPT !.ss = [s EXCEPT !.type = "FILE", !.good = TRUE, !.tmp = n],
                        !.rd = [d EXCEPT !.made = @ + 1]]
      BY <2>3
    <3>2. next = Falls([f EXCEPT !.ss.type = "FILE", !.ss.good = TRUE, !.ss.tmp = n, !.rd.made = @ + 1])
      BY <2>1, <2>2
    <3> QED
      BY <3>1, <3>2
  <2>5. PICK s2, d2 : /\ s2 = [s EXCEPT !.type = "FILE", !.good = TRUE, !.tmp = n]
                      /\ d2 = [d EXCEPT !.made = @ + 1]
    OBVIOUS
  <2>6. next.ss = s2 /\ next.rd = d2 /\ next.cur = f.cur /\ next.done = f.done /\ next.falls
    BY <2>3, <2>4, <2>5 DEF Falls
  <2>7. /\ s2.type = "FILE" /\ s2.state = s.state /\ s2.name = s.name /\ s2.value = s.value
        /\ d2.fields = d.fields /\ d2.files = d.files
    BY <2>3, <2>5
  <2> QED
    BY <1>4, <1>9, <2>2, <2>6, <2>7 DEF TypeFound
<1>10. end = NotFound \/ (end # NotFound /\ (header.t = "anon" \/ (header.t # "part" /\ ~canOpen)))
         \/ (end # NotFound /\ header.t = "part")
         \/ (end # NotFound /\ header.t # "anon" /\ header.t # "part" /\ canOpen)
  OBVIOUS
<1> QED
  BY <1>6, <1>7, <1>8, <1>9, <1>10, Zenon

-----------------------------------------------------------------------------
(* The parts that have arrived                                              *)

\* One item more is one more of its kind.
LEMMA NthNext ==
  ASSUME NEW q, NEW kind, NEW i \in Nat
  PROVE  /\ Nth(q, kind, 0) = 0 /\ Nth(q, kind, i) \in Nat
         /\ Nth(q, kind, i + 1) = Nth(q, kind, i) + (IF q.items[i + 1].kind = kind THEN 1 ELSE 0)
<1> DEFINE Those(l) == { j \in 1 .. l : q.items[j].kind = kind }
<1>1. IsFiniteSet(Those(i))
  <2>1. IsFiniteSet(1 .. i)
    BY FS_Interval
  <2> QED
    BY <2>1, FS_Subset
<1>2. Those(0) = {}
  OBVIOUS
<1>3. \A l : Nth(q, kind, l) = Cardinality(Those(l))
  BY DEF Nth
<1>4. Nth(q, kind, 0) = 0
  BY <1>2, <1>3, FS_EmptySet
<1>5. /\ Nth(q, kind, i) \in Nat
      /\ Nth(q, kind, i + 1) = Nth(q, kind, i) + (IF q.items[i + 1].kind = kind THEN 1 ELSE 0)
  <2>1. Cardinality(Those(i)) \in Nat
    BY <1>1, FS_CardinalityType
  <2>2. CASE q.items[i + 1].kind = kind
    <3>1. Those(i + 1) = Those(i) \union {i + 1} /\ i + 1 \notin Those(i)
      BY <2>2
    <3> HIDE DEF Those
    <3>2. Cardinality(Those(i) \union {i + 1}) = Cardinality(Those(i)) + 1
      BY <1>1, <3>1, FS_AddElement
    <3> QED
      BY <1>3, <2>1, <2>2, <3>1, <3>2
  <2>3. CASE q.items[i + 1].kind # kind
    <3>1. Those(i + 1) = Those(i)
      <4>1. \A j \in 1 .. i + 1 : j \in 1 .. i \/ j = i + 1
        OBVIOUS
      <4>2. 1 .. i \subseteq 1 .. i + 1
        OBVIOUS
      <4> QED
        BY <2>3, <4>1, <4>2
    <3> HIDE DEF Those
    <3> QED
      BY <1>3, <2>1, <2>3, <3>1
  <2> QED
    BY <2>2, <2>3
<1> QED
  BY <1>4, <1>5

\* An item is counted among the fields or among the files.
LEMMA NthKinds ==
  ASSUME NEW q, NEW k \in Nat
  PROVE  /\ Nth(q, "part", k) \in Nat /\ Nth(q, "file", k) \in Nat
         /\ q.items[k + 1].kind = "part" => /\ Nth(q, "part", k + 1) = Nth(q, "part", k) + 1
                                            /\ Nth(q, "file", k + 1) = Nth(q, "file", k)
         /\ q.items[k + 1].kind = "file" => /\ Nth(q, "file", k + 1) = Nth(q, "file", k) + 1
                                            /\ Nth(q, "part", k + 1) = Nth(q, "part", k)
<1>1. PICK it : it = q.items[k + 1].kind
  OBVIOUS
<1>2. ASSUME NEW kind
      PROVE  /\ Nth(q, kind, k) \in Nat
             /\ Nth(q, kind, k + 1) = Nth(q, kind, k) + (IF it = kind THEN 1 ELSE 0)
  BY <1>1, NthNext
<1> QED
  BY <1>1, <1>2

\* The parts up to one are no more than those up to a later one.
LEMMA NthGrows ==
  ASSUME NEW q, NEW kind, NEW i \in Nat, NEW k \in Nat, i <= k
  PROVE  /\ Nth(q, kind, i) \in Nat /\ Nth(q, kind, k) \in Nat /\ Nth(q, kind, i) <= Nth(q, kind, k)
         /\ i >= 1 /\ q.items[i].kind = kind => Nth(q, kind, i) >= 1
<1>1. \A l \in Nat : /\ Nth(q, kind, l) \in Nat
                     /\ Nth(q, kind, l + 1) = Nth(q, kind, l) + (IF q.items[l + 1].kind = kind THEN 1 ELSE 0)
  <2> TAKE l \in Nat
  <2> QED
    BY NthNext
<1> DEFINE T == { l \in Nat : i <= l => Nth(q, kind, i) <= Nth(q, kind, l) }
<1>2. T = Nat
  <2>1. T \in SUBSET Nat
    OBVIOUS
  <2>2. 0 \in T
    BY <1>1
  <2>3. ASSUME NEW l \in T PROVE l + 1 \in T
    <3>1. l \in Nat /\ l + 1 \in Nat /\ (i <= l + 1 => i <= l \/ i = l + 1)
      OBVIOUS
    <3>2. PICK x \in Nat, y \in Nat, z \in Nat :
            x = Nth(q, kind, i) /\ y = Nth(q, kind, l) /\ z = Nth(q, kind, l + 1)
      BY <1>1, <3>1
    <3>3. z \in {y, y + 1}
      BY <1>1, <3>1, <3>2
    <3>4. i <= l => x <= y
      BY <3>2
    <3>5. i <= l + 1 => x <= z
      <4>1. i = l + 1 => x = z
        BY <3>2
      <4> QED
        BY <3>1, <3>3, <3>4, <4>1
    <3> QED
      BY <3>1, <3>2, <3>5
  <2> HIDE DEF T
  <2> QED
    BY <2>1, <2>2, <2>3, NatSetInduction
<1>3. Nth(q, kind, i) <= Nth(q, kind, k)
  <2>1. k \in T
    BY <1>2
  <2> QED
    BY <2>1
<1>4. i >= 1 /\ q.items[i].kind = kind => Nth(q, kind, i) >= 1
  <2> HAVE i >= 1 /\ q.items[i].kind = kind
  <2>1. PICK l \in Nat : l + 1 = i
    BY i - 1 \in Nat, (i - 1) + 1 = i
  <2>2. Nth(q, kind, l) \in Nat /\ Nth(q, kind, l + 1) = Nth(q, kind, l) + 1
    BY <1>1, <2>1
  <2> QED
    BY <2>1, <2>2
<1> QED
  BY <1>1, <1>3, <1>4

\* What Expected says of a part.
LEMMA ExpectedPart ==
  ASSUME NEW q \in Requests, q.variant = "multipart", NEW r, NEW k \in DOMAIN q.items
  PROVE  /\ Expected(q, r)[k].name = Tokens(<<q.items[k].kind>>, r)
         /\ Expected(q, r)[k].value = Tokens(q.items[k].value, r)
         /\ Expected(q, r)[k] = Field(Tokens(<<q.items[k].kind>>, r), Tokens(q.items[k].value, r))
<1>1. Expected(q, r)[k] = Field(Tokens(<<q.items[k].kind>>, r), Tokens(q.items[k].value, r))
  BY DEF Expected
<1>2. PICK x, y : x = Tokens(<<q.items[k].kind>>, r) /\ y = Tokens(q.items[k].value, r)
  OBVIOUS
<1>3. Field(x, y).name = x /\ Field(x, y).value = y
  BY DEF Field
<1> QED
  BY <1>1, <1>2, <1>3

\* The next part is a field.
LEMMA FieldArrives ==
  ASSUME NEW q, NEW r, NEW k \in Nat, NEW S, NEW fields \in Seq(S), NEW files,
         PartsArrived(q, r, k, fields, files), q.items[k + 1].kind = "part",
         NEW x \in S, x = Expected(q, r)[k + 1]
  PROVE  PartsArrived(q, r, k + 1, Append(fields, x), files)
<1>1. /\ Nth(q, "part", k) \in Nat /\ Nth(q, "part", k + 1) = Nth(q, "part", k) + 1
      /\ Nth(q, "file", k + 1) = Nth(q, "file", k)
  BY NthKinds
<1>2. PICK len \in Nat : len = Len(fields) /\ len = Nth(q, "part", k)
  BY <1>1 DEF PartsArrived
<1>3. PICK more : more = Append(fields, x)
  OBVIOUS
<1>4. Len(more) = len + 1 /\ more[len + 1] = x /\ \A i \in 1 .. len : more[i] = fields[i]
  <2>1. /\ Len(Append(fields, x)) = Len(fields) + 1 /\ Append(fields, x)[Len(fields) + 1] = x
        /\ \A i \in 1 .. Len(fields) : Append(fields, x)[i] = fields[i]
    BY AppendProperties
  <2> QED
    BY <1>2, <1>3, <2>1
<1>5. ASSUME NEW i \in 1 .. k, q.items[i].kind = "part", fields[Nth(q, "part", i)] = Expected(q, r)[i]
      PROVE  more[Nth(q, "part", i)] = Expected(q, r)[i]
  <2>1. i \in Nat /\ i >= 1 /\ i <= k
    OBVIOUS
  <2>2. Nth(q, "part", i) \in 1 .. len
    BY <1>2, <1>5, <2>1, NthGrows
  <2> QED
    BY <1>4, <1>5, <2>2
<1>6. ASSUME NEW i \in 1 .. k + 1
      PROVE  \/ q.items[i].kind = "part" /\ more[Nth(q, "part", i)] = Expected(q, r)[i]
             \/ /\ q.items[i].kind = "file" /\ files[Nth(q, "file", i)].name = Expected(q, r)[i].name
                /\ files[Nth(q, "file", i)].good =>
                     files[Nth(q, "file", i)].value = Expected(q, r)[i].value
  <2>1. CASE i = k + 1
    BY <1>1, <1>2, <1>4, <2>1
  <2>2. CASE i # k + 1
    <3>1. i \in 1 .. k
      BY <2>2
    <3> QED
      BY <1>5, <3>1 DEF PartsArrived
  <2> QED
    BY <2>1, <2>2
<1>7. Len(more) = Nth(q, "part", k + 1) /\ Len(files) = Nth(q, "file", k + 1)
  BY <1>1, <1>2, <1>4 DEF PartsArrived
<1> QED
  BY <1>3, <1>6, <1>7 DEF PartsArrived

\* The next part is a file.
LEMMA FileArrives ==
  ASSUME NEW q, NEW r, NEW k \in Nat, NEW fields, NEW S, NEW files \in Seq(S),
         PartsArrived(q, r, k, fields, files), q.items[k + 1].kind = "file",
         NEW x \in S, x.name = Expected(q, r)[k + 1].name,
         x.good => x.value = Expected(q, r)[k + 1].value
  PROVE  PartsArrived(q, r, k + 1, fields, Append(files, x))
<1>1. /\ Nth(q, "file", k) \in Nat /\ Nth(q, "file", k + 1) = Nth(q, "file", k) + 1
      /\ Nth(q, "part", k + 1) = Nth(q, "part", k)
  BY NthKinds
<1>2. PICK len \in Nat : len = Len(files) /\ len = Nth(q, "file", k)
  BY <1>1 DEF PartsArrived
<1>3. PICK more : more = Append(files, x)
  OBVIOUS
<1>4. Len(more) = len + 1 /\ more[len + 1] = x /\ \A i \in 1 .. len : more[i] = files[i]
  <2>1. /\ Len(Append(files, x)) = Len(files) + 1 /\ Append(files, x)[Len(files) + 1] = x
        /\ \A i \in 1 .. Len(files) : Append(files, x)[i] = files[i]
    BY AppendProperties
  <2> QED
    BY <1>2, <1>3, <2>1
<1>5. ASSUME NEW i \in 1 .. k, q.items[i].kind = "file"
      PROVE  more[Nth(q, "file", i)] = files[Nth(q, "file", i)]
  <2>1. i \in Nat /\ i >= 1 /\ i <= k
    OBVIOUS
  <2>2. Nth(q, "file", i) \in 1 .. len
    BY <1>2, <1>5, <2>1, NthGrows
  <2> QED
    BY <1>4, <2>2
<1>6. ASSUME NEW i \in 1 .. k + 1
      PROVE  \/ q.items[i].kind = "part" /\ fields[Nth(q, "part", i)] = Expected(q, r)[i]
             \/ /\ q.items[i].kind = "file" /\ more[Nth(q, "file", i)].name = Expected(q, r)[i].name
                /\ more[Nth(q, "file", i)].good =>
                     more[Nth(q, "file", i)].value = Expected(q, r)[i].value
  <2>1. CASE i = k + 1
    BY <1>1, <1>2, <1>4, <2>1
  <2>2. CASE i # k + 1
    <3>1. i \in 1 .. k
      BY <2>2
    <3> QED
      BY <1>5, <3>1 DEF PartsArrived
  <2> QED
    BY <2>1, <2>2
<1>7. Len(fields) = Nth(q, "part", k + 1) /\ Len(more) = Nth(q, "file", k + 1)
  BY <1>1, <1>2, <1>4 DEF PartsArrived
<1> QED
  BY <1>3, <1>6, <1>7 DEF PartsArrived

\* Nothing has arrived in front of the first part.
LEMMA NoneArrived ==
  ASSUME NEW q, NEW r
  PROVE  PartsArrived(q, r, 0, <<>>, <<>>)
<1>1. Nth(q, "part", 0) = 0 /\ Nth(q, "file", 0) = 0
  BY NthNext, 0 \in Nat
<1>2. Len(<<>>) = 0 /\ 1 .. 0 = {}
  OBVIOUS
<1> QED
  BY <1>1, <1>2 DEF PartsArrived

-----------------------------------------------------------------------------
(* Where the multipart parser stands in a body                              *)

\* A part whose block is being stored: its content up to the place, unless its file is bad.
Within(text, q, r, b, k, p, top, ss, data) ==
  LET start == b[k] + 4
      item  == q.items[k]
  IN  /\ PartsArrived(q, r, k - 1, data.fields, data.files)
      /\ ss.name = Tokens(<<item.kind>>, r)
      /\ start <= top /\ start - 1 <= p /\ p <= b[k + 1] - 1
      /\ \/ item.kind = "part" /\ ss.type = "DATA" /\ Piece(ss.value, text, start, p - 1)
         \/ item.kind = "file" /\ ss.type = "FILE" /\ (ss.good => Piece(ss.value, text, start, p - 1))

\* At the first place that was not looked at: what is stored is what stands before it.
Where(text, q, r, n, b, p, top, ss, data) ==
  /\ ss.state = "INITIALIZATION" => p = 1 /\ ss.boundary = q.boundary /\ data = NoData
  /\ ss.state = "GET_DATA_BLOCK_TYPE" =>
       \E k \in 1 .. n : p = b[k] + 2 /\ PartsArrived(q, r, k - 1, data.fields, data.files)
  /\ ss.state = "COPY_DATA_BLOCK" => \E k \in 1 .. n : Within(text, q, r, b, k, p, top, ss, data)
  /\ ss.state = "SAVE_DATA_BLOCK" =>
       \E k \in 1 .. n : p = b[k + 1] - 1 /\ Within(text, q, r, b, k, p, top, ss, data)
  /\ ss.state = "FIND_DATA_BLOCK" =>
       \E k \in 1 .. n : p = b[k + 1] - 1 /\ PartsArrived(q, r, k, data.fields, data.files)

\* A chunk of a body: what stands behind one place and up to another.
Chunk(text, q, r, n, b, buf, base, top, d) ==
  /\ q \in Requests /\ q.variant = "multipart" /\ r \in Nat /\ n \in Nat
  /\ text = Tokens(BodyText(q), r) /\ text \in Seq(Units) /\ Laid(text, q, r, n, b)
  /\ buf \in Seq(Units) /\ base \in Nat /\ top \in Nat /\ top <= Len(text)
  /\ Piece(buf, text, base, top) /\ d.recv = top /\ d.full = Len(text)

Stored(text, q, r, n, b, base, top, buf, d, m) ==
  /\ ~m.done => /\ Where(text, q, r, n, b, base + m.cur, top, m.ss, m.rd)
                /\ m.ss.state = "COPY_DATA_BLOCK" => Len(buf) >= 2 /\ (m.falls \/ m.cur = 1)
  /\ m.done /\ m.ok /\ ~Complete(d) =>
       /\ m.left \in 0 .. Len(buf) /\ Where(text, q, r, n, b, top - m.left + 1, top, m.ss, m.rd)
       /\ m.ss.state = "COPY_DATA_BLOCK" => m.left = 2
  /\ m.done /\ m.ok /\ Complete(d) => PartsArrived(q, r, n, m.rd.fields, m.rd.files)
  /\ m.done /\ ~m.ok /\ ~m.dies /\ Complete(d) =>
       ~q.boundary \/ \E k \in 1 .. n : q.items[k].kind # "part"

\* What a text has at a part, and behind it.
Placed(text, q, r, n, b, k, at, size) ==
  /\ at = b[k] /\ at >= 1 /\ size = Len(q.items[k].value) /\ b[k + 1] = at + size + 6
  /\ at + size + 8 <= Len(text) /\ q.items[k] \in Items /\ k \in DOMAIN q.items
  /\ text[at + 1].t = "nl" /\ text[at + 2] = [t |-> q.items[k].kind, r |-> r]
  /\ text[at + 3].t = "nl" /\ text[at + 4].t = "nl"
  /\ \A j \in 1 .. size : text[at + 4 + j] = [t |-> q.items[k].value[j], r |-> r]
                          /\ text[at + 4 + j].t # "bnd"
  /\ text[at + size + 5].t = "nl" /\ text[at + size + 6].t = "bnd"
  /\ text[at + size + 7].t = (IF k = n THEN "fin" ELSE "nl")
  /\ k = n => text[at + size + 8].t = "nl" /\ at + size + 8 = Len(text)

\* The header, the content and the delimiter of a part, by their places in the body.
LEMMA PartPlaces ==
  ASSUME NEW text \in Seq(Units), NEW q \in Requests, NEW r, NEW n \in Nat, NEW b, Laid(text, q, r, n, b),
         NEW k \in 1 .. n
  PROVE  \E at \in Nat, size \in Nat : Placed(text, q, r, n, b, k, at, size)
<1>1. /\ n = Len(q.items) /\ b \in [1 .. n + 1 -> Nat]
      /\ \A i \in 1 .. n : PartAt(text, q.items[i], r, b[i], b[i + 1])
      /\ \A i \in 1 .. n + 1 : b[i] >= 1 /\ b[i] <= b[n + 1]
      /\ text[b[n + 1] + 1].t = "fin" /\ text[b[n + 1] + 2].t = "nl" /\ Len(text) = b[n + 1] + 2
  BY DEF Laid
<1>2. k \in DOMAIN q.items /\ q.items[k] \in Items
  <2>1. DOMAIN q.items = 1 .. n
    BY <1>1, LenProperties DEF Requests
  <2> QED
    BY <2>1, ElementOfSeq DEF Requests
<1>3. PICK item \in Items : item = q.items[k]
  BY <1>2
<1>4. PICK size \in Nat : size = Len(item.value)
  BY LenProperties DEF Items, Texts
<1>5. PICK at \in Nat, next \in Nat, last \in Nat :
        /\ at = b[k] /\ next = b[k + 1] /\ last = b[n + 1] /\ at >= 1 /\ next <= last
  <2>1. k \in 1 .. n + 1 /\ k + 1 \in 1 .. n + 1 /\ n + 1 \in 1 .. n + 1
    OBVIOUS
  <2> QED
    BY <1>1, <2>1
<1>6. PartAt(text, item, r, at, next)
  BY <1>1, <1>3, <1>5
<1>7. /\ next = at + size + 6
      /\ text[at + 1].t = "nl" /\ text[at + 2] = [t |-> item.kind, r |-> r]
      /\ text[at + 3].t = "nl" /\ text[at + 4].t = "nl"
      /\ \A j \in 1 .. size : text[at + 4 + j] = [t |-> item.value[j], r |-> r]
                              /\ text[at + 4 + j].t # "bnd"
      /\ text[at + size + 5].t = "nl" /\ text[at + size + 6].t = "bnd"
  BY <1>4, <1>6 DEF PartAt
<1>8. PICK len \in Nat : len = Len(text) /\ len = last + 2
  BY <1>1, <1>5, LenProperties
<1>16. next = at + size + 6
  BY <1>7
<1>17. next <= last /\ len = last + 2
  BY <1>5, <1>8
<1>9. at + size + 8 <= len
  BY <1>16, <1>17
<1>10. k = n => text[at + size + 7].t = "fin" /\ text[at + size + 8].t = "nl" /\ at + size + 8 = len
  <2> HAVE k = n
  <2>1. b[k + 1] = b[n + 1]
    OBVIOUS
  <2>2. next = last
    BY <1>5, <2>1
  <2>3. at + size + 7 = last + 1 /\ at + size + 8 = last + 2
    BY <1>7, <2>2
  <2>4. text[last + 1].t = "fin" /\ text[last + 2].t = "nl"
    BY <1>1, <1>5
  <2> QED
    BY <1>8, <2>3, <2>4
<1>11. k # n => text[at + size + 7].t = "nl"
  <2> HAVE k # n
  <2>1. PICK l \in 1 .. n : l = k + 1
    OBVIOUS
  <2>2. PartAt(text, q.items[l], r, b[l], b[l + 1])
    BY <1>1, <2>1
  <2>3. text[b[l] + 1].t = "nl"
    BY <2>2 DEF PartAt
  <2>4. next + 1 = at + size + 7
    BY <1>7
  <2> QED
    BY <1>5, <2>1, <2>3, <2>4
<1>12. /\ at = b[k] /\ at >= 1 /\ size = Len(q.items[k].value) /\ b[k + 1] = at + size + 6
       /\ at + size + 8 <= Len(text) /\ q.items[k] \in Items /\ k \in DOMAIN q.items
  BY <1>2, <1>3, <1>4, <1>5, <1>7, <1>8, <1>9
<1>13. /\ text[at + 1].t = "nl" /\ text[at + 2] = [t |-> q.items[k].kind, r |-> r]
       /\ text[at + 3].t = "nl" /\ text[at + 4].t = "nl"
       /\ \A j \in 1 .. size : text[at + 4 + j] = [t |-> q.items[k].value[j], r |-> r]
                               /\ text[at + 4 + j].t # "bnd"
       /\ text[at + size + 5].t = "nl" /\ text[at + size + 6].t = "bnd"
  BY <1>3, <1>7, Zenon
<1>14. text[at + size + 7].t = (IF k = n THEN "fin" ELSE "nl")
  BY <1>10, <1>11, Zenon
<1>15. k = n => text[at + size + 8].t = "nl" /\ at + size + 8 = Len(text)
  BY <1>8, <1>10, Zenon
<1>18. Placed(text, q, r, n, b, k, at, size)
  BY <1>12, <1>13, <1>14, <1>15, Zenon DEF Placed
<1> QED
  BY <1>18

\* The only delimiter of a part is its end.
LEMMA PartDelimiter ==
  ASSUME NEW text \in Seq(Units), NEW q, NEW r, NEW n, NEW b, NEW k, NEW at \in Nat, NEW size \in Nat,
         Placed(text, q, r, n, b, k, at, size)
  PROVE  /\ Delimits(text, at + size + 5)
         /\ \A i \in Nat : at + 3 <= i /\ i < at + size + 5 => ~Delimits(text, i)
<1>1. PICK p \in Nat : p = at + size + 5
  OBVIOUS
<1>2. p + 1 = at + size + 6
  BY <1>1
<1>3. /\ text[at + 4].t = "nl" /\ (\A j \in 1 .. size : text[at + 4 + j].t # "bnd")
      /\ text[p].t = "nl" /\ text[p + 1].t = "bnd"
  BY <1>1, <1>2, Zenon DEF Placed
<1>4. Delimits(text, p)
  BY <1>3 DEF Delimits
<1>5. ASSUME NEW i \in Nat, at + 3 <= i, i < p PROVE ~Delimits(text, i)
  <2>1. i = at + 3 \/ i = at + size + 4 \/ (i + 1) - (at + 4) \in 1 .. size
    BY <1>1, <1>5
  <2>2. CASE i = at + 3
    <3>1. i + 1 = at + 4
      BY <2>2
    <3>2. text[i + 1].t = "nl"
      BY <1>3, <3>1, Zenon
    <3> QED
      BY <3>2 DEF Delimits
  <2>3. CASE i = at + size + 4
    <3>1. i + 1 = p
      BY <1>1, <2>3
    <3>2. text[i + 1].t = "nl"
      BY <1>3, <3>1, Zenon
    <3> QED
      BY <3>2 DEF Delimits
  <2>4. CASE (i + 1) - (at + 4) \in 1 .. size
    <3>1. PICK j \in 1 .. size : i + 1 = at + 4 + j
      <4>1. i + 1 = at + 4 + ((i + 1) - (at + 4))
        OBVIOUS
      <4> QED
        BY <2>4, <4>1
    <3>2. text[i + 1].t # "bnd"
      BY <1>3, <3>1
    <3> QED
      BY <3>2 DEF Delimits
  <2> QED
    BY <2>1, <2>2, <2>3, <2>4
<1>6. \A i \in Nat : at + 3 <= i /\ i < p => ~Delimits(text, i)
  BY <1>5
<1> QED
  BY <1>1, <1>4, <1>6

\* A piece of a piece.
LEMMA PieceMiddle ==
  ASSUME NEW S, NEW buf \in Seq(S), NEW stream, NEW from \in Nat, NEW to \in Nat, Piece(buf, stream, from, to),
         NEW i \in Nat \ {0}, NEW j \in Nat, i <= j, j <= Len(buf) + 1
  PROVE  /\ SubSeq(buf, i, j - 1) \in Seq(S)
         /\ Piece(SubSeq(buf, i, j - 1), stream, from + i - 1, from + j - 1)
<1>1. PICK len \in Nat : len = Len(buf) /\ len = to - from
  BY LenProperties DEF Piece
<1>2. i \in 1 .. Len(buf) + 1 /\ j - 1 \in i - 1 .. Len(buf)
  BY <1>1
<1>3. /\ SubSeq(buf, i, j - 1) \in Seq(S)
      /\ Len(SubSeq(buf, i, j - 1)) = IF i <= j - 1 THEN (j - 1) - i + 1 ELSE 0
      /\ \A k \in 1 .. (j - 1) - i + 1 : SubSeq(buf, i, j - 1)[k] = buf[i + k - 1]
  BY <1>2, SubSeqProperties
<1>4. PICK sub \in Seq(S) : sub = SubSeq(buf, i, j - 1)
  BY <1>3
<1>5. Len(sub) = j - i /\ \A k \in 1 .. j - i : sub[k] = buf[i + k - 1]
  BY <1>3, <1>4
<1>6. ASSUME NEW k \in 1 .. j - i PROVE sub[k] = stream[(from + i - 1) + k]
  <2>1. i + k - 1 \in 1 .. to - from /\ from + (i + k - 1) = (from + i - 1) + k
    BY <1>1
  <2> QED
    BY <1>5, <2>1 DEF Piece
<1>7. (from + j - 1) - (from + i - 1) = j - i /\ from + i - 1 <= from + j - 1
  OBVIOUS
<1> QED
  BY <1>3, <1>4, <1>5, <1>6, <1>7 DEF Piece

\* How long a chunk and its body are.
Sized(text, buf, base, top, d, len, size) ==
  /\ len = Len(buf) /\ size = Len(text) /\ base + len = top /\ top <= size
  /\ Complete(d) <=> top = size
  /\ \A i \in 1 .. len : buf[i] = text[base + i]

\* The numbers of a chunk.
LEMMA ChunkSized ==
  ASSUME NEW text, NEW q, NEW r, NEW n, NEW b, NEW buf, NEW base, NEW top, NEW d,
         Chunk(text, q, r, n, b, buf, base, top, d)
  PROVE  \E len \in Nat, size \in Nat : Sized(text, buf, base, top, d, len, size)
<1>1. /\ text \in Seq(Units) /\ buf \in Seq(Units) /\ base \in Nat /\ top \in Nat /\ top <= Len(text)
      /\ Piece(buf, text, base, top) /\ d.recv = top /\ d.full = Len(text)
  BY DEF Chunk
<1>2. PICK len \in Nat, size \in Nat : len = Len(buf) /\ size = Len(text)
  BY <1>1, LenProperties
<1>3. base + len = top /\ top - base = len
  BY <1>1, <1>2 DEF Piece
<1>4. Complete(d) <=> top = size
  BY <1>1, <1>2 DEF Complete
<1>5. \A i \in 1 .. len : buf[i] = text[base + i]
  BY <1>1, <1>3 DEF Piece
<1>6. top <= size
  BY <1>1, <1>2
<1>7. Sized(text, buf, base, top, d, len, size)
  BY <1>2, <1>3, <1>4, <1>5, <1>6 DEF Sized
<1> QED
  BY <1>7

Refusable(q, n) == ~q.boundary \/ \E k \in 1 .. n : q.items[k].kind # "part"

\* A case that returns leaves what the next chunk needs, or the end of the body.
LEMMA StopIsStored ==
  ASSUME NEW text, NEW q, NEW r, NEW n, NEW b, NEW base, NEW top, NEW buf, NEW d, NEW m, NEW next,
         NEW ok, NEW left, Stops(m, next, ok, left),
         ok /\ ~Complete(d) => left \in 0 .. Len(buf),
         ok /\ ~Complete(d) => Where(text, q, r, n, b, top - left + 1, top, m.ss, m.rd),
         m.ss.state # "COPY_DATA_BLOCK",
         ok /\ Complete(d) => PartsArrived(q, r, n, m.rd.fields, m.rd.files),
         ~ok /\ Complete(d) => Refusable(q, n)
  PROVE  Stored(text, q, r, n, b, base, top, buf, d, next)
<1>1. /\ next.done /\ (next.ok <=> ok) /\ next.left = left /\ ~next.dies
      /\ next.ss = m.ss /\ next.rd = m.rd
  BY DEF Stops
<1> QED
  BY <1>1, Zenon DEF Stored, Refusable

\* INITIALIZATION keeps the parser at its place in the body.
LEMMA StoredInitialization ==
  ASSUME NEW text, NEW q, NEW r, NEW n, NEW b, NEW buf, NEW base, NEW top, NEW d,
         Chunk(text, q, r, n, b, buf, base, top, d),
         NEW m, Working(buf, d, m), m.ss.state = "INITIALIZATION",
         Where(text, q, r, n, b, base + m.cur, top, m.ss, m.rd),
         NEW next, next = Initialization(buf, d, m)
  PROVE  Stored(text, q, r, n, b, base, top, buf, d, next)
<1>1. /\ text \in Seq(Units) /\ buf \in Seq(Units) /\ base \in Nat /\ top \in Nat /\ n \in Nat
      /\ q \in Requests /\ Laid(text, q, r, n, b) /\ d.full = Len(text)
  BY DEF Chunk
<1>2. PICK len \in Nat, size \in Nat : Sized(text, buf, base, top, d, len, size)
  BY ChunkSized
<1>3. /\ len = Len(buf) /\ size = Len(text) /\ base + len = top /\ top <= size
      /\ (Complete(d) <=> top = size) /\ \A i \in 1 .. len : buf[i] = text[base + i]
  BY <1>2 DEF Sized
<1>4. /\ m.cur = 1
      /\ \/ ~m.ss.boundary /\ Stops(m, next, FALSE, 0)
         \/ Len(buf) < 3 /\ Stops(m, next, ~Complete(d), Len(buf))
         \/ /\ Len(buf) >= 3 /\ buf[1].t = "bnd" /\ buf[2].t = "fin" /\ buf[3].t = "nl"
            /\ Stops(m, next, d.full = 3 /\ Complete(d), 0)
         \/ Len(buf) >= 3 /\ buf[1].t # "bnd" /\ Stops(m, next, FALSE, 0)
         \/ /\ Len(buf) >= 3 /\ ~(buf[1].t = "bnd" /\ buf[2].t = "fin" /\ buf[3].t = "nl")
            /\ Goes(m, next, 3, "GET_DATA_BLOCK_TYPE")
  BY <1>1, InitializationIs
<1>5. base + m.cur = 1 /\ m.ss.boundary = q.boundary /\ m.rd = NoData
  BY DEF Where
<1>6. base = 0 /\ top = len
  BY <1>1, <1>3, <1>4, <1>5
<1>7. \A i \in 1 .. len : buf[i] = text[i]
  BY <1>3, <1>6
<1>8. PartsArrived(q, r, 0, m.rd.fields, m.rd.files)
  <2>1. m.rd.fields = <<>> /\ m.rd.files = <<>>
    BY <1>5 DEF NoData
  <2> QED
    BY <2>1, NoneArrived
<1>9. n = 0 => size = 3 /\ text[2].t = "fin" /\ text[3].t = "nl"
  <2> HAVE n = 0
  <2>1. /\ b[1] = 1 /\ text[b[n + 1] + 1].t = "fin" /\ text[b[n + 1] + 2].t = "nl"
        /\ Len(text) = b[n + 1] + 2
    BY <1>1 DEF Laid
  <2>2. n + 1 = 1
    OBVIOUS
  <2> QED
    BY <1>3, <2>1, <2>2
<1>10. n # 0 => /\ size >= 9 /\ text[2].t = "nl" /\ b[1] + 2 = 3 /\ 1 \in 1 .. n
  <2> HAVE n # 0
  <2>1. 1 \in 1 .. n
    BY <1>1
  <2>2. PICK at \in Nat, value \in Nat : Placed(text, q, r, n, b, 1, at, value)
    BY <1>1, <2>1, PartPlaces
  <2>3. at = b[1] /\ at + value + 8 <= Len(text) /\ text[at + 1].t = "nl"
    BY <2>2 DEF Placed
  <2>4. at = 1
    BY <1>1, <2>3 DEF Laid
  <2>5. at + 1 = 2 /\ b[1] + 2 = 3
    BY <2>3, <2>4
  <2>6. text[2].t = "nl"
    BY <2>3, <2>5
  <2>7. size >= 9
    BY <1>3, <2>3, <2>4
  <2> QED
    BY <2>1, <2>5, <2>6, <2>7
<1>11. text[1].t = "bnd"
  BY <1>1 DEF Laid
<1>12. size >= 3
  BY <1>9, <1>10
<1>13. m.ss.state # "COPY_DATA_BLOCK"
  OBVIOUS
<1>14. CASE ~m.ss.boundary /\ Stops(m, next, FALSE, 0)
  <2>1. Refusable(q, n)
    BY <1>5, <1>14 DEF Refusable
  <2> QED
    BY <1>13, <1>14, <2>1, StopIsStored
<1>15. CASE Len(buf) < 3 /\ Stops(m, next, ~Complete(d), Len(buf))
  <2>1. ~Complete(d)
    BY <1>3, <1>6, <1>12, <1>15
  <2>2. Len(buf) \in 0 .. Len(buf) /\ top - Len(buf) + 1 = base + m.cur
    BY <1>3, <1>5, <1>6
  <2>3. Where(text, q, r, n, b, top - Len(buf) + 1, top, m.ss, m.rd)
    BY <2>2
  <2> QED
    BY <1>13, <1>15, <2>1, <2>2, <2>3, StopIsStored
<1>16. CASE /\ Len(buf) >= 3 /\ buf[1].t = "bnd" /\ buf[2].t = "fin" /\ buf[3].t = "nl"
            /\ Stops(m, next, d.full = 3 /\ Complete(d), 0)
  <2>1. buf[2] = text[2]
    BY <1>3, <1>7, <1>16
  <2>2. n = 0
    BY <1>10, <1>16, <2>1
  <2>3. size = 3 /\ d.full = 3
    BY <1>1, <1>3, <1>9, <2>2
  <2>4. Complete(d)
    BY <1>3, <1>6, <1>16, <2>3
  <2> QED
    BY <1>8, <1>13, <1>16, <2>2, <2>3, <2>4, StopIsStored
<1>17. CASE Len(buf) >= 3 /\ buf[1].t # "bnd" /\ Stops(m, next, FALSE, 0)
  <2>1. buf[1] = text[1]
    BY <1>3, <1>7, <1>17
  <2> QED
    BY <1>11, <1>17, <2>1
<1>18. CASE /\ Len(buf) >= 3 /\ ~(buf[1].t = "bnd" /\ buf[2].t = "fin" /\ buf[3].t = "nl")
            /\ Goes(m, next, 3, "GET_DATA_BLOCK_TYPE")
  <2>1. buf[1] = text[1] /\ buf[2] = text[2] /\ buf[3] = text[3]
    BY <1>3, <1>7, <1>18
  <2>2. n # 0
    BY <1>9, <1>11, <1>18, <2>1
  <2>3. /\ ~next.done /\ next.cur = 3 /\ next.ss.state = "GET_DATA_BLOCK_TYPE" /\ next.rd = m.rd
    BY <1>18 DEF Goes
  <2>4. base + next.cur = b[1] + 2 /\ 1 - 1 = 0
    BY <1>6, <1>10, <2>2, <2>3
  <2>5. \E k \in 1 .. n : base + next.cur = b[k] + 2 /\ PartsArrived(q, r, k - 1, next.rd.fields, next.rd.files)
    BY <1>8, <1>10, <2>2, <2>3, <2>4
  <2>6. Where(text, q, r, n, b, base + next.cur, top, next.ss, next.rd)
    BY <2>3, <2>5 DEF Where
  <2> QED
    BY <2>3, <2>6 DEF Stored
<1> QED
  BY <1>4, <1>14, <1>15, <1>16, <1>17, <1>18, Zenon

\* The first header in front of an empty line.
LEMMA HeaderIs ==
  ASSUME NEW buf, NEW cur \in Nat, NEW end \in Nat, NEW header, header = PartHeader(buf, cur, end)
  PROVE  /\ end = cur => header.t = "anon"
         /\ end > cur /\ buf[cur].t = "part" => header = buf[cur]
         /\ end = cur + 1 /\ header.t # "anon" => header = buf[cur] /\ buf[cur].t \in {"part", "file", "anon"}
<1> DEFINE headers == { i \in cur .. end - 1 : buf[i].t \in {"part", "file", "anon"} }
<1>1. header = IF headers = {} THEN [t |-> "anon", r |-> 0] ELSE buf[Min(headers)]
  BY DEF PartHeader
<1>2. headers \in SUBSET Nat
  OBVIOUS
<1>3. headers # {} => Min(headers) \in headers /\ \A i \in headers : Min(headers) <= i
  BY <1>2, MinIs
<1>4. \A i \in headers : i \in cur .. end - 1 /\ buf[i].t \in {"part", "file", "anon"}
  OBVIOUS
<1>5. end > cur /\ buf[cur].t = "part" => cur \in headers
  OBVIOUS
<1>6. end = cur => headers = {}
  OBVIOUS
<1> HIDE DEF headers
<1>7. end = cur => header.t = "anon"
  BY <1>1, <1>6
<1>8. end > cur /\ buf[cur].t = "part" => header = buf[cur]
  <2> HAVE end > cur /\ buf[cur].t = "part"
  <2>1. headers # {} /\ cur \in headers
    BY <1>5
  <2>2. PICK i : i = Min(headers) /\ i \in headers /\ i <= cur
    BY <1>3, <2>1
  <2>3. i \in cur .. end - 1
    BY <1>4, <2>2
  <2>4. i = cur
    BY <2>2, <2>3
  <2> QED
    BY <1>1, <2>1, <2>2, <2>4
<1>9. end = cur + 1 /\ header.t # "anon" => header = buf[cur] /\ buf[cur].t \in {"part", "file", "anon"}
  <2> HAVE end = cur + 1 /\ header.t # "anon"
  <2>1. headers # {}
    BY <1>1
  <2>2. PICK i : i = Min(headers) /\ i \in headers
    BY <1>3, <2>1
  <2>3. i \in cur .. end - 1 /\ buf[i].t \in {"part", "file", "anon"}
    BY <1>4, <2>2
  <2>4. i = cur
    BY <2>3
  <2>5. header = buf[i]
    BY <1>1, <2>1, <2>2
  <2> QED
    BY <2>3, <2>4, <2>5
<1> QED
  BY <1>7, <1>8, <1>9

\* An empty header has no name.
LEMMA NoHeader ==
  ASSUME NEW buf, NEW cur \in Nat
  PROVE  PartHeader(buf, cur, cur).t = "anon"
<1>1. cur .. cur - 1 = {}
  OBVIOUS
<1>2. { i \in cur .. cur - 1 : buf[i].t \in {"part", "file", "anon"} } = {}
  BY <1>1
<1>3. PartHeader(buf, cur, cur) = [t |-> "anon", r |-> 0]
  BY <1>2 DEF PartHeader
<1> QED
  BY <1>3

\* The name of a part is its header.
LEMMA NameOfPart ==
  ASSUME NEW kind, NEW r
  PROVE  Tokens(<<kind>>, r) = <<[t |-> kind, r |-> r]>>
<1>1. DOMAIN <<kind>> = 1 .. 1 /\ <<kind>>[1] = kind
  OBVIOUS
<1>2. Tokens(<<kind>>, r) = [i \in 1 .. 1 |-> [t |-> <<kind>>[i], r |-> r]]
  BY <1>1 DEF Tokens
<1>3. \A i \in 1 .. 1 : i = 1
  OBVIOUS
<1>4. [i \in 1 .. 1 |-> [t |-> <<kind>>[i], r |-> r]] = [i \in 1 .. 1 |-> [t |-> kind, r |-> r]]
  BY <1>1, <1>3
<1>5. [i \in 1 .. 1 |-> [t |-> kind, r |-> r]] = <<[t |-> kind, r |-> r]>>
  OBVIOUS
<1> QED
  BY <1>2, <1>4, <1>5

\* Where the empty line behind a header is.
LEMMA EmptyLineOfPart ==
  ASSUME NEW buf \in Seq(Units), NEW cur \in Nat \ {0}, NEW len \in Nat, len = Len(buf),
         cur + 2 <= len => buf[cur + 1].t = "nl" /\ buf[cur + 2].t = "nl",
         NEW end, end = Find(buf, EmptyLine, cur)
  PROVE  \/ end = NotFound /\ cur + 2 > len
         \/ end = cur /\ end # NotFound /\ buf[cur].t = "nl"
         \/ end = cur + 1 /\ end # NotFound /\ cur + 2 <= len
<1>1. \/ end = NotFound /\ \A i \in cur .. len - 1 : ~(buf[i].t = "nl" /\ buf[i + 1].t = "nl")
      \/ /\ end \in cur .. len - 1 /\ buf[end].t = "nl" /\ buf[end + 1].t = "nl"
         /\ \A i \in cur .. end - 1 : ~(buf[i].t = "nl" /\ buf[i + 1].t = "nl")
  BY FindEmptyLine
<1>2. PICK x \in Nat : x = cur + 1 /\ x + 1 = cur + 2
  OBVIOUS
<1>3. CASE end = NotFound /\ \A i \in cur .. len - 1 : ~(buf[i].t = "nl" /\ buf[i + 1].t = "nl")
  <2>1. SUFFICES ASSUME cur + 2 <= len PROVE FALSE
    BY <1>3
  <2>2. x \in cur .. len - 1
    BY <1>2, <2>1
  <2>3. buf[x].t = "nl" /\ buf[x + 1].t = "nl"
    BY <1>2, <2>1
  <2> QED
    BY <1>3, <2>2, <2>3
<1>4. CASE /\ end \in cur .. len - 1 /\ buf[end].t = "nl" /\ buf[end + 1].t = "nl"
           /\ \A i \in cur .. end - 1 : ~(buf[i].t = "nl" /\ buf[i + 1].t = "nl")
  <2>1. end # NotFound
    BY <1>4 DEF NotFound
  <2>2. CASE end = cur
    BY <1>4, <2>1, <2>2
  <2>3. CASE end = x
    <3>1. cur + 2 <= len
      BY <1>2, <1>4, <2>3
    <3> QED
      BY <1>2, <2>1, <2>3, <3>1
  <2>4. CASE end > x
    <3>1. x \in cur .. end - 1 /\ cur + 2 <= len
      BY <1>2, <1>4, <2>4
    <3>2. buf[x].t = "nl" /\ buf[x + 1].t = "nl"
      BY <1>2, <3>1
    <3> QED
      BY <1>4, <3>1, <3>2
  <2>5. end = cur \/ end = x \/ end > x
    BY <1>2, <1>4
  <2> QED
    BY <2>2, <2>3, <2>4, <2>5
<1> QED
  BY <1>1, <1>3, <1>4

\* Nothing is a piece of every stream.
LEMMA EmptyPiece ==
  ASSUME NEW stream, NEW from \in Nat
  PROVE  Piece(<<>>, stream, from, from)
BY DEF Piece

\* GET_DATA_BLOCK_TYPE keeps the parser at its place in the body.
LEMMA StoredGetDataBlockType ==
  ASSUME NEW text \in Seq(Units), NEW q, NEW r, NEW n \in Nat, NEW b, NEW buf \in Seq(Units),
         NEW base \in Nat, NEW top \in Nat, NEW d,
         Chunk(text, q, r, n, b, buf, base, top, d),
         NEW m, Working(buf, d, m), m.ss.state = "GET_DATA_BLOCK_TYPE",
         Where(text, q, r, n, b, base + m.cur, top, m.ss, m.rd), NEW canOpen,
         NEW next, next = GetDataBlockType(buf, d, m, canOpen)
  PROVE  Stored(text, q, r, n, b, base, top, buf, d, next)
<1>1. /\ text \in Seq(Units) /\ buf \in Seq(Units) /\ base \in Nat /\ top \in Nat /\ n \in Nat
      /\ q \in Requests /\ Laid(text, q, r, n, b)
  BY DEF Chunk
<1>2. PICK len \in Nat, size \in Nat : Sized(text, buf, base, top, d, len, size)
  BY ChunkSized
<1>3. /\ len = Len(buf) /\ size = Len(text) /\ base + len = top /\ top <= size
      /\ (Complete(d) <=> top = size) /\ \A i \in 1 .. len : buf[i] = text[base + i]
  BY <1>2 DEF Sized
<1>4. PICK k \in 1 .. n : base + m.cur = b[k] + 2 /\ PartsArrived(q, r, k - 1, m.rd.fields, m.rd.files)
  BY DEF Where
<1>5. PICK at \in Nat, value \in Nat : Placed(text, q, r, n, b, k, at, value)
  BY <1>1, PartPlaces
<1>6. /\ at = b[k] /\ at >= 1 /\ b[k + 1] = at + value + 6 /\ at + value + 8 <= size
  BY <1>3, <1>5 DEF Placed
<1>7. /\ text[at + 2] = [t |-> q.items[k].kind, r |-> r]
      /\ text[at + 3].t = "nl" /\ text[at + 4].t = "nl"
  BY <1>5, Zenon DEF Placed
<1>8. PICK cur \in Nat \ {0} : cur = m.cur /\ cur <= len + 1
  BY <1>1, <1>3 DEF Working, Running, Loops
<1>9. base + cur = at + 2
  BY <1>4, <1>6, <1>8
<1>10. /\ base + (cur + 1) = at + 3 /\ base + (cur + 2) = at + 4
       /\ cur + 2 <= len => cur \in 1 .. len /\ cur + 1 \in 1 .. len /\ cur + 2 \in 1 .. len
  BY <1>1, <1>9
<1>11. PICK end, header : end = Find(buf, EmptyLine, cur) /\ header = PartHeader(buf, cur, end)
  OBVIOUS
<1>12. \/ end = NotFound /\ Stops(m, next, ~Complete(d), Len(buf) - m.cur + 1)
       \/ end # NotFound /\ header.t # "part" /\ Stops(m, next, FALSE, 0)
       \/ /\ end # NotFound /\ header.t # "anon"
          /\ ~next.done /\ next.cur = end + 2 /\ next.ss.state = "COPY_DATA_BLOCK"
          /\ next.ss.name = <<header>> /\ next.ss.value = <<>>
          /\ next.ss.type = (IF header.t = "part" THEN "DATA" ELSE "FILE")
          /\ next.rd.fields = m.rd.fields /\ next.rd.files = m.rd.files /\ next.falls
  <2>1. end = Find(buf, EmptyLine, m.cur) /\ header = PartHeader(buf, m.cur, end)
    BY <1>8, <1>11
  <2>2. TypeFound(buf, d, m, end, header, next)
    BY <2>1, GetDataBlockTypeIs
  <2> QED
    BY <2>2, Zenon DEF TypeFound
<1>13. cur + 2 <= len => buf[cur + 1].t = "nl" /\ buf[cur + 2].t = "nl"
  <2> HAVE cur + 2 <= len
  <2>1. buf[cur + 1] = text[at + 3] /\ buf[cur + 2] = text[at + 4]
    BY <1>3, <1>10
  <2> QED
    BY <1>7, <2>1
<1>14. \/ end = NotFound /\ cur + 2 > len
       \/ end = cur /\ end # NotFound /\ buf[cur].t = "nl"
       \/ end = cur + 1 /\ end # NotFound /\ cur + 2 <= len
  BY <1>1, <1>3, <1>11, <1>13, EmptyLineOfPart
<1>15. Complete(d) => cur + 2 <= len
  <2> HAVE Complete(d)
  <2>1. base + len = size
    BY <1>3
  <2>2. at + value + 8 <= size
    BY <1>6
  <2> QED
    BY <1>9, <2>1, <2>2
<1>16. m.ss.state # "COPY_DATA_BLOCK"
  OBVIOUS
<1>17. CASE end = NotFound /\ Stops(m, next, ~Complete(d), Len(buf) - m.cur + 1)
  <2>1. ~Complete(d)
    BY <1>14, <1>15, <1>17
  <2>2. Len(buf) - m.cur + 1 \in 0 .. Len(buf) /\ top - (Len(buf) - m.cur + 1) + 1 = base + m.cur
    <3>1. base + len = top /\ Len(buf) = len
      BY <1>3
    <3>2. m.cur = cur /\ cur <= len + 1
      BY <1>8
    <3> QED
      BY <3>1, <3>2
  <2>3. Where(text, q, r, n, b, top - (Len(buf) - m.cur + 1) + 1, top, m.ss, m.rd)
    BY <2>2
  <2> QED
    BY <1>16, <1>17, <2>1, <2>2, <2>3, StopIsStored
<1>18. CASE end # NotFound /\ header.t # "part" /\ Stops(m, next, FALSE, 0)
  <2>1. ASSUME Complete(d) PROVE q.items[k].kind # "part"
    <3>1. cur + 2 <= len
      BY <1>15, <2>1
    <3>2. buf[cur] = text[at + 2]
      BY <1>3, <1>9, <1>10, <3>1
    <3>3. buf[cur].t = q.items[k].kind
      BY <1>7, <3>2
    <3>4. CASE end = cur /\ buf[cur].t = "nl"
      BY <3>3, <3>4
    <3>5. CASE end = cur + 1
      <4>1. buf[cur].t = "part" => header = buf[cur]
        <5>1. end \in Nat /\ cur \in Nat /\ end > cur
          BY <3>5
        <5> QED
          BY <1>11, <5>1, HeaderIs
      <4> QED
        BY <1>18, <3>3, <4>1
    <3> QED
      BY <1>14, <1>18, <3>4, <3>5
  <2>2. Complete(d) => Refusable(q, n)
    BY <2>1 DEF Refusable
  <2> QED
    BY <1>16, <1>18, <2>2, StopIsStored
<1>19. CASE /\ end # NotFound /\ header.t # "anon"
            /\ ~next.done /\ next.cur = end + 2 /\ next.ss.state = "COPY_DATA_BLOCK"
            /\ next.ss.name = <<header>> /\ next.ss.value = <<>>
            /\ next.ss.type = (IF header.t = "part" THEN "DATA" ELSE "FILE")
            /\ next.rd.fields = m.rd.fields /\ next.rd.files = m.rd.files /\ next.falls
  <2>1. end # cur
    <3> SUFFICES ASSUME end = cur PROVE FALSE
      OBVIOUS
    <3>1. cur \in Nat /\ header = PartHeader(buf, cur, cur)
      BY <1>11
    <3>2. header.t = "anon"
      BY <3>1, NoHeader
    <3> QED
      BY <1>19, <3>2
  <2>2. end = cur + 1 /\ cur + 2 <= len
    BY <1>14, <1>19, <2>1
  <2>3. header = buf[cur] /\ buf[cur].t \in {"part", "file", "anon"}
    <3>1. end \in Nat /\ cur \in Nat
      BY <2>2
    <3> QED
      BY <1>11, <1>19, <2>2, <3>1, HeaderIs
  <2>4. buf[cur] = text[at + 2]
    BY <1>3, <1>9, <1>10, <2>2
  <2>5. PICK kind : kind = q.items[k].kind
    OBVIOUS
  <2>6. header = [t |-> kind, r |-> r] /\ header.t = kind
    BY <1>7, <2>3, <2>4, <2>5
  <2>7. kind = "part" \/ kind = "file"
    BY <1>19, <2>3, <2>6
  <2>8. next.ss.name = Tokens(<<kind>>, r)
    BY <1>19, <2>6, NameOfPart
  <2>9. PICK p \in Nat : p = base + next.cur /\ p = at + 5 /\ p - 1 = at + 4
    <3>1. base + next.cur = at + 5
      BY <1>1, <1>9, <1>19, <2>2
    <3> QED
      BY <3>1
  <2>10. /\ b[k] + 4 <= top /\ (b[k] + 4) - 1 <= p /\ p <= b[k + 1] - 1 /\ b[k] + 4 = p - 1
    <3>1. base + len = top /\ at = b[k] /\ b[k + 1] = at + value + 6
      BY <1>3, <1>6
    <3>2. p = at + 5
      BY <2>9
    <3>3. at + 4 <= top
      <4>1. cur + 2 <= len /\ base + len = top
        BY <2>2, <3>1
      <4> QED
        BY <1>9, <4>1
    <3>4. at + 5 <= (at + value + 6) - 1
      OBVIOUS
    <3>5. (at + 4) - 1 <= p /\ p <= (at + value + 6) - 1 /\ at + 4 = p - 1
      BY <3>2, <3>4
    <3> QED
      BY <3>1, <3>3, <3>5
  <2>11. Piece(next.ss.value, text, b[k] + 4, p - 1)
    <3>1. PICK from \in Nat : from = b[k] + 4
      <4>1. at + 4 \in Nat
        OBVIOUS
      <4> QED
        BY <1>6, <4>1
    <3>2. Piece(<<>>, text, from, from)
      BY <3>1, EmptyPiece
    <3> QED
      BY <1>19, <2>10, <3>1, <3>2
  <2>12. \/ q.items[k].kind = "part" /\ next.ss.type = "DATA" /\ Piece(next.ss.value, text, b[k] + 4, p - 1)
         \/ q.items[k].kind = "file" /\ next.ss.type = "FILE"
              /\ (next.ss.good => Piece(next.ss.value, text, b[k] + 4, p - 1))
    BY <1>19, <2>5, <2>6, <2>7, <2>11
  <2>13. PartsArrived(q, r, k - 1, next.rd.fields, next.rd.files)
    BY <1>4, <1>19
  <2>14. Within(text, q, r, b, k, p, top, next.ss, next.rd)
    BY <2>5, <2>8, <2>10, <2>12, <2>13, Zenon DEF Within
  <2>15. Where(text, q, r, n, b, p, top, next.ss, next.rd)
    BY <1>19, <2>14 DEF Where
  <2>16. Len(buf) >= 2
    BY <1>3, <2>2
  <2> QED
    BY <1>19, <2>9, <2>15, <2>16 DEF Stored
<1> QED
  BY <1>12, <1>17, <1>18, <1>19, Zenon

\* What was stored of a block goes on up to an end.
LEMMA CopiedPiece ==
  ASSUME NEW text, NEW buf \in Seq(Units), NEW base \in Nat, NEW top \in Nat, Piece(buf, text, base, top),
         NEW cur \in Nat \ {0}, NEW end \in Nat, cur <= end, end <= Len(buf) + 1,
         NEW value \in Seq(Units), NEW start \in Nat, Piece(value, text, start, base + cur - 1)
  PROVE  Piece(value \o SubSeq(buf, cur, end - 1), text, start, base + end - 1)
<1>1. end \in Nat \ {0}
  OBVIOUS
<1>2. /\ SubSeq(buf, cur, end - 1) \in Seq(Units)
      /\ Piece(SubSeq(buf, cur, end - 1), text, base + cur - 1, base + end - 1)
  BY <1>1, PieceMiddle
<1>3. PICK sub \in Seq(Units) : sub = SubSeq(buf, cur, end - 1)
  BY <1>2
<1>4. PICK mid \in Nat, to \in Nat : mid = base + cur - 1 /\ to = base + end - 1
  <2>1. base + cur - 1 \in Nat /\ base + end - 1 \in Nat
    OBVIOUS
  <2> QED
    BY <2>1
<1>5. Piece(value, text, start, mid) /\ Piece(sub, text, mid, to)
  BY <1>2, <1>3, <1>4
<1>6. Piece(value \o sub, text, start, to)
  BY <1>5, PieceJoined
<1> QED
  BY <1>3, <1>4, <1>6

\* The block that is being stored is the same one.
LEMMA WithinCopied ==
  ASSUME NEW text, NEW q, NEW r, NEW b, NEW k, NEW buf \in Seq(Units), NEW base \in Nat, NEW top \in Nat,
         Piece(buf, text, base, top), NEW m, NEW cur \in Nat \ {0}, cur = m.cur,
         m.ss.value \in Seq(Units), b[k] \in Nat,
         Within(text, q, r, b, k, base + cur, top, m.ss, m.rd),
         NEW end \in Nat, end <= Len(buf) + 1, NEW next, Copied(buf, m, next, end),
         NEW p, p = base + end, p >= (b[k] + 4) - 1, p <= b[k + 1] - 1
  PROVE  Within(text, q, r, b, k, p, top, next.ss, next.rd)
<1>1. PICK start \in Nat : start = b[k] + 4
  OBVIOUS
<1>2. /\ PartsArrived(q, r, k - 1, m.rd.fields, m.rd.files)
      /\ m.ss.name = Tokens(<<q.items[k].kind>>, r) /\ start <= top
      /\ \/ q.items[k].kind = "part" /\ m.ss.type = "DATA" /\ Piece(m.ss.value, text, start, base + cur - 1)
         \/ q.items[k].kind = "file" /\ m.ss.type = "FILE"
              /\ (m.ss.good => Piece(m.ss.value, text, start, base + cur - 1))
  <2>1. /\ PartsArrived(q, r, k - 1, m.rd.fields, m.rd.files)
        /\ m.ss.name = Tokens(<<q.items[k].kind>>, r) /\ b[k] + 4 <= top
        /\ \/ q.items[k].kind = "part" /\ m.ss.type = "DATA" /\ Piece(m.ss.value, text, b[k] + 4, base + cur - 1)
           \/ q.items[k].kind = "file" /\ m.ss.type = "FILE"
                /\ (m.ss.good => Piece(m.ss.value, text, b[k] + 4, base + cur - 1))
    BY DEF Within
  <2> QED
    BY <1>1, <2>1, Zenon
<1>3. /\ next.rd = m.rd /\ next.ss.name = m.ss.name /\ next.ss.type = m.ss.type
      /\ (next.ss.good <=> (m.ss.type = "DATA" \/ (m.ss.good /\ end >= cur)))
      /\ next.ss.value = IF m.ss.type = "DATA" \/ (m.ss.good /\ end >= cur)
                         THEN m.ss.value \o SubSeq(buf, cur, end - 1) ELSE m.ss.value
      /\ m.ss.type = "DATA" => end >= cur
  BY DEF Copied
<1>4. PICK value \in Seq(Units) : value = m.ss.value
  OBVIOUS
<1>5. ASSUME end >= cur, Piece(value, text, start, base + cur - 1)
      PROVE  Piece(value \o SubSeq(buf, cur, end - 1), text, start, p - 1)
  <2>1. Piece(value \o SubSeq(buf, cur, end - 1), text, start, base + end - 1)
    BY <1>5, CopiedPiece
  <2> QED
    BY <2>1
<1>6. CASE q.items[k].kind = "part" /\ m.ss.type = "DATA" /\ Piece(m.ss.value, text, start, base + cur - 1)
  <2>1. end >= cur /\ next.ss.value = value \o SubSeq(buf, cur, end - 1) /\ next.ss.type = "DATA"
    BY <1>3, <1>4, <1>6
  <2>2. Piece(next.ss.value, text, start, p - 1)
    BY <1>4, <1>5, <1>6, <2>1
  <2> QED
    BY <1>1, <1>2, <1>3, <1>6, <2>1, <2>2 DEF Within
<1>7. CASE /\ q.items[k].kind = "file" /\ m.ss.type = "FILE"
           /\ (m.ss.good => Piece(m.ss.value, text, start, base + cur - 1))
  <2>1. next.ss.type = "FILE" /\ m.ss.type # "DATA"
    BY <1>3, <1>7
  <2>2. ASSUME next.ss.good PROVE Piece(next.ss.value, text, start, p - 1)
    <3>1. m.ss.good /\ end >= cur
      BY <1>3, <2>1, <2>2
    <3>2. next.ss.value = value \o SubSeq(buf, cur, end - 1)
      BY <1>3, <1>4, <3>1
    <3> QED
      BY <1>4, <1>5, <1>7, <3>1, <3>2
  <2> QED
    BY <1>1, <1>2, <1>3, <1>7, <2>1, <2>2 DEF Within
<1> QED
  BY <1>2, <1>6, <1>7

\* COPY_DATA_BLOCK keeps the parser at its place in the body.
LEMMA StoredCopyDataBlock ==
  ASSUME NEW text \in Seq(Units), NEW q, NEW r, NEW n \in Nat, NEW b, NEW buf \in Seq(Units),
         NEW base \in Nat, NEW top \in Nat, NEW d,
         Chunk(text, q, r, n, b, buf, base, top, d),
         NEW m, Working(buf, d, m), m.ss.state = "COPY_DATA_BLOCK", Len(buf) >= 2,
         Where(text, q, r, n, b, base + m.cur, top, m.ss, m.rd),
         NEW next, next = CopyDataBlock(buf, d, m)
  PROVE  Stored(text, q, r, n, b, base, top, buf, d, next)
<1>1. q \in Requests /\ Laid(text, q, r, n, b) /\ Piece(buf, text, base, top)
  BY DEF Chunk
<1>2. PICK len \in Nat, size \in Nat : Sized(text, buf, base, top, d, len, size)
  BY ChunkSized
<1>3. /\ len = Len(buf) /\ size = Len(text) /\ base + len = top /\ top <= size
      /\ (Complete(d) <=> top = size) /\ \A i \in 1 .. len : buf[i] = text[base + i]
  BY <1>2 DEF Sized
<1>4. PICK k \in 1 .. n : Within(text, q, r, b, k, base + m.cur, top, m.ss, m.rd)
  BY DEF Where
<1>5. PICK at \in Nat, value \in Nat : Placed(text, q, r, n, b, k, at, value)
  BY <1>1, PartPlaces
<1>6. /\ at = b[k] /\ at >= 1 /\ b[k + 1] = at + value + 6 /\ at + value + 8 <= size
  BY <1>3, <1>5 DEF Placed
<1>7. PICK cur \in Nat \ {0} : cur = m.cur /\ cur <= len + 1 /\ m.ss.value \in Seq(Units)
  BY <1>3 DEF Working, Running, Loops, MultipartStates
<1>8. Within(text, q, r, b, k, base + cur, top, m.ss, m.rd)
  BY <1>4, <1>7
<1>9. /\ at + 4 <= top /\ at + 3 <= base + cur /\ base + cur <= at + value + 5
  <2>1. b[k] + 4 <= top /\ (b[k] + 4) - 1 <= base + cur /\ base + cur <= b[k + 1] - 1
    BY <1>8 DEF Within
  <2>2. at + 4 <= top /\ (at + 4) - 1 <= base + cur /\ base + cur <= (at + value + 6) - 1
    BY <1>6, <2>1, Zenon
  <2> QED
    BY <2>2
<1>10. PICK e \in Nat : e = at + value + 5 /\ e + 3 <= size
  <2>1. at + value + 5 \in Nat /\ (at + value + 5) + 3 <= size
    <3>1. at + value + 8 <= size
      BY <1>6
    <3> QED
      BY <3>1
  <2> QED
    BY <2>1
<1>11. /\ Delimits(text, e)
       /\ \A i \in Nat : at + 3 <= i /\ i < e => ~Delimits(text, i)
  <2>1. /\ Delimits(text, at + value + 5)
        /\ \A i \in Nat : at + 3 <= i /\ i < at + value + 5 => ~Delimits(text, i)
    BY <1>5, PartDelimiter
  <2> QED
    BY <1>10, <2>1
<1>12. ASSUME NEW i \in 1 .. len - 1 PROVE Delimits(buf, i) <=> Delimits(text, base + i)
  <2>1. i \in 1 .. len /\ i + 1 \in 1 .. len /\ base + (i + 1) = (base + i) + 1
    OBVIOUS
  <2>2. buf[i] = text[base + i] /\ buf[i + 1] = text[(base + i) + 1]
    BY <1>3, <2>1
  <2> QED
    BY <2>2 DEF Delimits
<1>13. base + cur <= e /\ (base + len = top) /\ top <= size
  BY <1>3, <1>9, <1>10
<1>14. len >= 2
  BY <1>3
<1>15. ASSUME e + 1 <= top
       PROVE  \E i \in cur .. len - 1 : base + i = e /\ Delimits(buf, i)
  <2>1. PICK i \in Nat : base + i = e
    <3>1. e - base \in Nat /\ base + (e - base) = e
      BY <1>13
    <3> QED
      BY <3>1
  <2>2. i \in cur .. len - 1 /\ i \in 1 .. len - 1
    BY <1>13, <1>15, <2>1
  <2>3. Delimits(buf, i)
    BY <1>11, <1>12, <2>1, <2>2
  <2> QED
    BY <2>1, <2>2, <2>3
<1>16. \/ /\ \A i \in cur .. len - 1 : ~Delimits(buf, i)
          /\ \/ /\ m.ss.type = "DATA" /\ len - 1 < cur
                /\ next.done /\ next.dies /\ ~next.ok
             \/ /\ Copied(buf, m, next, len - 1) /\ next.ss.state = "COPY_DATA_BLOCK"
                /\ next.done /\ ~next.dies /\ (next.ok <=> ~Complete(d)) /\ next.left = 2
       \/ \E end \in cur .. len - 1 :
            /\ Delimits(buf, end) /\ \A i \in cur .. end - 1 : ~Delimits(buf, i)
            /\ Copied(buf, m, next, end) /\ next.ss.state = "SAVE_DATA_BLOCK"
            /\ ~next.done /\ next.cur = end
  <2>1. BlockCopied(buf, d, m, next)
    BY CopyDataBlockIs
  <2> QED
    BY <1>3, <1>7, <2>1 DEF BlockCopied
<1>17. CASE next.done /\ next.dies /\ ~next.ok
  BY <1>17 DEF Stored
<1>18. CASE /\ \A i \in cur .. len - 1 : ~Delimits(buf, i)
            /\ Copied(buf, m, next, len - 1) /\ next.ss.state = "COPY_DATA_BLOCK"
            /\ next.done /\ ~next.dies /\ (next.ok <=> ~Complete(d)) /\ next.left = 2
  <2>1. top <= e
    <3>1. ~(e + 1 <= top)
      BY <1>15, <1>18
    <3> QED
      BY <3>1
  <2>2. ~Complete(d)
    BY <1>3, <1>10, <2>1
  <2>3. PICK end \in Nat, p \in Nat : end = len - 1 /\ p = base + end /\ p = top - 1 /\ p = top - 2 + 1
    <3>1. len - 1 \in Nat /\ base + (len - 1) = top - 1 /\ base + (len - 1) \in Nat /\ top - 1 = top - 2 + 1
      BY <1>13, <1>14
    <3> QED
      BY <3>1
  <2>4. end <= len + 1
    BY <2>3
  <2>5. p >= (at + 4) - 1 /\ p <= (at + value + 6) - 1
    <3>1. p = top - 1 /\ top <= at + value + 5
      BY <1>10, <2>1, <2>3
    <3>2. at + 4 <= top
      BY <1>9
    <3> QED
      BY <3>1, <3>2
  <2>6. p >= (b[k] + 4) - 1 /\ p <= b[k + 1] - 1 /\ b[k] \in Nat
    BY <1>6, <2>5
  <2>7. Copied(buf, m, next, end)
    BY <1>18, <2>3
  <2>8. Within(text, q, r, b, k, p, top, next.ss, next.rd)
    <3>1. end <= Len(buf) + 1
      BY <1>3, <2>4
    <3> QED
      BY <1>1, <1>7, <1>8, <2>3, <2>4, <2>6, <2>7, <3>1, WithinCopied
  <2>9. Where(text, q, r, n, b, top - 2 + 1, top, next.ss, next.rd)
    BY <1>18, <2>3, <2>8 DEF Where
  <2>10. 2 \in 0 .. Len(buf)
    BY <1>3, <1>14
  <2> QED
    BY <1>18, <2>2, <2>9, <2>10 DEF Stored
<1>19. ASSUME NEW end \in cur .. len - 1,
              Delimits(buf, end), \A i \in cur .. end - 1 : ~Delimits(buf, i),
              Copied(buf, m, next, end), next.ss.state = "SAVE_DATA_BLOCK",
              ~next.done, next.cur = end
       PROVE  Stored(text, q, r, n, b, base, top, buf, d, next)
  <2>1. base + end = e
    <3>1. end \in 1 .. len - 1 /\ base + end \in Nat /\ at + 3 <= base + end
      BY <1>9
    <3>2. Delimits(text, base + end)
      BY <1>12, <1>19, <3>1
    <3>3. ~(base + end < e)
      BY <1>11, <3>1, <3>2
    <3>4. ~(base + end > e)
      <4> SUFFICES ASSUME base + end > e PROVE FALSE
        OBVIOUS
      <4>1. e + 1 <= top
        BY <1>13
      <4>2. PICK i \in cur .. len - 1 : base + i = e /\ Delimits(buf, i)
        BY <1>15, <4>1
      <4>3. i \in cur .. end - 1
        BY <4>2
      <4> QED
        BY <1>19, <4>2, <4>3
    <3> QED
      BY <3>1, <3>3, <3>4
  <2>2. end \in Nat /\ end <= len + 1
    OBVIOUS
  <2>3. e >= (at + 4) - 1 /\ e <= (at + value + 6) - 1 /\ e = (at + value + 6) - 1
    BY <1>10
  <2>4. e >= (b[k] + 4) - 1 /\ e <= b[k + 1] - 1 /\ e = b[k + 1] - 1 /\ b[k] \in Nat
    BY <1>6, <2>3
  <2>5. Within(text, q, r, b, k, e, top, next.ss, next.rd)
    <3>1. end <= Len(buf) + 1
      BY <1>3, <2>2
    <3> QED
      BY <1>1, <1>7, <1>8, <1>19, <2>1, <2>2, <2>4, <3>1, WithinCopied
  <2>6. Where(text, q, r, n, b, e, top, next.ss, next.rd)
    BY <1>19, <2>4, <2>5 DEF Where
  <2> QED
    BY <1>19, <2>1, <2>6 DEF Stored
<1> QED
  BY <1>16, <1>17, <1>18, <1>19

\* A block that was stored up to its end.
Holds(value, q, r, k) == value = Tokens(q.items[k].value, r)

\* A block that reaches from the header of a part to its delimiter is its content.
LEMMA WholeBlock ==
  ASSUME NEW text \in Seq(Units), NEW q, NEW r \in Nat, NEW n, NEW b, NEW k, NEW at \in Nat, NEW size \in Nat,
         Placed(text, q, r, n, b, k, at, size), NEW value \in Seq(Units), NEW from, from = at + 4, NEW to,
         to = at + 4 + size, Piece(value, text, from, to)
  PROVE  Holds(value, q, r, k)
<1>1. PICK words \in Texts : words = q.items[k].value /\ size = Len(words)
  BY DEF Placed, Items
<1>2. \A j \in 1 .. size : text[at + 4 + j] = [t |-> words[j], r |-> r]
  BY <1>1, Zenon DEF Placed
<1>3. from \in Nat /\ from = at + 4 /\ to = from + size
  OBVIOUS
<1>4. Len(value) = size /\ \A j \in 1 .. size : value[j] = text[from + j]
  <2>1. (from + size) - from = size
    OBVIOUS
  <2>2. Piece(value, text, from, from + size)
    OBVIOUS
  <2> QED
    BY <2>1, <2>2 DEF Piece
<1>5. PICK sent \in Seq(Units) :
        /\ sent = Tokens(words, r) /\ Len(sent) = size
        /\ \A j \in 1 .. size : sent[j] = [t |-> words[j], r |-> r]
  <2>1. PICK sent : sent = Tokens(words, r)
    OBVIOUS
  <2>2. /\ sent \in Seq(Units) /\ Len(sent) = Len(words)
        /\ \A j \in 1 .. Len(words) : sent[j] = [t |-> words[j], r |-> r]
    BY <1>1, <2>1, TokenAt
  <2> QED
    BY <1>1, <2>1, <2>2, Zenon
<1>6. \A j \in 1 .. size : value[j] = sent[j]
  BY <1>2, <1>3, <1>4, <1>5
<1>7. value = sent
  BY <1>4, <1>5, <1>6, SeqEqual
<1> QED
  BY <1>1, <1>5, <1>7 DEF Holds

\* SAVE_DATA_BLOCK stores the part whose content the block is.
LEMMA StoredSaveDataBlock ==
  ASSUME NEW text \in Seq(Units), NEW q, NEW r \in Nat, NEW n \in Nat, NEW b, NEW buf \in Seq(Units),
         NEW base \in Nat, NEW top \in Nat, NEW d,
         Chunk(text, q, r, n, b, buf, base, top, d),
         NEW m, Working(buf, d, m), m.ss.state = "SAVE_DATA_BLOCK",
         Where(text, q, r, n, b, base + m.cur, top, m.ss, m.rd),
         NEW next, next = SaveDataBlock(m)
  PROVE  Stored(text, q, r, n, b, base, top, buf, d, next)
<1>1. q \in Requests /\ Laid(text, q, r, n, b) /\ q.variant = "multipart"
  BY DEF Chunk
<1>2. PICK k \in 1 .. n : base + m.cur = b[k + 1] - 1 /\ Within(text, q, r, b, k, base + m.cur, top, m.ss, m.rd)
  BY DEF Where
<1>3. PICK at \in Nat, size \in Nat : Placed(text, q, r, n, b, k, at, size)
  BY <1>1, PartPlaces
<1>4. /\ at = b[k] /\ b[k + 1] = at + size + 6 /\ k \in DOMAIN q.items
  BY <1>3 DEF Placed
<1>5. PICK p \in Nat : p = base + m.cur /\ p = b[k + 1] - 1 /\ p - 1 = at + 4 + size
  <2>1. (at + size + 6) - 1 \in Nat /\ ((at + size + 6) - 1) - 1 = at + 4 + size
    OBVIOUS
  <2>2. b[k + 1] - 1 = (at + size + 6) - 1
    BY <1>4
  <2> QED
    BY <1>2, <2>1, <2>2
<1>6. m.ss \in MultipartStates /\ m.rd \in Data
  BY DEF Working, Loops
<1>7. /\ m.ss.value \in Seq(Units) /\ m.ss.name \in Seq(Units) /\ m.ss.tmp \in Nat /\ m.ss.good \in BOOLEAN
      /\ m.rd.fields \in Seq([name : Seq(Units), value : Seq(Units)])
      /\ m.rd.files \in Seq([name : Seq(Units), value : Seq(Units), tmp : Nat, good : BOOLEAN])
  BY <1>6 DEF MultipartStates, Data
<1>8. /\ PartsArrived(q, r, k - 1, m.rd.fields, m.rd.files)
      /\ m.ss.name = Tokens(<<q.items[k].kind>>, r)
      /\ \/ q.items[k].kind = "part" /\ m.ss.type = "DATA" /\ Piece(m.ss.value, text, b[k] + 4, p - 1)
         \/ q.items[k].kind = "file" /\ m.ss.type = "FILE"
              /\ (m.ss.good => Piece(m.ss.value, text, b[k] + 4, p - 1))
  <2>1. Within(text, q, r, b, k, p, top, m.ss, m.rd)
    BY <1>2, <1>5
  <2> QED
    BY <2>1 DEF Within
<1>9. Piece(m.ss.value, text, b[k] + 4, p - 1) => m.ss.value = Tokens(q.items[k].value, r)
  <2> HAVE Piece(m.ss.value, text, b[k] + 4, p - 1)
  <2>1. b[k] + 4 = at + 4 /\ p - 1 = at + 4 + size
    BY <1>4, <1>5
  <2>2. Piece(m.ss.value, text, at + 4, at + 4 + size)
    BY <2>1
  <2>3. PICK v \in Seq(Units) : v = m.ss.value
    BY <1>7
  <2>4. Piece(v, text, at + 4, at + 4 + size)
    BY <2>2, <2>3
  <2>5. PICK from \in Nat, to \in Nat : from = at + 4 /\ to = at + 4 + size
    OBVIOUS
  <2>6. Piece(v, text, from, to)
    BY <2>4, <2>5
  <2>7. Holds(v, q, r, k)
    BY <1>3, <2>5, <2>6, WholeBlock
  <2> QED
    BY <2>3, <2>7 DEF Holds
<1>10. /\ ~next.done /\ next.cur = m.cur /\ next.ss.state = "FIND_DATA_BLOCK"
       /\ next.rd.fields = IF m.ss.type = "DATA" THEN Append(m.rd.fields, Field(m.ss.name, m.ss.value))
                           ELSE m.rd.fields
       /\ next.rd.files = IF m.ss.type = "FILE"
                          THEN Append(m.rd.files, FileIncoming(m.ss.name, m.ss.value, m.ss.tmp, m.ss.good))
                          ELSE m.rd.files
  BY SaveDataBlockIs
<1>11. /\ Expected(q, r)[k].name = Tokens(<<q.items[k].kind>>, r)
       /\ Expected(q, r)[k].value = Tokens(q.items[k].value, r)
       /\ Expected(q, r)[k] = Field(Tokens(<<q.items[k].kind>>, r), Tokens(q.items[k].value, r))
  BY <1>1, <1>4, ExpectedPart
<1>12. PICK j \in Nat : j = k - 1 /\ j + 1 = k
  OBVIOUS
<1>13. PartsArrived(q, r, k, next.rd.fields, next.rd.files)
  <2>1. CASE q.items[k].kind = "part" /\ m.ss.type = "DATA" /\ Piece(m.ss.value, text, b[k] + 4, p - 1)
    <3>1. PICK x : x = Field(m.ss.name, m.ss.value)
      OBVIOUS
    <3>2. x \in [name : Seq(Units), value : Seq(Units)]
      BY <1>7, <3>1 DEF Field
    <3>3. x = Expected(q, r)[j + 1]
      BY <1>8, <1>9, <1>11, <1>12, <2>1, <3>1
    <3>4. PartsArrived(q, r, j, m.rd.fields, m.rd.files) /\ q.items[j + 1].kind = "part"
      BY <1>8, <1>12, <2>1
    <3>5. PartsArrived(q, r, j + 1, Append(m.rd.fields, x), m.rd.files)
      BY <1>7, <3>2, <3>3, <3>4, FieldArrives
    <3>6. next.rd.fields = Append(m.rd.fields, x) /\ next.rd.files = m.rd.files
      BY <1>10, <2>1, <3>1
    <3> QED
      BY <1>12, <3>5, <3>6
  <2>2. CASE /\ q.items[k].kind = "file" /\ m.ss.type = "FILE"
             /\ (m.ss.good => Piece(m.ss.value, text, b[k] + 4, p - 1))
    <3>1. PICK x : x = FileIncoming(m.ss.name, m.ss.value, m.ss.tmp, m.ss.good)
      OBVIOUS
    <3>2. /\ x \in [name : Seq(Units), value : Seq(Units), tmp : Nat, good : BOOLEAN]
          /\ x.name = m.ss.name /\ x.value = m.ss.value /\ x.good = m.ss.good
      BY <1>7, <3>1 DEF FileIncoming
    <3>3. /\ x.name = Expected(q, r)[j + 1].name
          /\ x.good => x.value = Expected(q, r)[j + 1].value
      BY <1>8, <1>9, <1>11, <1>12, <2>2, <3>2
    <3>4. PartsArrived(q, r, j, m.rd.fields, m.rd.files) /\ q.items[j + 1].kind = "file"
      BY <1>8, <1>12, <2>2
    <3>5. PartsArrived(q, r, j + 1, m.rd.fields, Append(m.rd.files, x))
      BY <1>7, <3>2, <3>3, <3>4, FileArrives
    <3>6. next.rd.fields = m.rd.fields /\ next.rd.files = Append(m.rd.files, x)
      BY <1>10, <2>2, <3>1
    <3> QED
      BY <1>12, <3>5, <3>6
  <2> QED
    BY <1>8, <2>1, <2>2
<1>14. base + next.cur = b[k + 1] - 1
  BY <1>2, <1>10
<1>15. Where(text, q, r, n, b, base + next.cur, top, next.ss, next.rd)
  BY <1>10, <1>13, <1>14 DEF Where
<1> QED
  BY <1>10, <1>15 DEF Stored

\* FIND_DATA_BLOCK keeps the parser at its place in the body.
LEMMA StoredFindDataBlock ==
  ASSUME NEW text \in Seq(Units), NEW q, NEW r \in Nat, NEW n \in Nat, NEW b, NEW buf \in Seq(Units),
         NEW base \in Nat, NEW top \in Nat, NEW d,
         Chunk(text, q, r, n, b, buf, base, top, d),
         NEW m, Working(buf, d, m), m.ss.state = "FIND_DATA_BLOCK",
         Where(text, q, r, n, b, base + m.cur, top, m.ss, m.rd),
         NEW next, next = FindDataBlock(buf, d, m)
  PROVE  Stored(text, q, r, n, b, base, top, buf, d, next)
<1>1. q \in Requests /\ Laid(text, q, r, n, b)
  BY DEF Chunk
<1>2. PICK len \in Nat, size \in Nat : Sized(text, buf, base, top, d, len, size)
  BY ChunkSized
<1>3. /\ len = Len(buf) /\ size = Len(text) /\ base + len = top /\ top <= size
      /\ (Complete(d) <=> top = size) /\ \A i \in 1 .. len : buf[i] = text[base + i]
  BY <1>2 DEF Sized
<1>4. PICK k \in 1 .. n : base + m.cur = b[k + 1] - 1 /\ PartsArrived(q, r, k, m.rd.fields, m.rd.files)
  BY DEF Where
<1>5. PICK at \in Nat, value \in Nat : Placed(text, q, r, n, b, k, at, value)
  BY <1>1, PartPlaces
<1>6. /\ at = b[k] /\ b[k + 1] = at + value + 6 /\ at + value + 8 <= size
  BY <1>3, <1>5 DEF Placed
<1>7. /\ text[at + value + 7].t = (IF k = n THEN "fin" ELSE "nl")
      /\ k = n => text[at + value + 8].t = "nl" /\ at + value + 8 = Len(text)
  BY <1>5, Zenon DEF Placed
<1>8. PICK cur \in Nat \ {0} : cur = m.cur /\ cur <= len + 1
  BY <1>3 DEF Working, Running, Loops
<1>9. base + cur = at + value + 5
  <2>1. base + cur = (at + value + 6) - 1
    BY <1>4, <1>6, <1>8
  <2> QED
    BY <2>1
<1>10. base + len = top /\ top <= size /\ at + value + 8 <= size
  BY <1>3, <1>6
<1>11. \/ len - cur + 1 < 4 /\ Stops(m, next, ~Complete(d), len - cur + 1)
       \/ /\ len - cur + 1 >= 4 /\ buf[cur + 2].t = "fin" /\ Stops(m, next, Complete(d), (len - cur + 1) - 4)
       \/ /\ len - cur + 1 >= 4 /\ ~(buf[cur + 2].t = "fin" /\ buf[cur + 3].t = "nl")
          /\ Goes(m, next, cur + 3, "GET_DATA_BLOCK_TYPE")
  BY <1>3, <1>8, FindDataBlockIs
<1>12. m.ss.state # "COPY_DATA_BLOCK"
  OBVIOUS
<1>13. ASSUME len - cur + 1 >= 4
       PROVE  /\ buf[cur + 2] = text[at + value + 7] /\ buf[cur + 3] = text[at + value + 8]
              /\ at + value + 8 <= top
  <2>0. len - cur + 1 >= 4
    BY <1>13
  <2>1. /\ cur + 2 \in 1 .. len /\ cur + 3 \in 1 .. len
        /\ base + (cur + 2) = at + value + 7 /\ base + (cur + 3) = at + value + 8
    BY <1>9, <2>0
  <2>2. at + value + 8 <= top
    BY <1>10, <2>1
  <2> QED
    BY <1>3, <2>1, <2>2
<1>14. CASE len - cur + 1 < 4 /\ Stops(m, next, ~Complete(d), len - cur + 1)
  <2>0. len - cur + 1 < 4
    BY <1>14
  <2>1. top # size
    BY <1>9, <1>10, <2>0
  <2>2. ~Complete(d)
    BY <1>3, <2>1
  <2>3. len - cur + 1 \in 0 .. len /\ top - (len - cur + 1) + 1 = base + cur
    <3>1. cur <= len + 1 /\ cur >= 1
      BY <1>8
    <3> QED
      BY <1>10, <3>1
  <2>4. len - cur + 1 \in 0 .. Len(buf)
    BY <1>3, <2>3
  <2>5. Where(text, q, r, n, b, top - (len - cur + 1) + 1, top, m.ss, m.rd)
    BY <1>8, <2>3
  <2> QED
    BY <1>12, <1>14, <2>2, <2>4, <2>5, StopIsStored
<1>15. CASE /\ len - cur + 1 >= 4 /\ buf[cur + 2].t = "fin" /\ Stops(m, next, Complete(d), (len - cur + 1) - 4)
  <2>1. k = n
    BY <1>7, <1>13, <1>15
  <2>2. at + value + 8 = size
    BY <1>3, <1>7, <2>1
  <2>3. top = size
    BY <1>10, <1>13, <1>15, <2>2
  <2>4. Complete(d)
    BY <1>3, <2>3
  <2>5. PartsArrived(q, r, n, m.rd.fields, m.rd.files)
    BY <1>4, <2>1
  <2> QED
    BY <1>12, <1>15, <2>4, <2>5, StopIsStored
<1>16. CASE /\ len - cur + 1 >= 4 /\ ~(buf[cur + 2].t = "fin" /\ buf[cur + 3].t = "nl")
            /\ Goes(m, next, cur + 3, "GET_DATA_BLOCK_TYPE")
  <2>1. k # n
    BY <1>7, <1>13, <1>16
  <2>2. PICK l \in 1 .. n : l = k + 1 /\ l - 1 = k
    BY <2>1
  <2>3. /\ ~next.done /\ next.cur = cur + 3 /\ next.ss.state = "GET_DATA_BLOCK_TYPE" /\ next.rd = m.rd
    BY <1>16 DEF Goes
  <2>4. base + next.cur = b[l] + 2
    <3>1. base + (cur + 3) = (at + value + 6) + 2
      BY <1>9
    <3>2. b[l] = at + value + 6
      BY <1>6, <2>2
    <3>3. next.cur = cur + 3
      BY <2>3
    <3> QED
      BY <3>1, <3>2, <3>3
  <2>5. PartsArrived(q, r, l - 1, next.rd.fields, next.rd.files)
    BY <1>4, <2>2, <2>3
  <2>6. Where(text, q, r, n, b, base + next.cur, top, next.ss, next.rd)
    BY <2>3, <2>4, <2>5 DEF Where
  <2> QED
    BY <2>3, <2>6 DEF Stored
<1> QED
  BY <1>11, <1>14, <1>15, <1>16, Zenon

\* What was stored is not changed by the reset of the fall.
LEMMA StoredTurn ==
  ASSUME NEW text \in Seq(Units), NEW q, NEW r \in Nat, NEW n \in Nat, NEW b, NEW buf \in Seq(Units),
         NEW base \in Nat, NEW top \in Nat, NEW d,
         Chunk(text, q, r, n, b, buf, base, top, d), NEW m, LoopInv(buf, d, m), ~Over(buf, m),
         Stored(text, q, r, n, b, base, top, buf, d, m), NEW canOpen,
         NEW next, next = Turn(buf, d, [m EXCEPT !.falls = FALSE], canOpen)
  PROVE  Stored(text, q, r, n, b, base, top, buf, d, next)
<1>1. PICK t : t = [m EXCEPT !.falls = FALSE]
  OBVIOUS
<1>2. m \in Loops /\ ~m.done /\ Running(buf, d, m) /\ Numbered(m.rd, m.ss)
  BY DEF LoopInv, Over
<1>3. /\ t \in Loops /\ ~t.falls /\ t.cur = m.cur /\ t.ss = m.ss /\ t.rd = m.rd /\ t.left = m.left
      /\ ~t.done /\ (t.ok <=> m.ok) /\ (t.dies <=> m.dies)
  BY <1>1, <1>2 DEF Loops
<1>4. Len(buf) \in Nat /\ Len(buf) >= 1
  BY <1>2, LenProperties DEF Over, Running
<1>5. t.ok = ~Complete(d)
  <2>1. t.ok \in BOOLEAN /\ (t.ok <=> ~Complete(d))
    BY <1>2, <1>3 DEF Running, Loops
  <2> QED
    BY <2>1 DEF Complete
<1>6. Working(buf, d, t)
  BY <1>2, <1>3, <1>4, <1>5 DEF Working, Running
<1>7. Where(text, q, r, n, b, base + t.cur, top, t.ss, t.rd)
  <2>1. Where(text, q, r, n, b, base + m.cur, top, m.ss, m.rd)
    BY <1>2, Zenon DEF Stored
  <2> QED
    BY <1>3, <2>1
<1>8. t.ss.state = "COPY_DATA_BLOCK" => Len(buf) >= 2
  BY <1>2, <1>3 DEF Stored
<1>9. next = Turn(buf, d, t, canOpen)
  BY <1>1
<1>10. t.ss.state \in {"INITIALIZATION", "FIND_DATA_BLOCK", "GET_DATA_BLOCK_TYPE", "COPY_DATA_BLOCK",
                       "SAVE_DATA_BLOCK"}
  BY <1>3 DEF Loops, MultipartStates
<1>11. CASE t.ss.state = "INITIALIZATION"
  <2>1. next = Initialization(buf, d, t)
    BY <1>9, <1>11 DEF Turn
  <2> QED
    BY <1>6, <1>7, <1>11, <2>1, StoredInitialization
<1>12. CASE t.ss.state = "FIND_DATA_BLOCK"
  <2>1. next = FindDataBlock(buf, d, t)
    BY <1>9, <1>12 DEF Turn
  <2> QED
    BY <1>6, <1>7, <1>12, <2>1, StoredFindDataBlock
<1>13. CASE t.ss.state = "GET_DATA_BLOCK_TYPE"
  <2>1. next = GetDataBlockType(buf, d, t, canOpen)
    BY <1>9, <1>13 DEF Turn
  <2> QED
    BY <1>6, <1>7, <1>13, <2>1, StoredGetDataBlockType
<1>14. CASE t.ss.state = "COPY_DATA_BLOCK"
  <2>1. next = CopyDataBlock(buf, d, t)
    BY <1>9, <1>14 DEF Turn
  <2> QED
    BY <1>6, <1>7, <1>8, <1>14, <2>1, StoredCopyDataBlock
<1>15. CASE t.ss.state = "SAVE_DATA_BLOCK"
  <2>1. next = SaveDataBlock(t)
    BY <1>9, <1>15 DEF Turn
  <2> QED
    BY <1>6, <1>7, <1>15, <2>1, StoredSaveDataBlock
<1> QED
  BY <1>10, <1>11, <1>12, <1>13, <1>14, <1>15, Zenon

\* What a call of parse makes of a chunk: between two chunks it stands at the first unit that it
\* left over; behind the last, all parts have arrived, or the body was refused for a file that
\* could not be opened, a part without a name, or a request without a boundary.
ChunkParsed(text, q, r, n, b, top, buf, d, got) ==
  /\ got.ok /\ ~Complete(d) =>
       /\ got.dr.left \in 0 .. Len(buf)
       /\ Where(text, q, r, n, b, top - got.dr.left + 1, top, got.dr.ss, got.rd)
       /\ got.dr.ss.state = "COPY_DATA_BLOCK" => got.dr.left = 2
  /\ got.ok /\ Complete(d) => PartsArrived(q, r, n, got.rd.fields, got.rd.files)
  /\ ~got.ok /\ ~got.dies /\ Complete(d) => Refusable(q, n)

\* A place behind the body is none where the parser can stand.
LEMMA NowhereBehind ==
  ASSUME NEW text \in Seq(Units), NEW q, NEW r, NEW n \in Nat, NEW b, Laid(text, q, r, n, b),
         NEW p \in Nat, p = Len(text) + 1, NEW top, NEW ss \in MultipartStates, NEW data,
         ss.state # "COPY_DATA_BLOCK"
  PROVE  ~Where(text, q, r, n, b, p, top, ss, data)
<1>1. /\ b \in [1 .. n + 1 -> Nat]
      /\ \A k \in 1 .. n + 1 : b[k] >= 1 /\ b[k] <= b[n + 1]
      /\ Len(text) = b[n + 1] + 2
  BY DEF Laid
<1>2. PICK last \in Nat : last = b[n + 1] /\ last >= 1
  BY <1>1
<1>3. p = last + 3
  BY <1>1, <1>2
<1>4. \A k \in 1 .. n + 1 : b[k] \in Nat /\ b[k] <= last
  BY <1>1, <1>2
<1>5. ss.state \in {"INITIALIZATION", "FIND_DATA_BLOCK", "GET_DATA_BLOCK_TYPE", "COPY_DATA_BLOCK",
                    "SAVE_DATA_BLOCK"}
  BY DEF MultipartStates
<1>6. p # 1
  BY <1>2, <1>3
<1>7. \A k \in 1 .. n : p # b[k] + 2 /\ p # b[k + 1] - 1
  <2> SUFFICES ASSUME NEW k \in 1 .. n PROVE p # b[k] + 2 /\ p # b[k + 1] - 1
    OBVIOUS
  <2>1. PICK x \in Nat, y \in Nat : x = b[k] /\ y = b[k + 1] /\ x <= last /\ y <= last
    BY <1>4
  <2> QED
    BY <1>3, <2>1
<1> QED
  BY <1>5, <1>6, <1>7, Zenon DEF Where

\* The end of the loop: the next chunk begins at the place where the parser stopped.
LEMMA StoredOver ==
  ASSUME NEW text \in Seq(Units), NEW q, NEW r \in Nat, NEW n \in Nat, NEW b, NEW buf \in Seq(Units),
         NEW base \in Nat, NEW top \in Nat, NEW d,
         Chunk(text, q, r, n, b, buf, base, top, d), NEW m, LoopInv(buf, d, m), Over(buf, m),
         Stored(text, q, r, n, b, base, top, buf, d, m), NEW got, got = ParsedFrom(d, m), "ss" \in DOMAIN d,
         "left" \in DOMAIN d
  PROVE  ChunkParsed(text, q, r, n, b, top, buf, d, got)
<1>1. /\ got.rd = m.rd /\ got.dr = [d EXCEPT !.left = m.left, !.ss = m.ss]
      /\ (got.ok <=> m.ok) /\ (got.dies <=> m.dies)
  BY DEF ParsedFrom
<1>2. got.dr.left = m.left /\ got.dr.ss = m.ss
  BY <1>1
<1>3. CASE m.done
  BY <1>1, <1>2, <1>3 DEF Stored, ChunkParsed, Refusable
<1>4. CASE ~m.done
  <2>1. PICK len \in Nat, size \in Nat : Sized(text, buf, base, top, d, len, size)
    BY ChunkSized
  <2>2. len = Len(buf) /\ size = Len(text) /\ base + len = top /\ (Complete(d) <=> top = size)
    BY <2>1 DEF Sized
  <2>3. m \in Loops /\ Running(buf, d, m) /\ m.cur > Len(buf) /\ ~m.falls
    BY <1>4 DEF LoopInv, Over
  <2>4. m.left = 0 /\ (m.ok <=> ~Complete(d)) /\ m.ss \in MultipartStates
    BY <2>3 DEF Running, Loops
  <2>5. m.cur = len + 1
    BY <2>2, <2>3 DEF Running
  <2>6. Where(text, q, r, n, b, base + m.cur, top, m.ss, m.rd)
    BY <1>4, Zenon DEF Stored
  <2>7. m.ss.state # "COPY_DATA_BLOCK"
    <3> SUFFICES ASSUME m.ss.state = "COPY_DATA_BLOCK" PROVE FALSE
      OBVIOUS
    <3>1. Len(buf) >= 2 /\ m.cur = 1
      BY <1>4, <2>3 DEF Stored
    <3> QED
      BY <2>2, <2>5, <3>1
  <2>8. base + m.cur = top + 1 /\ top - 0 + 1 = top + 1
    BY <2>2, <2>5
  <2>9. ~Complete(d)
    <3> SUFFICES ASSUME Complete(d) PROVE FALSE
      OBVIOUS
    <3>1. top + 1 = Len(text) + 1 /\ top + 1 \in Nat
      BY <2>2
    <3>2. Where(text, q, r, n, b, top + 1, top, m.ss, m.rd)
      BY <2>6, <2>8
    <3>3. Laid(text, q, r, n, b)
      BY DEF Chunk
    <3> QED
      BY <2>4, <2>7, <3>1, <3>2, <3>3, NowhereBehind
  <2>10. got.dr.left = 0 /\ got.dr.left \in 0 .. Len(buf)
    BY <1>2, <2>2, <2>4
  <2>11. Where(text, q, r, n, b, top - got.dr.left + 1, top, got.dr.ss, got.rd)
    BY <1>1, <1>2, <2>6, <2>8, <2>10
  <2> QED
    BY <1>2, <2>7, <2>9, <2>10, <2>11 DEF ChunkParsed
<1> QED
  BY <1>3, <1>4

\* A chunk of a body of parts, wherever the body is cut: what was stored of the body and where the
\* parser stands in it go together at every return of parse, so behind the last chunk every part
\* has arrived as it was sent, none passed over and none cut short.
THEOREM MultipartChunksJoin ==
  ASSUME NEW text \in Seq(Units), NEW q, NEW r \in Nat, NEW n \in Nat, NEW b, NEW buf \in Seq(Units),
         NEW base \in Nat, NEW top \in Nat, NEW d, NEW data,
         Chunk(text, q, r, n, b, buf, base, top, d), Parsable(buf, data, d),
         Where(text, q, r, n, b, base + 1, top, d.ss, data),
         d.ss.state = "COPY_DATA_BLOCK" => Len(buf) >= 2, NEW canOpen
  PROVE  ChunkParsed(text, q, r, n, b, top, buf, d, ParseMultipart(buf, data, d, canOpen))
<1> DEFINE turn == NextTurn(buf, d, canOpen)
           start == LoopStart(data, d)
           got == ParseMultipart(buf, data, d, canOpen)
<1>1. PICK f : /\ LoopUpTo(turn, start, f, Turns(buf))
               /\ \A k \in 0 .. Turns(buf) : LoopInv(buf, d, f[k])
               /\ Over(buf, f[Turns(buf)])
               /\ got = ParsedFrom(d, f[Turns(buf)])
  BY MultipartIsParsed, Zenon
<1>2. PICK last \in Nat : last = Turns(buf)
  BY LenProperties DEF Turns
<1>3. \A k \in 0 .. last : f[k] = IF k # 0 THEN turn[f[k - 1]] ELSE start
  BY <1>1, <1>2 DEF LoopUpTo
<1>4. \A m \in Loops : turn[m] = IF Over(buf, m) THEN m
                                 ELSE Turn(buf, d, [m EXCEPT !.falls = FALSE], canOpen)
  BY Zenon DEF NextTurn
<1>5. Stored(text, q, r, n, b, base, top, buf, d, start)
  <2>1. ~start.done /\ start.cur = 1 /\ start.ss = d.ss /\ start.rd = data
    BY DEF LoopStart
  <2> HIDE DEF start
  <2> QED
    BY <2>1 DEF Stored
<1> HIDE DEF turn, start, got
<1> DEFINE T == { k \in Nat : k \in 0 .. last => Stored(text, q, r, n, b, base, top, buf, d, f[k]) }
<1>6. 0 \in T
  BY <1>3, <1>5
<1>7. ASSUME NEW k \in T PROVE k + 1 \in T
  <2>0. k \in Nat /\ k + 1 \in Nat
    OBVIOUS
  <2> SUFFICES ASSUME k + 1 \in 0 .. last PROVE Stored(text, q, r, n, b, base, top, buf, d, f[k + 1])
    BY <2>0, Zenon
  <2>1. k \in 0 .. last /\ k + 1 # 0 /\ (k + 1) - 1 = k
    OBVIOUS
  <2>2. Stored(text, q, r, n, b, base, top, buf, d, f[k])
    BY <2>1, Zenon
  <2>3. f[k + 1] = turn[f[k]]
    BY <1>3, <2>1
  <2>4. LoopInv(buf, d, f[k]) /\ f[k] \in Loops
    BY <1>1, <1>2, <2>1 DEF LoopInv
  <2> HIDE DEF T
  <2>5. CASE Over(buf, f[k])
    <3>1. f[k + 1] = f[k]
      BY <1>4, <2>3, <2>4, <2>5
    <3> QED
      BY <2>2, <3>1
  <2>6. CASE ~Over(buf, f[k])
    <3>1. f[k + 1] = Turn(buf, d, [f[k] EXCEPT !.falls = FALSE], canOpen)
      BY <1>4, <2>3, <2>4, <2>6
    <3> QED
      BY <2>2, <2>4, <2>6, <3>1, StoredTurn
  <2> QED
    BY <2>5, <2>6
<1>8. T = Nat
  <2> HIDE DEF T
  <2>1. T \subseteq Nat
    BY DEF T
  <2> QED
    BY <1>6, <1>7, <2>1, NatSetInduction
<1>9. Stored(text, q, r, n, b, base, top, buf, d, f[last])
  <2>1. last \in T /\ last \in 0 .. last
    BY <1>8
  <2> QED
    BY <2>1, Zenon DEF T
<1> HIDE DEF T
<1>10. LoopInv(buf, d, f[last]) /\ Over(buf, f[last]) /\ got = ParsedFrom(d, f[last])
  BY <1>1, <1>2
<1>11. "ss" \in DOMAIN d /\ "left" \in DOMAIN d
  BY DEF Parsable, Receivers
<1>12. ChunkParsed(text, q, r, n, b, top, buf, d, got)
  BY <1>9, <1>10, <1>11, StoredOver
<1> QED
  BY <1>12 DEF got

-----------------------------------------------------------------------------
(* Where the pairs of a form stand in it                                    *)

\* Numbers that grow.
Grows(s, n) == s \in [1 .. n -> Nat] /\ \A i, j \in 1 .. n : i < j => s[i] < s[j]

\* The first k of numbers that grow are k numbers.
LEMMA FirstCounted ==
  ASSUME NEW n \in Nat, NEW s, Grows(s, n), NEW k \in 0 .. n
  PROVE  Cardinality({ s[i] : i \in 1 .. k }) = k
<1> DEFINE S == { s[i] : i \in 1 .. k }
           f == [i \in 1 .. k |-> s[i]]
<1>1. f \in [1 .. k -> S]
  OBVIOUS
<1>2. \A x, y \in 1 .. k : f[x] = f[y] => x = y
  <2> SUFFICES ASSUME NEW x \in 1 .. k, NEW y \in 1 .. k, x # y PROVE f[x] # f[y]
    OBVIOUS
  <2>1. x \in 1 .. n /\ y \in 1 .. n /\ x \in Nat /\ y \in Nat
    OBVIOUS
  <2>2. s[x] \in Nat /\ s[y] \in Nat
    BY <2>1 DEF Grows
  <2>3. x < y \/ y < x
    BY <2>1
  <2>4. s[x] < s[y] \/ s[y] < s[x]
    BY <2>1, <2>3 DEF Grows
  <2> QED
    BY <2>2, <2>4
<1>3. \A y \in S : \E x \in 1 .. k : f[x] = y
  OBVIOUS
<1>4. f \in Bijection(1 .. k, S)
  <2>1. f \in Injection(1 .. k, S)
    BY <1>1, <1>2 DEF Injection, IsInjective
  <2>2. f \in Surjection(1 .. k, S)
    BY <1>1, <1>3 DEF Surjection
  <2> QED
    BY <2>1, <2>2 DEF Bijection
<1>5. ExistsBijection(1 .. k, S)
  BY <1>4 DEF ExistsBijection
<1> HIDE DEF S, f
<1>6. Cardinality(S) = k
  BY <1>5, FS_CountingElements
<1> QED
  BY <1>6 DEF S

\* The k-th of a set of numbers.
Kth(S, k) == CHOOSE i \in S : Cardinality({ j \in S : j < i }) = k - 1

\* The k-th of numbers that grow is the k-th of their set.
LEMMA KthIs ==
  ASSUME NEW n \in Nat, NEW s, Grows(s, n), NEW S, S = { s[i] : i \in 1 .. n }, NEW k \in 1 .. n
  PROVE  Kth(S, k) = s[k]
<1>1. ASSUME NEW l \in 1 .. n
      PROVE  Cardinality({ j \in S : j < s[l] }) = l - 1
  <2>1. PICK m \in 0 .. n : m = l - 1
    OBVIOUS
  <2>2. ASSUME NEW i \in 1 .. n
        PROVE  s[i] < s[l] <=> i <= m
    <3>1. s[i] \in Nat /\ s[l] \in Nat
      BY DEF Grows
    <3>2. i < l => s[i] < s[l]
      BY DEF Grows
    <3>3. l < i => s[l] < s[i]
      BY DEF Grows
    <3>4. i \in Nat /\ l \in Nat
      OBVIOUS
    <3>5. CASE i < l
      BY <2>1, <3>2, <3>4, <3>5
    <3>6. CASE l <= i
      <4>1. s[l] <= s[i]
        BY <3>1, <3>3, <3>4, <3>6
      <4>2. ~(i <= m)
        BY <2>1, <3>4, <3>6
      <4> QED
        BY <3>1, <4>1, <4>2
    <3> QED
      BY <3>4, <3>5, <3>6
  <2>3. \A i \in Nat : i >= 1 /\ i <= m <=> i \in 1 .. m
    OBVIOUS
  <2>4. { j \in S : j < s[l] } = { s[i] : i \in 1 .. m }
    <3>1. ASSUME NEW j \in S, j < s[l] PROVE j \in { s[i] : i \in 1 .. m }
      <4>1. PICK i \in 1 .. n : j = s[i]
        OBVIOUS
      <4>2. i \in 1 .. m
        BY <2>2, <3>1, <4>1
      <4> QED
        BY <4>1, <4>2
    <3>2. ASSUME NEW i \in 1 .. m PROVE s[i] \in S /\ s[i] < s[l]
      <4>1. i \in 1 .. n /\ i <= m
        OBVIOUS
      <4> QED
        BY <2>2, <4>1
    <3> QED
      BY <3>1, <3>2
  <2>5. Cardinality({ s[i] : i \in 1 .. m }) = m
    BY FirstCounted
  <2> QED
    BY <2>1, <2>4, <2>5
<1>2. s[k] \in S
  OBVIOUS
<1>3. \A i \in S : Cardinality({ j \in S : j < i }) = k - 1 => i = s[k]
  <2> SUFFICES ASSUME NEW i \in S, Cardinality({ j \in S : j < i }) = k - 1 PROVE i = s[k]
    OBVIOUS
  <2>1. PICK l \in 1 .. n : i = s[l]
    OBVIOUS
  <2>2. l - 1 = k - 1
    BY <1>1, <2>1
  <2>3. l = k
    BY <2>2
  <2> QED
    BY <2>1, <2>3
<1>4. Cardinality({ j \in S : j < s[k] }) = k - 1
  BY <1>1
<1> QED
  BY <1>2, <1>3, <1>4, Zenon DEF Kth

\* The stops of a text, at its signs and behind it, and its pieces between them.
StopSet(buf, s, n) ==
  { i \in DOMAIN buf : buf[i].t = "amp" } \union { Len(buf) + 1 } = { s[i] : i \in 1 .. n }

PiecesAt(buf, s, n) ==
  Pieces(buf) = [k \in 1 .. n |-> SubSeq(buf, (IF k = 1 THEN 0 ELSE s[k - 1]) + 1, s[k] - 1)]

\* The pieces of a chunk, when it is known where its signs stand.
LEMMA PiecesAre ==
  ASSUME NEW buf, NEW n \in Nat, NEW s, Grows(s, n), StopSet(buf, s, n)
  PROVE  PiecesAt(buf, s, n)
<1> DEFINE stops == { i \in DOMAIN buf : buf[i].t = "amp" } \union { Len(buf) + 1 }
           stop(k) == IF k = 0 THEN 0 ELSE Kth(stops, k)
<1>1. Pieces(buf) = [k \in 1 .. Cardinality(stops) |-> SubSeq(buf, stop(k - 1) + 1, stop(k) - 1)]
  BY Zenon DEF Pieces, Kth
<1>2. stops = { s[i] : i \in 1 .. n }
  BY DEF StopSet
<1> HIDE DEF stops
<1>3. Cardinality(stops) = n
  <2>1. n \in 0 .. n
    OBVIOUS
  <2> QED
    BY <1>2, <2>1, FirstCounted
<1>4. \A k \in 1 .. n : Kth(stops, k) = s[k]
  BY <1>2, KthIs
<1>5. \A k \in 1 .. n : stop(k) = s[k]
  <2> TAKE k \in 1 .. n
  <2>1. k # 0
    OBVIOUS
  <2> QED
    BY <1>4, <2>1, Zenon
<1>6. \A k \in 1 .. n : stop(k - 1) = IF k = 1 THEN 0 ELSE s[k - 1]
  <2> TAKE k \in 1 .. n
  <2>1. CASE k = 1
    <3>1. k - 1 = 0
      BY <2>1
    <3> QED
      BY <2>1, <3>1
  <2>2. CASE k # 1
    <3>1. k - 1 \in 1 .. n
      BY <2>2
    <3> QED
      BY <1>5, <2>2, <3>1
  <2> QED
    BY <2>1, <2>2
<1> HIDE DEF stop
<1>7. Pieces(buf) = [k \in 1 .. n |-> SubSeq(buf, (IF k = 1 THEN 0 ELSE s[k - 1]) + 1, s[k] - 1)]
  BY <1>1, <1>3, <1>5, <1>6
<1> QED
  BY <1>7 DEF PiecesAt

\* Numbers grow when each is less than the next.
LEMMA StepsGrow ==
  ASSUME NEW n \in Nat, NEW s \in [1 .. n -> Nat],
         \A k \in 1 .. n : k + 1 <= n => s[k] < s[k + 1]
  PROVE  Grows(s, n)
<1> DEFINE T == { d \in Nat : \A i \in 1 .. n : i + (d + 1) <= n => s[i] < s[i + (d + 1)] }
<1>1. 0 \in T
  OBVIOUS
<1>2. ASSUME NEW d \in T PROVE d + 1 \in T
  <2>1. d \in Nat /\ d + 1 \in Nat
    OBVIOUS
  <2> SUFFICES ASSUME NEW i \in 1 .. n, i + ((d + 1) + 1) <= n PROVE s[i] < s[i + ((d + 1) + 1)]
    BY <2>1
  <2>2. PICK j \in 1 .. n : j = i + (d + 1) /\ j + 1 <= n /\ i + ((d + 1) + 1) = j + 1
    BY <2>1
  <2>3. s[i] < s[j] /\ s[j] < s[j + 1]
    BY <2>2
  <2>4. s[i] \in Nat /\ s[j] \in Nat /\ s[j + 1] \in Nat
    BY <2>2
  <2> HIDE DEF T
  <2>5. s[i] < s[j + 1]
    BY <2>3, <2>4
  <2> QED
    BY <2>2, <2>5
<1> HIDE DEF T
<1>3. T = Nat
  <2>1. T \subseteq Nat
    BY DEF T
  <2> QED
    BY <1>1, <1>2, <2>1, NatSetInduction
<1>4. ASSUME NEW i \in 1 .. n, NEW j \in 1 .. n, i < j PROVE s[i] < s[j]
  <2>1. PICK d \in Nat : d = j - i - 1 /\ i + (d + 1) = j
    BY <1>4
  <2>2. d \in T
    BY <1>3
  <2> QED
    BY <2>1, <2>2 DEF T
<1> QED
  BY <1>4 DEF Grows

\* The pairs of a form, the signs between them in front of all but the first.
Pairs(q) == [i \in DOMAIN q.items |-> IF i = 1 THEN PairText(q.items[i])
                                      ELSE <<"amp">> \o PairText(q.items[i])]
Gap(k) == IF k = 1 THEN 0 ELSE 1

\* The texts of the pairs of a form, one for each item, from none of them to all.
LEMMA PairsJoined ==
  ASSUME NEW q \in Requests, q.variant # "multipart"
  PROVE  \E n \in Nat :
           /\ n = Len(q.items) /\ DOMAIN q.items = 1 .. n
           /\ \A i \in 1 .. n : q.items[i] \in Items /\ Pairs(q)[i] \in Seq(Words)
           /\ Joined(Pairs(q), 0) = <<>> /\ Joined(Pairs(q), n) = BodyText(q)
<1>1. PICK n \in Nat : n = Len(q.items) /\ DOMAIN q.items = 1 .. n
  BY LenProperties DEF Requests
<1>2. \A i \in 1 .. n : q.items[i] \in Items
  BY <1>1, ElementOfSeq DEF Requests
<1>3. ASSUME NEW i \in 1 .. n PROVE Pairs(q)[i] \in Seq(Words)
  <2>1. PairText(q.items[i]) \in Seq(Words) /\ <<"amp">> \in Seq(Words)
    BY <1>2, PartTextTyped, SignsTyped DEF Texts
  <2>2. <<"amp">> \o PairText(q.items[i]) \in Seq(Words)
    BY <2>1, ConcatProperties
  <2> QED
    BY <1>1, <2>1, <2>2 DEF Pairs
<1>4. Pairs(q) = [i \in 1 .. n |-> Pairs(q)[i]]
  BY <1>1 DEF Pairs
<1>5. Joined(Pairs(q), 0) = <<>> /\ Joined(Pairs(q), n) = FlattenSeq(Pairs(q))
  BY <1>4, AllJoined
<1>6. FlattenSeq(Pairs(q)) = BodyText(q)
  BY DEF Pairs, BodyText
<1> QED
  BY <1>1, <1>2, <1>3, <1>5, <1>6

\* A pair stands behind one place and goes up to the sign in front of another.
PairAt(text, item, r, at, next) ==
  LET pair == PairText(item)
  IN  /\ next = at + Len(pair) + 1
      /\ \A j \in 1 .. Len(pair) : text[at + j] = [t |-> pair[j], r |-> r]

\* The words of one of the joined sequences.
LEMMA PairGap ==
  ASSUME NEW q \in Requests, NEW k \in DOMAIN q.items, q.items[k] \in Items
  PROVE  LET pair == PairText(q.items[k])
         IN  /\ Len(pair) \in Nat /\ Len(Pairs(q)[k]) = Gap(k) + Len(pair)
             /\ \A j \in 1 .. Len(pair) : Pairs(q)[k][Gap(k) + j] = pair[j]
             /\ k # 1 => Pairs(q)[k][1] = "amp"
<1>1. PICK pair \in Seq(Words) : pair = PairText(q.items[k]) /\ Len(pair) \in Nat
  BY PartTextTyped, LenProperties DEF Texts
<1>2. CASE k = 1
  <2>1. Pairs(q)[k] = pair /\ Gap(k) = 0
    BY <1>1, <1>2 DEF Pairs, Gap
  <2> QED
    BY <1>1, <1>2, <2>1
<1>3. CASE k # 1
  <2>1. Pairs(q)[k] = <<"amp">> \o pair /\ Gap(k) = 1
    BY <1>1, <1>3 DEF Pairs, Gap
  <2>2. PICK a \in Seq(Words) : a = <<"amp">> /\ Len(a) = 1 /\ a[1] = "amp"
    BY SignsTyped DEF Texts
  <2>3. PICK both : both = a \o pair
    OBVIOUS
  <2>4. /\ Len(both) = 1 + Len(pair)
        /\ \A i \in 1 .. 1 + Len(pair) : both[i] = IF i <= 1 THEN a[i] ELSE pair[i - 1]
    BY <1>1, <2>2, <2>3, ConcatProperties
  <2>5. both[1] = "amp"
    BY <1>1, <2>2, <2>4
  <2>6. ASSUME NEW j \in 1 .. Len(pair) PROVE both[1 + j] = pair[j]
    <3>1. 1 + j \in 1 .. 1 + Len(pair) /\ ~(1 + j <= 1) /\ (1 + j) - 1 = j
      BY <1>1
    <3> QED
      BY <2>4, <3>1
  <2> QED
    BY <1>1, <2>1, <2>2, <2>3, <2>4, <2>5, <2>6
<1> QED
  BY <1>2, <1>3

\* The pairs of a body, and the signs between them.
Paired(text, q, r, n, a) ==
  /\ n = Len(q.items) /\ DOMAIN q.items = 1 .. n /\ Grows(a, n + 1) /\ a[1] = 0
  /\ \A k \in 1 .. n : PairAt(text, q.items[k], r, a[k], a[k + 1]) /\ (k # 1 => text[a[k]].t = "amp")
  /\ Len(text) = IF n = 0 THEN 0 ELSE a[n + 1] - 1

\* The pairs of a form are found in its body at some places.
LEMMA PairedExists ==
  ASSUME NEW q \in Requests, q.variant # "multipart", NEW r \in Nat
  PROVE  \E n \in Nat : \E a : Paired(Tokens(BodyText(q), r), q, r, n, a)
<1>1. PICK n \in Nat :
        /\ n = Len(q.items) /\ DOMAIN q.items = 1 .. n
        /\ \A i \in 1 .. n : q.items[i] \in Items /\ Pairs(q)[i] \in Seq(Words)
        /\ Joined(Pairs(q), 0) = <<>> /\ Joined(Pairs(q), n) = BodyText(q)
  BY PairsJoined
<1>2. PICK g : g = Pairs(q)
  OBVIOUS
<1>3. PICK words \in Texts : words = BodyText(q) /\ words = Joined(g, n)
  BY <1>1, <1>2, BodyTyped
<1>4. PICK text \in Seq(Units), size \in Nat :
        /\ text = Tokens(BodyText(q), r) /\ Len(text) = size /\ Len(words) = size
        /\ \A i \in 1 .. size : text[i] = [t |-> words[i], r |-> r] /\ text[i].t = words[i]
  BY <1>3, TokenAt
<1>5. \A k \in Nat : k + 1 <= n =>
        /\ Len(Joined(g, k)) \in Nat /\ Len(g[k + 1]) \in Nat
        /\ Len(Joined(g, k + 1)) = Len(Joined(g, k)) + Len(g[k + 1])
        /\ Len(Joined(g, k)) + Len(g[k + 1]) <= size
        /\ \A i \in 1 .. Len(g[k + 1]) : words[Len(Joined(g, k)) + i] = g[k + 1][i]
  <2> TAKE k \in Nat
  <2> HAVE k + 1 <= n
  <2>1. \A i \in 1 .. n : g[i] \in Seq(Words)
    BY <1>1, <1>2
  <2> QED
    BY <1>3, <1>4, <2>1, JoinedAt
<1> DEFINE a == [k \in 1 .. n + 1 |-> Len(Joined(g, k - 1)) + Gap(k)]
<1>6. \A k \in 1 .. n + 1 : Len(Joined(g, k - 1)) \in Nat
  <2> TAKE k \in 1 .. n + 1
  <2>1. CASE k = n + 1
    BY <1>3, <1>4, <2>1
  <2>2. CASE k # n + 1
    <3>1. PICK j \in Nat : j = k - 1 /\ j + 1 <= n
      BY <2>2
    <3> QED
      BY <1>5, <3>1
  <2> QED
    BY <2>1, <2>2
<1>7. \A k \in 1 .. n + 1 : a[k] = Len(Joined(g, k - 1)) + Gap(k) /\ a[k] \in Nat /\ Gap(k) \in Nat
  BY <1>6 DEF Gap
<1>8. a \in [1 .. n + 1 -> Nat] /\ a[1] = 0
  <2>1. a[1] = 0
    BY <1>1, <1>2, <1>7 DEF Gap
  <2> QED
    BY <1>7, <2>1
<1> HIDE DEF a
<1>9. ASSUME NEW k \in 1 .. n
      PROVE  /\ PairAt(text, q.items[k], r, a[k], a[k + 1]) /\ (k # 1 => text[a[k]].t = "amp")
             /\ a[k] < a[k + 1]
  <2>1. k \in DOMAIN q.items /\ q.items[k] \in Items
    BY <1>1
  <2>12. PICK pair : pair = PairText(q.items[k])
    OBVIOUS
  <2>13. /\ Len(pair) \in Nat /\ Len(Pairs(q)[k]) = Gap(k) + Len(pair)
         /\ \A j \in 1 .. Len(pair) : Pairs(q)[k][Gap(k) + j] = pair[j]
         /\ k # 1 => Pairs(q)[k][1] = "amp"
    BY <2>1, <2>12, PairGap
  <2>14. PICK len \in Nat : len = Len(pair)
    BY <2>13
  <2>2. /\ len = Len(pair) /\ Len(g[k]) = Gap(k) + len
        /\ \A j \in 1 .. len : g[k][Gap(k) + j] = pair[j]
        /\ k # 1 => g[k][1] = "amp"
    BY <1>2, <2>13, <2>14
  <2>3. PICK j \in Nat : j = k - 1 /\ j + 1 = k /\ j + 1 <= n
    OBVIOUS
  <2>4. PICK at \in Nat : at = Len(Joined(g, j))
    BY <1>5, <2>3
  <2>5. PICK gap \in Nat : gap = Gap(k) /\ (k # 1 => gap = 1)
    BY DEF Gap
  <2>6. /\ Len(Joined(g, k)) = at + (gap + len) /\ at + (gap + len) <= size
        /\ \A i \in 1 .. gap + len : words[at + i] = g[k][i]
    <3>1. /\ Len(Joined(g, j + 1)) = Len(Joined(g, j)) + Len(g[j + 1])
          /\ Len(Joined(g, j)) + Len(g[j + 1]) <= size
          /\ \A i \in 1 .. Len(g[j + 1]) : words[Len(Joined(g, j)) + i] = g[j + 1][i]
      BY <1>5, <2>3
    <3>2. j + 1 = k /\ Len(g[k]) = gap + len
      BY <2>2, <2>3, <2>5
    <3> QED
      BY <2>4, <3>1, <3>2
  <2>7. a[k] = at + gap /\ a[k + 1] = (at + gap) + len + 1
    <3>1. a[k] = at + gap
      BY <1>7, <2>3, <2>4, <2>5
    <3>2. k + 1 \in 1 .. n + 1 /\ (k + 1) - 1 = k /\ Gap(k + 1) = 1
      BY DEF Gap
    <3>3. a[k + 1] = (at + (gap + len)) + 1
      BY <1>7, <2>6, <3>2
    <3> QED
      BY <3>1, <3>3
  <2>8. ASSUME NEW i \in 1 .. len
        PROVE  text[(at + gap) + i] = [t |-> pair[i], r |-> r]
    <3>1. gap + i \in 1 .. gap + len /\ at + (gap + i) = (at + gap) + i /\ (at + gap) + i \in 1 .. size
      BY <2>6
    <3>2. words[(at + gap) + i] = pair[i]
      BY <2>2, <2>5, <2>6, <3>1
    <3> QED
      BY <1>4, <3>1, <3>2
  <2>9. ASSUME k # 1 PROVE text[at + gap].t = "amp"
    <3>1. gap = 1 /\ 1 \in 1 .. gap + len /\ at + 1 \in 1 .. size
      BY <2>5, <2>6, <2>9
    <3>2. words[at + 1] = "amp"
      BY <2>2, <2>6, <2>9, <3>1
    <3> QED
      BY <1>4, <3>1, <3>2
  <2>10. a[k] < a[k + 1]
    BY <2>7
  <2> QED
    BY <2>2, <2>7, <2>8, <2>9, <2>10, <2>12 DEF PairAt
<1>10. Grows(a, n + 1)
  <2>1. \A k \in 1 .. n + 1 : k + 1 <= n + 1 => a[k] < a[k + 1]
    BY <1>9
  <2> QED
    BY <1>8, <2>1, StepsGrow
<1>11. Len(text) = IF n = 0 THEN 0 ELSE a[n + 1] - 1
  <2>1. size = Len(Joined(g, n))
    BY <1>3, <1>4
  <2>2. CASE n = 0
    BY <1>1, <1>2, <1>4, <2>1, <2>2
  <2>3. CASE n # 0
    <3>1. n + 1 \in 1 .. n + 1 /\ (n + 1) - 1 = n /\ Gap(n + 1) = 1
      BY <2>3 DEF Gap
    <3>2. a[n + 1] = size + 1
      BY <1>7, <2>1, <3>1
    <3> QED
      BY <1>4, <2>3, <3>2
  <2> QED
    BY <2>2, <2>3
<1>12. Paired(text, q, r, n, a)
  BY <1>1, <1>8, <1>9, <1>10, <1>11 DEF Paired
<1> QED
  BY <1>4, <1>12

\* The signs of a form that is escaped stand between its pairs and behind the names.
SignFree(item) ==
  /\ \A j \in 1 .. Len(PairText(item)) : PairText(item)[j] # "amp"
  /\ \A j \in 1 .. Len(item.name) : item.name[j] # "eq"

\* The names and the values of a form whose signs are escaped have none.
LEMMA EscapedSigns ==
  ASSUME NEW q, q.variant # "multipart", Escaped(q), NEW k \in DOMAIN q.items, q.items[k] \in Items
  PROVE  SignFree(q.items[k])
<1>1. PICK item \in Items : item = q.items[k]
  OBVIOUS
<1>2. /\ ToSet(item.name) \intersect {"amp", "eq"} = {} /\ "amp" \notin ToSet(item.value)
  BY <1>1 DEF Escaped
<1>3. PICK name \in Nat, size \in Nat, pair \in Texts :
        /\ name = Len(item.name) /\ size = Len(item.value) /\ pair = PairText(item)
        /\ Len(pair) = name + 1 + size
        /\ \A j \in 1 .. name : pair[j] = item.name[j]
        /\ pair[name + 1] = "eq"
        /\ \A j \in 1 .. size : pair[name + 1 + j] = item.value[j]
  <2>1. PICK pair, name, size : pair = PairText(item) /\ name = Len(item.name) /\ size = Len(item.value)
    OBVIOUS
  <2>2. /\ name \in Nat /\ size \in Nat /\ Len(pair) = name + 1 + size
        /\ \A j \in 1 .. name : pair[j] = item.name[j]
        /\ pair[name + 1] = "eq"
        /\ \A j \in 1 .. size : pair[name + 1 + j] = item.value[j]
    BY <2>1, PairWords
  <2>3. pair \in Texts
    BY <2>1, PartTextTyped
  <2> QED
    BY <2>1, <2>2, <2>3
<1>4. DOMAIN item.name = 1 .. name /\ DOMAIN item.value = 1 .. size
  BY <1>3, LenProperties DEF Items, Texts
<1>5. \A j \in 1 .. name : item.name[j] # "amp" /\ item.name[j] # "eq"
  <2> TAKE j \in 1 .. name
  <2>1. item.name[j] \in ToSet(item.name)
    BY <1>4 DEF ToSet
  <2> QED
    BY <1>2, <2>1
<1>6. \A j \in 1 .. size : item.value[j] # "amp"
  BY <1>2, <1>4 DEF ToSet
<1>7. ASSUME NEW j \in 1 .. name + 1 + size PROVE pair[j] # "amp"
  <2>1. CASE j <= name
    <3>1. j \in 1 .. name
      BY <2>1
    <3> QED
      BY <1>3, <1>5, <3>1
  <2>2. CASE j = name + 1
    BY <1>3, <2>2
  <2>3. CASE j > name + 1
    <3>1. PICK i \in 1 .. size : j = name + 1 + i
      <4>1. j - (name + 1) \in 1 .. size /\ j = name + 1 + (j - (name + 1))
        BY <2>3
      <4> QED
        BY <4>1
    <3> QED
      BY <1>3, <1>6, <3>1
  <2> QED
    BY <2>1, <2>2, <2>3
<1> QED
  BY <1>1, <1>3, <1>5, <1>7 DEF SignFree

\* What PieceField takes for a name and for a value.
Splits(piece, name, value) ==
  LET delimiter == Find(piece, <<"eq">>, 1)
  IN  /\ delimiter # NotFound /\ SubSeq(piece, 1, delimiter - 1) = name
      /\ From(piece, delimiter + 1) = value

\* A pair is split at its sign into its name and its value.
LEMMA PairSplits ==
  ASSUME NEW item \in Items, NEW r \in Nat, SignFree(item), NEW piece,
         piece = Tokens(PairText(item), r)
  PROVE  Splits(piece, Tokens(item.name, r), Tokens(item.value, r))
<1>1. PICK name \in Nat, size \in Nat, pair \in Texts :
        /\ name = Len(item.name) /\ size = Len(item.value) /\ pair = PairText(item)
        /\ Len(pair) = name + 1 + size
        /\ \A j \in 1 .. name : pair[j] = item.name[j]
        /\ pair[name + 1] = "eq"
        /\ \A j \in 1 .. size : pair[name + 1 + j] = item.value[j]
  <2>1. PICK pair, name, size : pair = PairText(item) /\ name = Len(item.name) /\ size = Len(item.value)
    OBVIOUS
  <2>2. /\ name \in Nat /\ size \in Nat /\ Len(pair) = name + 1 + size
        /\ \A j \in 1 .. name : pair[j] = item.name[j]
        /\ pair[name + 1] = "eq"
        /\ \A j \in 1 .. size : pair[name + 1 + j] = item.value[j]
    BY <2>1, PairWords
  <2>3. pair \in Texts
    BY <2>1, PartTextTyped
  <2> QED
    BY <2>1, <2>2, <2>3
<1>2. PICK total \in Nat : total = name + 1 + size
  OBVIOUS
<1>3. /\ piece \in Seq(Units) /\ Len(piece) = total
      /\ \A i \in 1 .. total : piece[i] = [t |-> pair[i], r |-> r] /\ piece[i].t = pair[i]
  <2>1. piece = Tokens(pair, r)
    BY <1>1
  <2>2. /\ piece \in Seq(Units) /\ Len(piece) = Len(pair)
        /\ \A i \in 1 .. Len(pair) : piece[i] = [t |-> pair[i], r |-> r] /\ piece[i].t = pair[i]
    BY <2>1, TokenAt
  <2>3. Len(pair) = total
    BY <1>1, <1>2
  <2> QED
    BY <2>2, <2>3
<1>4. item.name \in Texts /\ item.value \in Texts
  BY DEF Items
<1>5. PICK first \in Seq(Units) :
        /\ first = Tokens(item.name, r) /\ Len(first) = name
        /\ \A i \in 1 .. name : first[i] = [t |-> item.name[i], r |-> r]
  <2>1. PICK words, first : words \in Texts /\ words = item.name /\ first = Tokens(words, r)
    BY <1>4
  <2>2. /\ first \in Seq(Units) /\ Len(first) = Len(words)
        /\ \A i \in 1 .. Len(words) : first[i] = [t |-> words[i], r |-> r]
    BY <2>1, TokenAt
  <2> QED
    BY <1>1, <2>1, <2>2
<1>6. PICK second \in Seq(Units) :
        /\ second = Tokens(item.value, r) /\ Len(second) = size
        /\ \A i \in 1 .. size : second[i] = [t |-> item.value[i], r |-> r]
  <2>1. PICK words, second : words \in Texts /\ words = item.value /\ second = Tokens(words, r)
    BY <1>4
  <2>2. /\ second \in Seq(Units) /\ Len(second) = Len(words)
        /\ \A i \in 1 .. Len(words) : second[i] = [t |-> words[i], r |-> r]
    BY <2>1, TokenAt
  <2> QED
    BY <1>1, <2>1, <2>2
<1>7. Find(piece, <<"eq">>, 1) = name + 1
  <2>1. PICK sign : sign = <<"eq">> /\ Len(sign) = 1 /\ DOMAIN sign = {1} /\ sign[1] = "eq"
    <3>1. PICK sign \in Seq(Words) : sign = <<"eq">> /\ Len(sign) = 1 /\ sign[1] = "eq"
      BY SignsTyped DEF Texts
    <3>2. DOMAIN sign = 1 .. 1
      BY <3>1, LenProperties
    <3>3. DOMAIN sign = {1}
      BY <3>2
    <3> QED
      BY <3>1, <3>3
  <2>2. PICK places : places = { i \in 1 .. total - 1 + 1 : \A k \in {1} : piece[i + k - 1].t = "eq" }
    OBVIOUS
  <2>3. places = { i \in 1 .. total : piece[i].t = "eq" }
    <3>1. \A i \in 1 .. total : piece[i + 1 - 1] = piece[i]
      <4> TAKE i \in 1 .. total
      <4>1. i + 1 - 1 = i
        OBVIOUS
      <4> QED
        BY <4>1
    <3>2. total - 1 + 1 = total
      OBVIOUS
    <3>3. \A i \in 1 .. total : (\A k \in {1} : piece[i + k - 1].t = "eq") <=> piece[i].t = "eq"
      BY <3>1
    <3> QED
      BY <2>2, <3>2, <3>3
  <2>4. name + 1 \in places /\ \A i \in places : name + 1 <= i
    <3>1. name + 1 \in 1 .. total
      BY <1>2
    <3>2. name + 1 \in places
      BY <1>1, <1>3, <2>3, <3>1
    <3>3. ASSUME NEW i \in places PROVE name + 1 <= i
      <4>1. i \in 1 .. total /\ pair[i] = "eq"
        BY <1>3, <2>3
      <4>2. \A j \in 1 .. name : pair[j] # "eq"
        BY <1>1 DEF SignFree
      <4>3. i \notin 1 .. name
        BY <4>1, <4>2
      <4> QED
        BY <4>1, <4>3
    <3> QED
      BY <3>2, <3>3
  <2>5. places \subseteq Nat /\ places # {}
    BY <2>3, <2>4
  <2>6. Min(places) \in places /\ \A i \in places : Min(places) <= i
    BY <2>5, MinIs
  <2>7. Min(places) = name + 1
    <3>1. Min(places) \in Nat
      BY <2>5, <2>6
    <3> QED
      BY <2>4, <2>6, <3>1
  <2>8. Find(piece, sign, 1) = IF places = {} THEN NotFound ELSE Min(places)
    <3>1. places = { i \in 1 .. Len(piece) - Len(sign) + 1 : \A k \in DOMAIN sign : piece[i + k - 1].t = sign[k] }
      <4>1. Len(piece) = total /\ Len(sign) = 1
        BY <1>3, <2>1
      <4> QED
        BY <2>1, <2>2, <4>1
    <3> QED
      BY <3>1, Zenon DEF Find
  <2> QED
    BY <2>1, <2>5, <2>7, <2>8
<1>8. SubSeq(piece, 1, (name + 1) - 1) = first
  <2>1. name \in 0 .. Len(piece)
    BY <1>2, <1>3
  <2>2. /\ SubSeq(piece, 1, name) \in Seq(Units) /\ Len(SubSeq(piece, 1, name)) = name
        /\ \A i \in 1 .. name : SubSeq(piece, 1, name)[i] = piece[i]
    BY <1>3, <2>1, FirstTyped
  <2>3. \A i \in 1 .. name : piece[i] = first[i]
    <3> TAKE i \in 1 .. name
    <3>1. i \in 1 .. total
      BY <1>2
    <3> QED
      BY <1>1, <1>3, <1>5, <3>1
  <2>4. SubSeq(piece, 1, name) = first
    BY <1>5, <2>2, <2>3, SeqEqual
  <2>5. (name + 1) - 1 = name
    OBVIOUS
  <2> QED
    BY <2>4, <2>5
<1>9. From(piece, (name + 1) + 1) = second
  <2>1. PICK cur \in Nat \ {0} : cur = (name + 1) + 1 /\ total - cur + 1 = size
    BY <1>2
  <2>2. /\ From(piece, cur) \in Seq(Units)
        /\ Len(From(piece, cur)) = IF cur <= Len(piece) THEN Len(piece) - cur + 1 ELSE 0
        /\ \A i \in 1 .. Len(piece) - cur + 1 : From(piece, cur)[i] = piece[cur + i - 1]
    <3>1. piece \in Seq(Units)
      BY <1>3
    <3> QED
      BY <3>1, FromTyped
  <2>3. Len(From(piece, cur)) = size
    BY <1>2, <1>3, <2>1, <2>2
  <2>4. \A i \in 1 .. size : From(piece, cur)[i] = second[i]
    <3> TAKE i \in 1 .. size
    <3>1. /\ cur + i - 1 = name + 1 + i /\ name + 1 + i \in 1 .. total
          /\ i \in 1 .. total - cur + 1
      BY <1>2, <2>1
    <3>2. From(piece, cur)[i] = piece[name + 1 + i]
      BY <1>3, <2>2, <3>1
    <3>3. piece[name + 1 + i] = [t |-> item.value[i], r |-> r]
      BY <1>1, <1>3, <3>1
    <3> QED
      BY <1>6, <3>2, <3>3
  <2>5. From(piece, cur) = second
    BY <1>6, <2>2, <2>3, <2>4, SeqEqual
  <2> QED
    BY <2>1, <2>5
<1>10. name + 1 # NotFound
  BY DEF NotFound
<1> QED
  BY <1>5, <1>6, <1>7, <1>8, <1>9, <1>10 DEF Splits

\* A pair arrives as it is expected.
LEMMA FieldOfPair ==
  ASSUME NEW q, q.variant # "multipart", NEW r \in Nat, NEW k \in DOMAIN q.items, q.items[k] \in Items,
         SignFree(q.items[k]), NEW piece, piece = Tokens(PairText(q.items[k]), r)
  PROVE  /\ q.variant = "form" => PieceField(piece, UrlDecode) = Expected(q, r)[k]
         /\ q.variant # "form" => PieceField(piece, LAMBDA text : text) = Expected(q, r)[k]
<1>1. Splits(piece, Tokens(q.items[k].name, r), Tokens(q.items[k].value, r))
  BY PairSplits
<1>2. PieceField(piece, UrlDecode)
        = Field(UrlDecode(Tokens(q.items[k].name, r)), UrlDecode(Tokens(q.items[k].value, r)))
  BY <1>1, Zenon DEF Splits, PieceField
<1>3. PieceField(piece, LAMBDA text : text) = Field(Tokens(q.items[k].name, r), Tokens(q.items[k].value, r))
  BY <1>1, Zenon DEF Splits, PieceField
<1>4. Expected(q, r)[k] = IF q.variant = "form"
                          THEN Field(UrlDecode(Tokens(q.items[k].name, r)), UrlDecode(Tokens(q.items[k].value, r)))
                          ELSE Field(Tokens(q.items[k].name, r), Tokens(q.items[k].value, r))
  BY DEF Expected
<1> QED
  BY <1>2, <1>3, <1>4

\* What stands from a pair up to the next sign is the pair.
PairIs(piece, q, r, k) == piece = Tokens(PairText(q.items[k]), r)

\* The piece between two signs is the pair that stands there.
LEMMA PieceIsPair ==
  ASSUME NEW text \in Seq(Units), NEW q, NEW r \in Nat, NEW k, q.items[k] \in Items,
         NEW at \in Nat, NEW next \in Nat, PairAt(text, q.items[k], r, at, next),
         NEW piece \in Seq(Units), Piece(piece, text, at, next - 1)
  PROVE  PairIs(piece, q, r, k)
<1>1. PICK pair \in Texts : pair = PairText(q.items[k])
  BY PartTextTyped
<1>2. PICK len \in Nat : len = Len(pair)
  BY LenProperties DEF Texts
<1>3. next = at + len + 1 /\ \A j \in 1 .. len : text[at + j] = [t |-> pair[j], r |-> r]
  BY <1>1, <1>2 DEF PairAt
<1>4. PICK end \in Nat : end = next - 1 /\ end - at = len
  BY <1>3
<1>5. Len(piece) = len /\ \A i \in 1 .. len : piece[i] = text[at + i]
  <2>1. Piece(piece, text, at, end)
    BY <1>4
  <2> QED
    BY <1>4, <2>1 DEF Piece
<1>6. PICK sent \in Seq(Units) : sent = Tokens(pair, r) /\ Len(sent) = len
                                 /\ \A i \in 1 .. len : sent[i] = [t |-> pair[i], r |-> r]
  <2>1. PICK sent : sent = Tokens(pair, r)
    OBVIOUS
  <2>2. /\ sent \in Seq(Units) /\ Len(sent) = Len(pair)
        /\ \A i \in 1 .. Len(pair) : sent[i] = [t |-> pair[i], r |-> r]
    BY <2>1, TokenAt
  <2> QED
    BY <1>2, <2>1, <2>2
<1>7. \A i \in 1 .. len : piece[i] = sent[i]
  BY <1>3, <1>5, <1>6
<1>8. piece = sent
  BY <1>5, <1>6, <1>7, SeqEqual
<1> QED
  BY <1>1, <1>6, <1>8 DEF PairIs

\* The last of some numbers that is not behind a place.
Before1(a, n, l, p) == a[l] <= p /\ (l = n \/ p < a[l + 1])

\* The last pair that begins at or before a place.
LEMMA LastBefore ==
  ASSUME NEW n \in Nat, NEW a, Grows(a, n + 1), NEW k \in 1 .. n, NEW p \in Nat, a[k] <= p
  PROVE  \E l \in k .. n : Before1(a, n, l, p)
<1>1. PICK S : S = { l \in k .. n : l = n \/ p < a[l + 1] }
  OBVIOUS
<1>2. S \in SUBSET Nat /\ n \in S
  BY <1>1
<1>3. Min(S) \in S /\ \A i \in S : Min(S) <= i
  BY <1>2, MinIs
<1>4. PICK l \in k .. n : l = Min(S) /\ (l = n \/ p < a[l + 1])
  BY <1>1, <1>3
<1>5. a[l] <= p
  <2>1. CASE l = k
    BY <2>1
  <2>2. CASE l # k
    <3>1. PICK j \in k .. n : j = l - 1 /\ j + 1 = l /\ j < l /\ j # n
      BY <2>2
    <3>2. j \notin S
      BY <1>3, <1>4, <3>1
    <3>3. ~(p < a[j + 1])
      BY <1>1, <3>1, <3>2
    <3>4. a[l] \in Nat
      BY DEF Grows
    <3> QED
      BY <3>1, <3>3, <3>4
  <2> QED
    BY <2>1, <2>2
<1> QED
  BY <1>4, <1>5 DEF Before1

\* The pairs of a form and the numbers of their places.
LEMMA PairedTyped ==
  ASSUME NEW text, NEW q, NEW r, NEW n \in Nat, NEW a, Paired(text, q, r, n, a)
  PROVE  /\ \A k \in 1 .. n + 1 : a[k] \in Nat
         /\ \A i, j \in 1 .. n + 1 : i < j => a[i] < a[j]
         /\ a[1] = 0 /\ n = Len(q.items) /\ DOMAIN q.items = 1 .. n
         /\ n # 0 => Len(text) = a[n + 1] - 1
  BY DEF Paired, Grows

\* The pairs of a form that is escaped.
Signed(q, n) == \A i \in 1 .. n : q.items[i] \in Items /\ SignFree(q.items[i])

\* The signs of a body that is escaped are those between its pairs.
SignAt(a, k, n, p) == \E l \in k + 1 .. n : a[l] = p

\* A sign stands only in front of a pair.
LEMMA SignsBetween ==
  ASSUME NEW text \in Seq(Units), NEW q, NEW r \in Nat, NEW n \in Nat, NEW a, Paired(text, q, r, n, a),
         Signed(q, n),
         NEW k \in 1 .. n, NEW p \in Nat, a[k] < p, p <= Len(text), text[p].t = "amp"
  PROVE  SignAt(a, k, n, p)
<1>1. /\ \A i \in 1 .. n + 1 : a[i] \in Nat
      /\ Len(text) = a[n + 1] - 1
  BY PairedTyped
<1>2. PICK l \in k .. n : a[l] <= p /\ (l = n \/ p < a[l + 1])
  <2>1. Grows(a, n + 1)
    BY DEF Paired
  <2>2. a[k] <= p
    BY <1>1
  <2> QED
    BY <2>1, <2>2, LastBefore DEF Before1
<1>3. PICK from \in Nat, to \in Nat : from = a[l] /\ to = a[l + 1] /\ from <= p /\ p < to
  <2>1. PICK from \in Nat, to \in Nat : from = a[l] /\ to = a[l + 1]
    BY <1>1
  <2>2. p < to
    <3>1. CASE l = n
      <4>1. p <= to - 1
        BY <1>1, <2>1, <3>1
      <4> QED
        BY <4>1
    <3>2. CASE l # n
      BY <1>2, <2>1, <3>2
    <3> QED
      BY <3>1, <3>2
  <2> QED
    BY <1>2, <2>1, <2>2
<1>4. from = p
  <2> SUFFICES ASSUME from # p PROVE FALSE
    OBVIOUS
  <2>1. PICK pair \in Texts : pair = PairText(q.items[l])
    BY PartTextTyped DEF Signed
  <2>2. PICK len \in Nat : len = Len(pair)
    BY <2>1, LenProperties DEF Texts
  <2>3. to = from + len + 1 /\ \A j \in 1 .. len : text[from + j] = [t |-> pair[j], r |-> r]
    <3>1. PairAt(text, q.items[l], r, a[l], a[l + 1])
      BY DEF Paired
    <3> QED
      BY <1>3, <2>1, <2>2, <3>1 DEF PairAt
  <2>4. PICK j \in 1 .. len : from + j = p
    <3>1. to = from + len + 1
      BY <2>3
    <3>2. from <= p /\ p < to
      BY <1>3
    <3>3. p - from \in 1 .. len /\ from + (p - from) = p
      BY <3>1, <3>2
    <3> QED
      BY <3>3
  <2>5. pair[j] # "amp"
    BY <2>1, <2>2 DEF Signed, SignFree
  <2>6. text[p] = [t |-> pair[j], r |-> r]
    BY <2>3, <2>4
  <2>7. text[p].t = pair[j]
    BY <2>6
  <2> QED
    BY <2>5, <2>7
<1>5. l # k
  <2>1. a[l] = p
    BY <1>3, <1>4
  <2>2. a[k] # p
    BY <1>1
  <2> QED
    BY <2>1, <2>2
<1>6. l \in k + 1 .. n
  BY <1>5
<1> QED
  BY <1>3, <1>4, <1>6 DEF SignAt

\* The pieces of a chunk that begins with one pair and reaches another.
CutInto(text, q, r, n, a, buf, k, l, top) ==
  LET pieces == Pieces(buf)
  IN  /\ a[l] <= top /\ (top = Len(text) => l = n)
      /\ Len(pieces) = l - k + 1 /\ DOMAIN pieces = 1 .. l - k + 1
      /\ \A j \in 1 .. l - k : PairIs(pieces[j], q, r, k + j - 1)
      /\ Len(pieces[l - k + 1]) = top - a[l]
      /\ top = Len(text) => PairIs(pieces[l - k + 1], q, r, n)

\* Where the pieces of a chunk end: at the signs, and behind the last unit.
Ends(a, k, l, top, s) ==
  /\ DOMAIN s = 1 .. l - k + 1
  /\ \A j \in 1 .. l - k : s[j] = a[k + j] - a[k]
  /\ s[l - k + 1] = top - a[k] + 1

EndsOf(a, k, l, top) ==
  [j \in 1 .. l - k + 1 |-> IF j = l - k + 1 THEN top - a[k] + 1 ELSE a[k + j] - a[k]]

\* The ends of the pairs of a chunk, in their order.
LEMMA EndsGrow ==
  ASSUME NEW n \in Nat, NEW a, Grows(a, n + 1), NEW k \in 1 .. n, NEW l \in k .. n, NEW top \in Nat,
         a[l] <= top, NEW s, s = EndsOf(a, k, l, top)
  PROVE  Ends(a, k, l, top, s) /\ Grows(s, l - k + 1)
<1>1. PICK N \in Nat : N = l - k /\ k + N = l
  OBVIOUS
<1>2. \A i \in 1 .. n + 1 : a[i] \in Nat
  BY DEF Grows
<1>3. \A i, j \in 1 .. n + 1 : i < j => a[i] < a[j]
  BY DEF Grows
<1>4. PICK base \in Nat, last \in Nat : base = a[k] /\ last = a[l] /\ last <= top /\ base <= last
  <2>1. CASE k = l
    BY <1>2, <2>1
  <2>2. CASE k # l
    BY <1>2, <1>3, <2>2
  <2> QED
    BY <2>1, <2>2
<1>5. \A j \in 1 .. N : a[k + j] \in Nat /\ base < a[k + j] /\ a[k + j] <= last
  <2> TAKE j \in 1 .. N
  <2>1. k + j \in k + 1 .. l
    BY <1>1
  <2>2. CASE k + j = l
    BY <1>2, <1>3, <1>4, <2>1, <2>2
  <2>3. CASE k + j # l
    BY <1>2, <1>3, <1>4, <2>1, <2>3
  <2> QED
    BY <2>2, <2>3
<1>6. \A j \in 1 .. N + 1 : s[j] = IF j = N + 1 THEN top - base + 1 ELSE a[k + j] - base
  BY <1>1, <1>4 DEF EndsOf
<1>7. Ends(a, k, l, top, s)
  <2>1. DOMAIN s = 1 .. N + 1
    BY <1>1 DEF EndsOf
  <2> QED
    BY <1>1, <1>4, <1>6, <2>1 DEF Ends
<1>8. \A j \in 1 .. N + 1 : s[j] \in Nat
  <2> TAKE j \in 1 .. N + 1
  <2>1. CASE j = N + 1
    BY <1>4, <1>6, <2>1
  <2>2. CASE j # N + 1
    BY <1>5, <1>6, <2>2
  <2> QED
    BY <2>1, <2>2
<1>9. s \in [1 .. N + 1 -> Nat]
  <2>1. s = [j \in 1 .. N + 1 |-> s[j]]
    BY <1>1 DEF EndsOf
  <2> QED
    BY <1>8, <2>1
<1>10. ASSUME NEW j \in 1 .. N + 1, j + 1 <= N + 1 PROVE s[j] < s[j + 1]
  <2>1. j \in 1 .. N /\ j + 1 \in 1 .. N + 1
    BY <1>10
  <2>2. PICK x \in Nat : x = a[k + j] /\ base < x /\ x <= last /\ s[j] = x - base
    BY <1>5, <1>6, <2>1
  <2>3. CASE j = N
    <3>1. s[j + 1] = top - base + 1
      BY <1>6, <2>1, <2>3
    <3> QED
      BY <1>4, <2>2, <3>1
  <2>4. CASE j # N
    <3>1. j + 1 \in 1 .. N /\ k + (j + 1) \in 1 .. n + 1 /\ k + j \in 1 .. n + 1 /\ k + j < k + (j + 1)
      BY <1>1, <2>1, <2>4
    <3>2. PICK y \in Nat : y = a[k + (j + 1)] /\ x < y
      BY <1>2, <1>3, <2>2, <3>1
    <3>3. s[j + 1] = y - base
      BY <1>6, <2>1, <2>4, <3>2
    <3> QED
      BY <2>2, <3>2, <3>3
  <2> QED
    BY <2>3, <2>4
<1>11. Grows(s, N + 1)
  <2>1. PICK m \in Nat : m = N + 1
    OBVIOUS
  <2>2. s \in [1 .. m -> Nat] /\ \A j \in 1 .. m : j + 1 <= m => s[j] < s[j + 1]
    BY <1>9, <1>10, <2>1
  <2>3. Grows(s, m)
    BY <2>2, StepsGrow
  <2> QED
    BY <2>1, <2>3
<1> QED
  BY <1>1, <1>7, <1>11

\* The ends are where the signs of the chunk stand, and behind it.
LEMMA EndsAreStops ==
  ASSUME NEW text \in Seq(Units), NEW q, NEW r \in Nat, NEW n \in Nat, NEW a, Paired(text, q, r, n, a),
         Signed(q, n),
         NEW k \in 1 .. n, NEW l \in k .. n, NEW top \in Nat, top <= Len(text), Before1(a, n, l, top),
         NEW buf \in Seq(Units), NEW base \in Nat, base = a[k], Piece(buf, text, base, top),
         NEW s, Ends(a, k, l, top, s), NEW size, size = l - k + 1
  PROVE  StopSet(buf, s, size)
<1>1. PICK N \in Nat : N = l - k /\ k + N = l
  OBVIOUS
<1>2. /\ \A i \in 1 .. n + 1 : a[i] \in Nat
      /\ \A i, j \in 1 .. n + 1 : i < j => a[i] < a[j]
  BY PairedTyped
<1>3. PICK last \in Nat : last = a[l] /\ last <= top /\ (l = n \/ top < a[l + 1])
  BY <1>2 DEF Before1
<1>4. PICK len \in Nat : len = Len(buf) /\ base + len = top /\ DOMAIN buf = 1 .. len
  BY LenProperties DEF Piece
<1>5. \A i \in 1 .. len : buf[i] = text[base + i]
  <2>0. base + len = top
    BY <1>4
  <2>1. top - base = len
    BY <2>0
  <2> QED
    BY <2>1 DEF Piece
<1>6. s[N + 1] = len + 1 /\ \A j \in 1 .. N : s[j] = a[k + j] - base
  <2>1. \A j \in 1 .. l - k : s[j] = a[k + j] - a[k]
    BY DEF Ends
  <2>2. s[l - k + 1] = top - base + 1
    BY DEF Ends
  <2>0. base + len = top
    BY <1>4
  <2>3. top - base + 1 = len + 1
    BY <2>0
  <2> QED
    BY <1>1, <2>1, <2>2, <2>3
<1>7. ASSUME NEW i \in 1 .. len, buf[i].t = "amp" PROVE i \in { s[j] : j \in 1 .. N + 1 }
  <2>0. base + len = top
    BY <1>4
  <2>1. PICK p \in Nat : p = base + i /\ base < p /\ p <= top /\ p - base = i
    <3>0. PICK x \in Nat : x = i /\ 1 <= x /\ x <= len
      OBVIOUS
    <3>1. base + x \in Nat /\ base < base + x /\ (base + x) - base = x
      BY <3>0
    <3>2. base + x <= top
      BY <2>0, <3>0
    <3> QED
      BY <3>0, <3>1, <3>2
  <2>2. text[p].t = "amp"
    BY <1>5, <1>7, <2>1
  <2>3. PICK m \in k + 1 .. n : a[m] = p
    <3>1. PICK most \in Nat : most = Len(text)
      BY LenProperties
    <3>2. p <= most
      BY <2>1, <3>1
    <3>3. a[k] < p /\ p <= Len(text)
      BY <2>1, <3>1, <3>2
    <3>4. SignAt(a, k, n, p)
      BY <2>2, <3>3, SignsBetween
    <3> QED
      BY <3>4 DEF SignAt
  <2>4. m <= l
    <3> SUFFICES ASSUME m > l PROVE FALSE
      OBVIOUS
    <3>1. l # n /\ l + 1 \in 1 .. n + 1 /\ m \in 1 .. n + 1
      OBVIOUS
    <3>2. PICK x \in Nat : x = a[l + 1] /\ top < x
      BY <1>2, <1>3, <3>1
    <3>3. x <= p
      <4>1. CASE m = l + 1
        BY <2>3, <3>2, <4>1
      <4>2. CASE m # l + 1
        <5>1. a[l + 1] < a[m]
          BY <1>2, <3>1, <4>2
        <5> QED
          BY <2>3, <3>2, <5>1
      <4> QED
        BY <4>1, <4>2
    <3>4. p <= top
      BY <2>1
    <3> QED
      BY <3>2, <3>3, <3>4
  <2>5. PICK j \in 1 .. N : j = m - k /\ k + j = m
    BY <1>1, <2>4
  <2>6. s[j] = i
    BY <1>6, <2>1, <2>3, <2>5
  <2> QED
    BY <2>5, <2>6
<1>8. ASSUME NEW j \in 1 .. N PROVE s[j] \in 1 .. len /\ buf[s[j]].t = "amp"
  <2>1. k + j \in 1 .. n /\ k + j # 1 /\ k + j > k /\ k + j <= l
    BY <1>1
  <2>2. PICK x \in Nat : x = a[k + j] /\ base < x /\ x <= last
    <3>1. a[k + j] \in Nat /\ a[k] < a[k + j]
      BY <1>2, <2>1
    <3>2. a[k + j] <= a[l]
      <4>0. a[l] \in Nat /\ l \in 1 .. n + 1 /\ k + j \in 1 .. n + 1
        BY <1>2, <2>1
      <4>1. CASE k + j = l
        BY <4>0, <4>1
      <4>2. CASE k + j # l
        <5>1. k + j < l
          BY <2>1, <4>2
        <5>2. a[k + j] < a[l]
          BY <1>2, <4>0, <5>1
        <5> QED
          BY <3>1, <4>0, <5>2
      <4> QED
        BY <4>1, <4>2
    <3> QED
      BY <1>3, <3>1, <3>2
  <2>3. s[j] = x - base
    BY <1>6, <2>2
  <2>4. x - base \in 1 .. len /\ base + (x - base) = x
    <3>1. base + len = top
      BY <1>4
    <3>2. last <= top
      BY <1>3
    <3>3. base < x /\ x <= last
      BY <2>2
    <3> QED
      BY <3>1, <3>2, <3>3
  <2>5. text[x].t = "amp"
    BY <2>1, <2>2 DEF Paired
  <2>6. buf[x - base] = text[x]
    BY <1>5, <2>4
  <2> QED
    BY <2>3, <2>4, <2>5, <2>6
<1>9. \A j \in 1 .. N + 1 : j \in 1 .. N \/ j = N + 1
  OBVIOUS
<1>10. ASSUME NEW x \in { i \in DOMAIN buf : buf[i].t = "amp" } \union { Len(buf) + 1 }
       PROVE  x \in { s[j] : j \in 1 .. N + 1 }
  <2>1. CASE x = Len(buf) + 1
    <3>1. N + 1 \in 1 .. N + 1
      OBVIOUS
    <3> QED
      BY <1>4, <1>6, <2>1, <3>1
  <2>2. CASE x # Len(buf) + 1
    <3>1. x \in 1 .. len /\ buf[x].t = "amp"
      BY <1>4, <2>2
    <3> QED
      BY <1>7, <3>1
  <2> QED
    BY <2>1, <2>2
<1>11. ASSUME NEW j \in 1 .. N + 1
       PROVE  s[j] \in { i \in DOMAIN buf : buf[i].t = "amp" } \union { Len(buf) + 1 }
  BY <1>4, <1>6, <1>8, <1>9
<1>12. { i \in DOMAIN buf : buf[i].t = "amp" } \union { Len(buf) + 1 } = { s[j] : j \in 1 .. N + 1 }
  BY <1>10, <1>11
<1> QED
  BY <1>1, <1>12 DEF StopSet

\* One of the pieces, from where the one before ends.
LEMMA OnePiece ==
  ASSUME NEW text, NEW buf \in Seq(Units), NEW base \in Nat, NEW top \in Nat, Piece(buf, text, base, top),
         NEW from \in Nat, NEW to \in Nat, base <= from, from < to, to <= top + 1, NEW u, u = from - base,
         NEW v, v = to - base, NEW piece, piece = SubSeq(buf, u + 1, v - 1)
  PROVE  piece \in Seq(Units) /\ Piece(piece, text, from, to - 1)
<1>1. PICK len \in Nat : len = Len(buf) /\ base + len = top
  BY LenProperties DEF Piece
<1>2. PICK i \in Nat \ {0}, j \in Nat : i = u + 1 /\ j = v /\ i = from - base + 1 /\ j = to - base
  <2>1. (from - base) + 1 \in Nat \ {0} /\ to - base \in Nat
    OBVIOUS
  <2> QED
    BY <2>1
<1>3. base + i - 1 = from /\ base + j - 1 = to - 1 /\ i <= j
  BY <1>2
<1>4. j <= Len(buf) + 1
  BY <1>1, <1>2
<1>5. /\ SubSeq(buf, i, j - 1) \in Seq(Units)
      /\ Piece(SubSeq(buf, i, j - 1), text, base + i - 1, base + j - 1)
  BY <1>3, <1>4, PieceMiddle
<1> QED
  BY <1>2, <1>3, <1>5

Cuts(text, q, r, n, a, buf, k, top) ==
  \E l \in k .. n : CutInto(text, q, r, n, a, buf, k, l, top)

\* The signs of a chunk cut it into the pairs that stand in it.
LEMMA PiecesOfChunk ==
  ASSUME NEW text \in Seq(Units), NEW q, NEW r \in Nat, NEW n \in Nat, NEW a, Paired(text, q, r, n, a),
         Signed(q, n), NEW k \in 1 .. n, NEW top \in Nat, top <= Len(text),
         NEW base \in Nat, base = a[k], base <= top, NEW buf \in Seq(Units), Piece(buf, text, base, top)
  PROVE  Cuts(text, q, r, n, a, buf, k, top)
<1>1. Grows(a, n + 1)
  BY DEF Paired
<1>2. /\ \A i \in 1 .. n + 1 : a[i] \in Nat
      /\ \A i, j \in 1 .. n + 1 : i < j => a[i] < a[j]
      /\ Len(text) = a[n + 1] - 1
  <2>1. n # 0
    OBVIOUS
  <2>2. /\ \A i \in 1 .. n + 1 : a[i] \in Nat
        /\ \A i, j \in 1 .. n + 1 : i < j => a[i] < a[j]
        /\ n # 0 => Len(text) = a[n + 1] - 1
    BY PairedTyped
  <2> QED
    BY <2>1, <2>2
<1>3. PICK l \in k .. n : Before1(a, n, l, top)
  BY <1>1, LastBefore
<1>4. a[l] <= top /\ (l = n \/ top < a[l + 1])
  BY <1>3 DEF Before1
<1>5. PICK N \in Nat : N = l - k /\ k + N = l
  OBVIOUS
<1>6. PICK s : s = EndsOf(a, k, l, top)
  OBVIOUS
<1>7. Ends(a, k, l, top, s) /\ Grows(s, l - k + 1)
  BY <1>1, <1>4, <1>6, EndsGrow
<1>8. PICK m \in Nat : m = N + 1 /\ m = l - k + 1
  BY <1>5
<1>9. Pieces(buf) = [j \in 1 .. N + 1 |-> SubSeq(buf, (IF j = 1 THEN 0 ELSE s[j - 1]) + 1, s[j] - 1)]
  <2>1. StopSet(buf, s, m)
    BY <1>3, <1>7, <1>8, EndsAreStops
  <2>2. Grows(s, m)
    BY <1>7, <1>8
  <2>3. PiecesAt(buf, s, m)
    BY <2>1, <2>2, PiecesAre
  <2> QED
    BY <1>8, <2>3 DEF PiecesAt
<1>10. s[N + 1] = top - base + 1 /\ \A j \in 1 .. N : s[j] = a[k + j] - base
  <2>1. \A j \in 1 .. l - k : s[j] = a[k + j] - a[k]
    BY <1>7 DEF Ends
  <2>2. s[l - k + 1] = top - a[k] + 1
    BY <1>7 DEF Ends
  <2> QED
    BY <1>5, <2>1, <2>2
<1>11. PICK pieces : pieces = Pieces(buf)
  OBVIOUS
<1>12. DOMAIN pieces = 1 .. N + 1 /\ Len(pieces) = N + 1
  BY <1>9, <1>11
<1>20. PICK st : st = [j \in 1 .. N + 1 |-> a[k + j - 1] - base]
  OBVIOUS
<1>21. \A j \in 1 .. N + 1 : st[j] = a[k + j - 1] - base
  BY <1>20
<1>13. ASSUME NEW j \in 1 .. N + 1 PROVE pieces[j] = SubSeq(buf, st[j] + 1, s[j] - 1)
  <2>1. PICK u : u = IF j = 1 THEN 0 ELSE s[j - 1]
    OBVIOUS
  <2>2. pieces[j] = SubSeq(buf, u + 1, s[j] - 1)
    BY <1>9, <1>11, <2>1
  <2>3. u = a[k + j - 1] - base
    <3>1. CASE j = 1
      <4>1. k + j - 1 = k
        BY <3>1
      <4> QED
        BY <2>1, <3>1, <4>1
    <3>2. CASE j # 1
      <4>1. j - 1 \in 1 .. N /\ k + (j - 1) = k + j - 1
        BY <3>2
      <4> QED
        BY <1>10, <2>1, <3>2, <4>1
    <3> QED
      BY <3>1, <3>2
  <2> QED
    BY <1>21, <2>2, <2>3
<1>14. \A j \in 0 .. N : a[k + j] \in Nat /\ base <= a[k + j] /\ a[k + j] <= top
  <2> TAKE j \in 0 .. N
  <2>1. k + j \in 1 .. n + 1 /\ l \in 1 .. n + 1 /\ k + j <= l /\ k <= k + j /\ k \in 1 .. n + 1
    BY <1>5
  <2>2. PICK x \in Nat, y \in Nat : x = a[k + j] /\ y = a[l] /\ y <= top
    BY <1>2, <1>4, <2>1
  <2>3. base <= x
    <3>1. CASE j = 0
      <4>1. k + j = k
        BY <3>1
      <4>2. x = base
        BY <2>2, <4>1
      <4> QED
        BY <4>2
    <3>2. CASE j # 0
      BY <1>2, <2>1, <2>2, <3>2
    <3> QED
      BY <3>1, <3>2
  <2>4. x <= y
    <3>1. CASE k + j = l
      <4>1. a[k + j] = a[l]
        BY <3>1
      <4>2. x = y
        BY <2>2, <4>1
      <4> QED
        BY <4>2
    <3>2. CASE k + j # l
      BY <1>2, <2>1, <2>2, <3>2
    <3> QED
      BY <3>1, <3>2
  <2> QED
    BY <2>2, <2>3, <2>4
<1>15. ASSUME NEW j \in 1 .. N PROVE PairIs(pieces[j], q, r, k + j - 1)
  <2>1. PICK i \in 1 .. n : i = k + j - 1 /\ i = k + (j - 1) /\ i + 1 = k + j /\ j - 1 \in 0 .. N /\ j \in 0 .. N
    BY <1>5
  <2>11. PICK from \in Nat : from = a[i] /\ base <= from
    <3>1. a[k + (j - 1)] \in Nat /\ base <= a[k + (j - 1)]
      BY <1>14, <2>1
    <3> QED
      BY <2>1, <3>1
  <2>12. PICK to \in Nat : to = a[i + 1] /\ to <= top
    <3>1. a[k + j] \in Nat /\ a[k + j] <= top
      BY <1>14, <2>1
    <3> QED
      BY <2>1, <3>1
  <2>2. from = a[i] /\ to = a[i + 1] /\ base <= from /\ to <= top
    BY <2>11, <2>12
  <2>3. from < to
    BY <1>2, <2>1, <2>2
  <2>0. j \in 1 .. N + 1
    OBVIOUS
  <2>4. PICK u : u = st[j] /\ u = from - base /\ pieces[j] = SubSeq(buf, u + 1, s[j] - 1)
    <3>1. st[j] = from - base
      BY <1>21, <2>1, <2>2, <2>0
    <3> QED
      BY <1>13, <2>0, <3>1
  <2>5. s[j] = to - base
    BY <1>10, <2>1, <2>2
  <2>6. to <= top + 1
    BY <2>2
  <2>7. /\ pieces[j] \in Seq(Units) /\ Piece(pieces[j], text, from, to - 1)
    BY <2>2, <2>3, <2>4, <2>5, <2>6, OnePiece
  <2>8. PairAt(text, q.items[i], r, from, to)
    BY <2>1, <2>2 DEF Paired
  <2>9. q.items[i] \in Items
    BY DEF Signed
  <2>10. PairIs(pieces[j], q, r, i)
    BY <2>7, <2>8, <2>9, PieceIsPair
  <2> QED
    BY <2>1, <2>10
<1>16. /\ pieces[N + 1] \in Seq(Units)
       /\ Piece(pieces[N + 1], text, a[l], top)
  <2>1. PICK from \in Nat, to \in Nat : from = a[l] /\ to = top + 1 /\ base <= from /\ from <= top
    <3>1. N \in 0 .. N /\ k + N = l
      BY <1>5
    <3>2. a[k + N] \in Nat /\ base <= a[k + N] /\ a[k + N] <= top
      BY <1>14, <3>1
    <3>3. a[l] \in Nat /\ base <= a[l] /\ a[l] <= top
      BY <3>1, <3>2
    <3> QED
      BY <3>3
  <2>2. PICK u : u = from - base /\ pieces[N + 1] = SubSeq(buf, u + 1, s[N + 1] - 1)
    <3>1. N + 1 \in 1 .. N + 1 /\ k + (N + 1) - 1 = l
      BY <1>5
    <3>2. st[N + 1] = from - base
      BY <1>21, <2>1, <3>1
    <3> QED
      BY <1>13, <3>1, <3>2
  <2>3. s[N + 1] = to - base /\ to - 1 = top /\ to <= top + 1 /\ from < to
    BY <1>10, <2>1
  <2>4. base <= from /\ s[N + 1] = to - base /\ to <= top + 1 /\ from < to
    BY <2>1, <2>3
  <2>5. pieces[N + 1] \in Seq(Units) /\ Piece(pieces[N + 1], text, from, to - 1)
    BY <2>2, <2>4, OnePiece
  <2> QED
    BY <2>1, <2>3, <2>5
<1>17. Len(pieces[N + 1]) = top - a[l]
  BY <1>16 DEF Piece
<1>18. ASSUME top = Len(text) PROVE l = n /\ PairIs(pieces[N + 1], q, r, n)
  <2>1. l = n
    <3> SUFFICES ASSUME l # n PROVE FALSE
      OBVIOUS
    <3>1. l + 1 \in 1 .. n /\ n + 1 \in 1 .. n + 1 /\ l + 1 < n + 1
      OBVIOUS
    <3>2. PICK x \in Nat, y \in Nat : x = a[l + 1] /\ y = a[n + 1] /\ x < y /\ top < x
      BY <1>2, <1>4, <3>1
    <3>3. top = y - 1
      BY <1>2, <1>18, <3>2
    <3> QED
      BY <3>2, <3>3
  <2>2. PICK from \in Nat, to \in Nat : from = a[n] /\ to = a[n + 1]
    BY <1>2
  <2>3. top = to - 1
    BY <1>2, <1>18, <2>2
  <2>4. Piece(pieces[N + 1], text, from, to - 1)
    BY <1>16, <2>1, <2>2, <2>3
  <2>8. n \in 1 .. n
    OBVIOUS
  <2>5. PairAt(text, q.items[n], r, from, to)
    BY <2>2, <2>8 DEF Paired
  <2>6. q.items[n] \in Items
    BY <2>8 DEF Signed
  <2>7. PairIs(pieces[N + 1], q, r, n)
    BY <1>16, <2>4, <2>5, <2>6, PieceIsPair
  <2> QED
    BY <2>1, <2>7
<1>19. CutInto(text, q, r, n, a, buf, k, l, top)
  <2>1. l - k = N /\ l - k + 1 = N + 1
    BY <1>5
  <2> QED
    BY <1>4, <1>11, <1>12, <1>15, <1>17, <1>18, <2>1 DEF CutInto
<1> QED
  BY <1>19 DEF Cuts

-----------------------------------------------------------------------------
(* The parsers of forms and of plain text, over chunks                      *)

\* The fields in front of a pair have arrived, and no file.
SoFar(q, r, k, data) == data.files = <<>> /\ data.fields = [i \in 1 .. k - 1 |-> Expected(q, r)[i]]

\* The pieces of which a parser makes fields: all of them, or all but the last.
Whole(buf, d) == IF Complete(d) THEN Pieces(buf) ELSE Front(Pieces(buf))

\* The fields made of them are those that are expected.
MadeOf(buf, d, q, r, k, fields) ==
  /\ fields = [i \in DOMAIN Whole(buf, d) |-> fields[i]]
  /\ \A i \in DOMAIN Whole(buf, d) :
       k + i - 1 \in DOMAIN q.items /\ PairIs(Whole(buf, d)[i], q, r, k + i - 1)
       => fields[i] = Expected(q, r)[k + i - 1]

\* The fields of a chunk behind those of the chunks before it.
LEMMA JoinedFields ==
  ASSUME NEW e, NEW j \in Nat, NEW m \in Nat, NEW old, old = [i \in 1 .. j |-> e[i]],
         NEW new, new = [i \in 1 .. m |-> e[j + i]]
  PROVE  old \o new = [i \in 1 .. j + m |-> e[i]]
<1>1. PICK S : S = { e[i] : i \in 1 .. j + m }
  OBVIOUS
<1>2. PICK total \in Nat : total = j + m
  OBVIOUS
<1>3. PICK all : all = [i \in 1 .. total |-> e[i]]
  OBVIOUS
<1>4. \A i \in 1 .. total : e[i] \in S
  BY <1>1, <1>2
<1>5. old \in Seq(S) /\ Len(old) = j /\ \A i \in 1 .. j : old[i] = e[i]
  <2>1. \A i \in 1 .. j : i \in 1 .. total
    BY <1>2
  <2>2. \A i \in 1 .. j : e[i] \in S
    BY <1>4, <2>1
  <2> QED
    BY <2>2
<1>6. new \in Seq(S) /\ Len(new) = m /\ \A i \in 1 .. m : new[i] = e[j + i]
  <2>1. \A i \in 1 .. m : j + i \in 1 .. total
    BY <1>2
  <2>2. \A i \in 1 .. m : e[j + i] \in S
    BY <1>4, <2>1
  <2> QED
    BY <2>2
<1>7. all \in Seq(S) /\ Len(all) = total /\ \A i \in 1 .. total : all[i] = e[i]
  BY <1>3, <1>4
<1>8. PICK both : both = old \o new
  OBVIOUS
<1>9. /\ both \in Seq(S) /\ Len(both) = j + m
      /\ \A i \in 1 .. j + m : both[i] = IF i <= j THEN old[i] ELSE new[i - j]
  BY <1>5, <1>6, <1>8, ConcatProperties
<1>10. ASSUME NEW i \in 1 .. total PROVE both[i] = all[i]
  <2>1. CASE i <= j
    <3>1. i \in 1 .. j /\ i \in 1 .. j + m
      BY <1>2, <2>1
    <3> QED
      BY <1>5, <1>7, <1>9, <2>1, <3>1
  <2>2. CASE ~(i <= j)
    <3>1. PICK p \in 1 .. m : p = i - j /\ j + p = i /\ i \in 1 .. j + m
      BY <1>2, <2>2
    <3> QED
      BY <1>6, <1>7, <1>9, <2>2, <3>1
  <2> QED
    BY <2>1, <2>2
<1>11. both = all
  BY <1>2, <1>7, <1>9, <1>10, SeqEqual
<1> QED
  BY <1>2, <1>3, <1>8, <1>11

\* The pieces that are made into fields are pairs, from the k-th on.
WholePairs(buf, d, q, r, k, m) ==
  /\ DOMAIN Whole(buf, d) = 1 .. m
  /\ \A i \in 1 .. m : PairIs(Whole(buf, d)[i], q, r, k + i - 1)

\* How many there are.
WholeCount(d, k, l) == IF Complete(d) THEN l - k + 1 ELSE l - k

\* The pieces that are made into fields, when a chunk is cut at its pairs.
LEMMA WholeOfCut ==
  ASSUME NEW text, NEW q, NEW r, NEW n \in Nat, NEW a, NEW buf, NEW k \in 1 .. n, NEW l \in k .. n,
         NEW top, CutInto(text, q, r, n, a, buf, k, l, top), NEW d, Complete(d) <=> top = Len(text),
         NEW m \in Nat, m = WholeCount(d, k, l)
  PROVE  WholePairs(buf, d, q, r, k, m)
<1>1. PICK pieces : pieces = Pieces(buf)
  OBVIOUS
<1>2. PICK size \in Nat : size = l - k /\ k + size = l
  OBVIOUS
<1>3. /\ Len(pieces) = size + 1 /\ DOMAIN pieces = 1 .. size + 1
      /\ \A j \in 1 .. size : PairIs(pieces[j], q, r, k + j - 1)
      /\ top = Len(text) => l = n /\ PairIs(pieces[size + 1], q, r, n)
  <2>1. /\ Len(pieces) = l - k + 1 /\ DOMAIN pieces = 1 .. l - k + 1
        /\ \A j \in 1 .. l - k : PairIs(pieces[j], q, r, k + j - 1)
        /\ top = Len(text) => l = n /\ PairIs(pieces[l - k + 1], q, r, n)
    BY <1>1 DEF CutInto
  <2>2. l - k = size /\ l - k + 1 = size + 1
    BY <1>2
  <2> QED
    BY <2>1, <2>2
<1>4. CASE Complete(d)
  <2>1. m = size + 1 /\ Whole(buf, d) = pieces
    BY <1>1, <1>2, <1>4 DEF Whole, WholeCount
  <2>2. l = n /\ PairIs(pieces[size + 1], q, r, n)
    BY <1>3, <1>4
  <2>3. ASSUME NEW i \in 1 .. size + 1 PROVE PairIs(pieces[i], q, r, k + i - 1)
    <3>1. CASE i = size + 1
      <4>1. k + (size + 1) - 1 = n
        BY <1>2, <2>2
      <4> QED
        BY <2>2, <3>1, <4>1
    <3>2. CASE i # size + 1
      <4>1. i \in 1 .. size
        BY <3>2
      <4> QED
        BY <1>3, <4>1
    <3> QED
      BY <3>1, <3>2
  <2> QED
    BY <1>3, <2>1, <2>3 DEF WholePairs
<1>5. CASE ~Complete(d)
  <2>1. m = size /\ Whole(buf, d) = Front(pieces)
    BY <1>1, <1>2, <1>5 DEF Whole, WholeCount
  <2>2. (size + 1) - 1 = size
    OBVIOUS
  <2>3. Front(pieces) = SubSeq(pieces, 1, size)
    BY <1>3, <2>2 DEF Front
  <2>4. SubSeq(pieces, 1, size) = [i \in 1 .. size |-> pieces[i]]
    <3>1. SubSeq(pieces, 1, size) = [i \in 1 .. 1 + size - 1 |-> pieces[i + 1 - 1]]
      OBVIOUS
    <3>2. 1 + size - 1 = size /\ \A i \in 1 .. size : i + 1 - 1 = i
      OBVIOUS
    <3> QED
      BY <3>1, <3>2
  <2> QED
    BY <1>3, <2>1, <2>3, <2>4 DEF WholePairs
<1> QED
  BY <1>4, <1>5

\* The fields that have arrived when the next pair is the l-th, and at the end all of them.
ArrivedUpTo(q, r, l, d, all) ==
  /\ ~Complete(d) => all = [i \in 1 .. l - 1 |-> Expected(q, r)[i]]
  /\ Complete(d) => all = Expected(q, r)

\* The fields a chunk is cut into have arrived behind those before it.
LEMMA FieldsOfCut ==
  ASSUME NEW text, NEW q, NEW r, NEW n \in Nat, NEW a, DOMAIN q.items = 1 .. n, NEW buf, NEW k \in 1 .. n, NEW l \in k .. n,
         NEW top, CutInto(text, q, r, n, a, buf, k, l, top), NEW d, Complete(d) <=> top = Len(text),
         NEW data, SoFar(q, r, k, data), NEW fields, MadeOf(buf, d, q, r, k, fields),
         NEW all, all = data.fields \o fields
  PROVE  ArrivedUpTo(q, r, l, d, all)
<1>1. PICK e : e = Expected(q, r)
  OBVIOUS
<1>2. PICK m \in Nat : m = WholeCount(d, k, l)
  <2>1. l - k \in Nat /\ l - k + 1 \in Nat
    OBVIOUS
  <2>2. CASE Complete(d)
    BY <2>1, <2>2 DEF WholeCount
  <2>3. CASE ~Complete(d)
    BY <2>1, <2>3 DEF WholeCount
  <2> QED
    BY <2>2, <2>3
<1>3. PICK j \in Nat : j = k - 1
  OBVIOUS
<1>4. /\ DOMAIN Whole(buf, d) = 1 .. m
      /\ \A i \in 1 .. m : PairIs(Whole(buf, d)[i], q, r, k + i - 1)
  <2>1. WholePairs(buf, d, q, r, k, m)
    BY <1>2, WholeOfCut
  <2> QED
    BY <2>1 DEF WholePairs
<1>5. /\ fields = [i \in 1 .. m |-> fields[i]]
      /\ \A i \in 1 .. m : fields[i] = e[k + i - 1]
  <2>1. l - k + 1 \in Nat /\ m <= l - k + 1
    BY <1>2 DEF WholeCount
  <2>2. \A i \in 1 .. m : k + i - 1 \in DOMAIN q.items
    BY <2>1
  <2> QED
    BY <1>1, <1>4, <2>2 DEF MadeOf
<1>6. fields = [i \in 1 .. m |-> e[j + i]]
  <2>1. \A i \in 1 .. m : k + i - 1 = j + i
    BY <1>3
  <2> QED
    BY <1>5, <2>1
<1>7. data.fields = [i \in 1 .. j |-> e[i]]
  BY <1>1, <1>3 DEF SoFar
<1>8. all = [i \in 1 .. j + m |-> e[i]]
  BY <1>6, <1>7, JoinedFields
<1>9. ASSUME ~Complete(d) PROVE all = [i \in 1 .. l - 1 |-> e[i]]
  <2>1. j + m = l - 1
    BY <1>2, <1>3, <1>9 DEF WholeCount
  <2> QED
    BY <1>8, <2>1
<1>10. ASSUME Complete(d) PROVE all = e
  <2>1. l = n
    BY <1>10 DEF CutInto
  <2>2. j + m = n
    BY <1>2, <1>3, <1>10, <2>1 DEF WholeCount
  <2>3. e = [i \in 1 .. n |-> e[i]]
    BY <1>1 DEF Expected
  <2> QED
    BY <1>8, <2>2, <2>3
<1> QED
  BY <1>1, <1>9, <1>10 DEF ArrivedUpTo

\* The parser stands in front of a pair, and the fields in front of it have arrived.
AtPair(q, r, n, a, p, data) == \E k \in 1 .. n + 1 : p = a[k] /\ SoFar(q, r, k, data)

\* What a parser of fields makes of a chunk of a body.
FieldsGo(q, r, n, a, top, buf, d, got) ==
  /\ got.ok /\ ~got.dies
  /\ ~Complete(d) => got.dr.left \in 0 .. Len(buf) /\ AtPair(q, r, n, a, top - got.dr.left, got.rd)
  /\ Complete(d) => got.rd.fields = Expected(q, r) /\ got.rd.files = <<>>

\* What it gives back when the chunk holds something.
FieldsMade(buf, data, d, fields) ==
  Parsed(TRUE, IF Complete(d) THEN d ELSE [d EXCEPT !.left = Len(Last(Pieces(buf)))],
         [data EXCEPT !.fields = @ \o fields])

\* The fields that a parser makes of a chunk take it to the place of the next chunk.
LEMMA MadeGoes ==
  ASSUME NEW text \in Seq(Units), NEW q, NEW r \in Nat, NEW n \in Nat, NEW a, Paired(text, q, r, n, a),
         Signed(q, n), NEW k \in 1 .. n, NEW base \in Nat, base = a[k], NEW top \in Nat,
         base <= top, top <= Len(text), NEW buf \in Seq(Units), Piece(buf, text, base, top),
         NEW data, NoFiles(data), SoFar(q, r, k, data), NEW d, "left" \in DOMAIN d,
         Complete(d) <=> top = Len(text), NEW fields, MadeOf(buf, d, q, r, k, fields),
         NEW got, got = FieldsMade(buf, data, d, fields)
  PROVE  FieldsGo(q, r, n, a, top, buf, d, got)
<1>1. PICK l \in k .. n : CutInto(text, q, r, n, a, buf, k, l, top)
  <2>1. Cuts(text, q, r, n, a, buf, k, top)
    BY PiecesOfChunk
  <2> QED
    BY <2>1 DEF Cuts
<1>2. PICK all : all = data.fields \o fields
  OBVIOUS
<1>3. DOMAIN q.items = 1 .. n
  BY PairedTyped
<1>4. /\ ~Complete(d) => all = [i \in 1 .. l - 1 |-> Expected(q, r)[i]]
      /\ Complete(d) => all = Expected(q, r)
  <2>1. ArrivedUpTo(q, r, l, d, all)
    BY <1>1, <1>2, <1>3, FieldsOfCut
  <2> QED
    BY <2>1 DEF ArrivedUpTo
<1>5. got.rd.fields = all /\ got.rd.files = <<>> /\ got.ok /\ ~got.dies
  BY <1>2 DEF FieldsMade, Parsed, NoFiles, SoFar
<1>6. ASSUME ~Complete(d)
      PROVE  got.dr.left \in 0 .. Len(buf) /\ AtPair(q, r, n, a, top - got.dr.left, got.rd)
  <2>1. got.dr.left = Len(Last(Pieces(buf)))
    BY <1>6 DEF FieldsMade, Parsed
  <2>2. PICK size \in Nat : size = l - k + 1
    OBVIOUS
  <2>3. Len(Pieces(buf)) = size /\ Len(Pieces(buf)[size]) = top - a[l] /\ a[l] <= top
    BY <1>1, <2>2 DEF CutInto
  <2>4. got.dr.left = top - a[l]
    BY <2>1, <2>3 DEF Last
  <2>5. PICK x \in Nat : x = a[l] /\ base <= x /\ x <= top
    <3>1. a[k] \in Nat /\ a[l] \in Nat /\ (k < l => a[k] < a[l])
      <4>1. k \in 1 .. n + 1 /\ l \in 1 .. n + 1
        OBVIOUS
      <4> QED
        BY <4>1, PairedTyped
    <3>2. base <= a[l]
      BY <3>1
    <3> QED
      BY <2>3, <3>1, <3>2
  <2>6. PICK len \in Nat : len = Len(buf) /\ len = top - base
    BY LenProperties DEF Piece
  <2>7. top - x \in 0 .. len /\ top - (top - x) = x
    <3>1. base <= x /\ x <= top /\ len = top - base
      BY <2>5, <2>6
    <3> QED
      BY <3>1
  <2>8. SoFar(q, r, l, got.rd)
    BY <1>4, <1>5, <1>6 DEF SoFar
  <2>9. l \in 1 .. n + 1
    OBVIOUS
  <2> QED
    BY <2>4, <2>5, <2>6, <2>7, <2>8, <2>9 DEF AtPair
<1>7. ASSUME Complete(d) PROVE got.rd.fields = Expected(q, r) /\ got.rd.files = <<>>
  BY <1>4, <1>5, <1>7
<1> QED
  BY <1>5, <1>6, <1>7 DEF FieldsGo

\* A chunk of nothing leaves the parser where it is.
LEMMA NothingGoes ==
  ASSUME NEW text \in Seq(Units), NEW q, NEW r \in Nat, NEW n \in Nat, NEW a, Paired(text, q, r, n, a),
         Signed(q, n), NEW k \in 1 .. n + 1, NEW base \in Nat, base = a[k], NEW top \in Nat, top <= Len(text),
         Piece(<<>>, text, base, top),
         NEW data, NoFiles(data), SoFar(q, r, k, data), NEW d, d.left = 0, d.full = Len(text),
         Complete(d) <=> top = Len(text), Complete(d) => Len(text) = 0,
         NEW got, got = Parsed(d.full = 0 \/ ~Complete(d), d, data)
  PROVE  FieldsGo(q, r, n, a, top, <<>>, d, got)
<1>1. got.ok /\ ~got.dies /\ got.dr = d /\ got.rd = data
  BY DEF Parsed
<1>2. base = top /\ Len(<<>>) = 0
  BY DEF Piece
<1>3. ASSUME ~Complete(d)
      PROVE  got.dr.left \in 0 .. Len(<<>>) /\ AtPair(q, r, n, a, top - got.dr.left, got.rd)
  <2>1. got.dr.left = 0 /\ top - 0 = base /\ 0 \in 0 .. 0
    BY <1>1, <1>2
  <2> QED
    BY <1>1, <1>2, <2>1 DEF AtPair
<1>4. ASSUME Complete(d) PROVE got.rd.fields = Expected(q, r) /\ got.rd.files = <<>>
  <2>1. Len(text) = 0
    BY <1>4
  <2>2. n = 0
    <3> SUFFICES ASSUME n # 0 PROVE FALSE
      OBVIOUS
    <3>1. 1 \in 1 .. n + 1 /\ n + 1 \in 1 .. n + 1 /\ 1 < n + 1 /\ 2 \in 1 .. n + 1 /\ 1 < 2
      OBVIOUS
    <3>2. a[n + 1] = 1 /\ a[1] = 0
      <4>0. /\ \A i \in 1 .. n + 1 : a[i] \in Nat
            /\ a[1] = 0
            /\ n # 0 => Len(text) = a[n + 1] - 1
        BY PairedTyped
      <4>1. a[n + 1] \in Nat /\ a[1] = 0 /\ Len(text) = a[n + 1] - 1
        BY <3>1, <4>0
      <4> QED
        BY <2>1, <4>1
    <3>3. n = 1
      <4> SUFFICES ASSUME n # 1 PROVE FALSE
        OBVIOUS
      <4>1. 2 < n + 1
        OBVIOUS
      <4>2. a[1] < a[2] /\ a[2] < a[n + 1] /\ a[2] \in Nat
        BY <3>1, <4>1, PairedTyped
      <4> QED
        BY <3>2, <4>2
    <3>4. PairAt(text, q.items[1], r, a[1], a[2])
      BY <3>3 DEF Paired
    <3>5. a[2] = a[1] + Len(PairText(q.items[1])) + 1
      BY <3>4 DEF PairAt
    <3>6. q.items[1] \in Items
      BY <3>3 DEF Signed
    <3>7. PICK pair \in Nat : pair = Len(PairText(q.items[1])) /\ pair >= 1
      <4>1. PICK name, size : name = Len(q.items[1].name) /\ size = Len(q.items[1].value)
        OBVIOUS
      <4>2. name \in Nat /\ size \in Nat /\ Len(PairText(q.items[1])) = name + 1 + size
        BY <3>6, <4>1, PairWords
      <4>3. name + 1 + size \in Nat /\ name + 1 + size >= 1
        BY <4>2
      <4> QED
        BY <4>2, <4>3
    <3> QED
      BY <3>2, <3>3, <3>5, <3>7
  <2>3. k = 1
    BY <2>2
  <2>4. data.fields = [i \in 1 .. 0 |-> Expected(q, r)[i]]
    <3>1. k - 1 = 0
      BY <2>3
    <3> QED
      BY <3>1 DEF SoFar
  <2>5. DOMAIN q.items = 1 .. 0
    <3>1. DOMAIN q.items = 1 .. n
      BY PairedTyped
    <3> QED
      BY <2>2, <3>1
  <2>6. Expected(q, r) = [i \in 1 .. 0 |-> Expected(q, r)[i]]
    BY <2>5 DEF Expected
  <2> QED
    BY <1>1, <2>4, <2>6 DEF SoFar
<1> QED
  BY <1>1, <1>3, <1>4 DEF FieldsGo

\* What is made of a piece that is a pair.
LEMMA MadeOfPairs ==
  ASSUME NEW q, q.variant # "multipart", NEW r \in Nat, NEW n \in Nat, DOMAIN q.items = 1 .. n, Signed(q, n),
         NEW buf, NEW d, NEW k \in Nat
  PROVE  /\ q.variant = "form" =>
              MadeOf(buf, d, q, r, k,
                     [i \in DOMAIN Whole(buf, d) |-> PieceField(Whole(buf, d)[i], UrlDecode)])
         /\ q.variant # "form" =>
              MadeOf(buf, d, q, r, k,
                     [i \in DOMAIN Whole(buf, d) |-> PieceField(Whole(buf, d)[i], LAMBDA item : item)])
<1>1. \A i \in DOMAIN q.items : q.items[i] \in Items /\ SignFree(q.items[i])
  BY DEF Signed
<1>2. PICK whole : whole = Whole(buf, d)
  OBVIOUS
<1>3. ASSUME q.variant = "form"
      PROVE  MadeOf(buf, d, q, r, k, [i \in DOMAIN whole |-> PieceField(whole[i], UrlDecode)])
  <2>1. ASSUME NEW i \in DOMAIN whole, NEW j \in DOMAIN q.items, PairIs(whole[i], q, r, j)
        PROVE  PieceField(whole[i], UrlDecode) = Expected(q, r)[j]
    <3>1. whole[i] = Tokens(PairText(q.items[j]), r)
      BY <2>1 DEF PairIs
    <3> QED
      BY <1>1, <1>3, <3>1, FieldOfPair
  <2> QED
    BY <1>2, <2>1 DEF MadeOf
<1>4. ASSUME q.variant # "form"
      PROVE  MadeOf(buf, d, q, r, k, [i \in DOMAIN whole |-> PieceField(whole[i], LAMBDA item : item)])
  <2>1. ASSUME NEW i \in DOMAIN whole, NEW j \in DOMAIN q.items, PairIs(whole[i], q, r, j)
        PROVE  PieceField(whole[i], LAMBDA item : item) = Expected(q, r)[j]
    <3>1. whole[i] = Tokens(PairText(q.items[j]), r)
      BY <2>1 DEF PairIs
    <3> QED
      BY <1>1, <1>4, <3>1, FieldOfPair
  <2> QED
    BY <1>2, <2>1 DEF MadeOf
<1> QED
  BY <1>2, <1>3, <1>4, Zenon

\* A form or a plain text is stored whole, however it is cut into chunks.
THEOREM FieldChunksJoin ==
  ASSUME NEW text \in Seq(Units), NEW q, q.variant # "multipart", NEW r \in Nat, NEW n \in Nat, NEW a,
         Paired(text, q, r, n, a), Signed(q, n), NEW base \in Nat, NEW top \in Nat,
         base <= top, top <= Len(text), NEW buf \in Seq(Units), Piece(buf, text, base, top),
         NEW data, NoFiles(data), AtPair(q, r, n, a, base, data),
         NEW d, "left" \in DOMAIN d, d.left = 0, d.full = Len(text), d.recv = top,
         buf # <<>> \/ ~Complete(d) \/ Len(text) = 0
  PROVE  /\ q.variant = "form" => FieldsGo(q, r, n, a, top, buf, d, ParseFormUrlencoded(buf, data, d))
         /\ q.variant # "form" => FieldsGo(q, r, n, a, top, buf, d, ParseTextPlain(buf, data, d))
<1>1. PICK k \in 1 .. n + 1 : base = a[k] /\ SoFar(q, r, k, data)
  BY DEF AtPair
<1>2. Complete(d) <=> top = Len(text)
  BY DEF Complete
<1>3. CASE buf = <<>>
  <2>1. PICK got : got = Parsed(d.full = 0 \/ ~Complete(d), d, data)
    OBVIOUS
  <2>2. Complete(d) => Len(text) = 0
    BY <1>3
  <2>3. Piece(<<>>, text, base, top)
    BY <1>3
  <2>4. FieldsGo(q, r, n, a, top, buf, d, got)
    BY <1>1, <1>2, <1>3, <2>1, <2>2, <2>3, NothingGoes
  <2>5. got = ParseFormUrlencoded(buf, data, d)
    BY <1>3, <2>1, Zenon DEF ParseFormUrlencoded, ParsePieces
  <2>6. got = ParseTextPlain(buf, data, d)
    BY <1>3, <2>1, Zenon DEF ParseTextPlain, ParsePieces
  <2> QED
    BY <2>4, <2>5, <2>6
<1>4. CASE buf # <<>>
  <2>1. k \in 1 .. n
    <3>1. PICK len \in Nat : len = Len(buf) /\ len >= 1 /\ len = top - base
      <4>1. Len(buf) \in Nat /\ Len(buf) = top - base
        BY LenProperties DEF Piece
      <4>2. Len(buf) # 0
        BY <1>4, EmptySeq
      <4> QED
        BY <4>1, <4>2
    <3>2. ASSUME k = n + 1 PROVE FALSE
      <4>0. /\ \A i \in 1 .. n + 1 : a[i] \in Nat
            /\ a[1] = 0
            /\ n # 0 => Len(text) = a[n + 1] - 1
        BY PairedTyped
      <4>1. PICK x \in Nat : x = a[n + 1] /\ x = base
        BY <1>1, <3>2, <4>0
      <4>2. CASE n # 0
        <5>1. PICK size \in Nat : size = Len(text) /\ size = x - 1 /\ top <= size
          BY <4>0, <4>1, <4>2, LenProperties
        <5> QED
          BY <3>1, <4>1, <5>1
      <4>3. CASE n = 0
        <5>1. Len(text) = 0
          BY <4>3 DEF Paired
        <5> QED
          BY <3>1, <5>1
      <4> QED
        BY <4>2, <4>3
    <3> QED
      BY <3>2
  <2>2. DOMAIN q.items = 1 .. n
    BY DEF Paired
  <2>3. k \in Nat
    BY <2>1
  <2>4. ASSUME q.variant = "form" PROVE FieldsGo(q, r, n, a, top, buf, d, ParseFormUrlencoded(buf, data, d))
    <3>1. PICK fields : fields = [i \in DOMAIN Whole(buf, d) |-> PieceField(Whole(buf, d)[i], UrlDecode)]
      OBVIOUS
    <3>2. MadeOf(buf, d, q, r, k, fields)
      BY <2>2, <2>3, <2>4, <3>1, MadeOfPairs
    <3>3. PICK got : got = FieldsMade(buf, data, d, fields)
      OBVIOUS
    <3>4. FieldsGo(q, r, n, a, top, buf, d, got)
      BY <1>1, <1>2, <2>1, <3>2, <3>3, MadeGoes
    <3>5. got = ParseFormUrlencoded(buf, data, d)
      BY <1>4, <3>1, <3>3, Zenon DEF ParseFormUrlencoded, ParsePieces, FieldsMade, Whole
    <3> QED
      BY <3>4, <3>5
  <2>5. ASSUME q.variant # "form" PROVE FieldsGo(q, r, n, a, top, buf, d, ParseTextPlain(buf, data, d))
    <3>1. PICK fields : fields = [i \in DOMAIN Whole(buf, d) |-> PieceField(Whole(buf, d)[i], LAMBDA item : item)]
      OBVIOUS
    <3>2. MadeOf(buf, d, q, r, k, fields)
      BY <2>2, <2>3, <2>5, <3>1, Zenon, MadeOfPairs
    <3>3. PICK got : got = FieldsMade(buf, data, d, fields)
      OBVIOUS
    <3>4. FieldsGo(q, r, n, a, top, buf, d, got)
      BY <1>1, <1>2, <2>1, <3>2, <3>3, MadeGoes
    <3>5. got = ParseTextPlain(buf, data, d)
      BY <1>4, <3>1, <3>3, Zenon DEF ParseTextPlain, ParsePieces, FieldsMade, Whole
    <3> QED
      BY <3>4, <3>5
  <2> QED
    BY <2>4, <2>5
<1> QED
  BY <1>3, <1>4

-----------------------------------------------------------------------------
(* Which chunks the parser of multipart bodies does not survive             *)

\* A chunk stops less than a delimiter behind the header of a field's block.
Short(buf) ==
  \E i \in DOMAIN buf :
    LET end == Find(buf, EmptyLine, i)
    IN  /\ buf[i].t = "part" /\ end # NotFound
        /\ Len(buf) < end + Len(EmptyLine) + Len(Delimiter) - 1

\* The header of a field's block ends in front of a place.
HeaderEnds(buf, cur) ==
  \E i \in DOMAIN buf :
    LET end == Find(buf, EmptyLine, i)
    IN  buf[i].t = "part" /\ end # NotFound /\ cur = end + 2

\* The block of a field is being copied.
Copies(ss) == ss.state = "COPY_DATA_BLOCK" /\ ss.type = "DATA"

Careful(buf, m) ==
  /\ ~m.done /\ Copies(m.ss) => \/ m.cur = 1 /\ Len(buf) >= 2
                                \/ m.falls /\ HeaderEnds(buf, m.cur)
  /\ m.done /\ m.dies => Short(buf)
  /\ m.done /\ m.ok /\ Copies(m.ss) => m.left = 2 /\ Len(buf) >= 2

\* A text that is found behind a place is found in front of what is between.
LEMMA FindBetween ==
  ASSUME NEW buf \in Seq(Units), NEW cur \in Nat \ {0}, NEW end, end = Find(buf, EmptyLine, cur),
         end # NotFound, NEW i \in cur .. end - 1
  PROVE  i \in DOMAIN buf /\ Find(buf, EmptyLine, i) = end
<1>1. PICK len \in Nat : len = Len(buf) /\ DOMAIN buf = 1 .. len
  BY LenProperties
<1>2. /\ end \in cur .. len - 1 /\ buf[end].t = "nl" /\ buf[end + 1].t = "nl"
      /\ \A p \in cur .. end - 1 : ~(buf[p].t = "nl" /\ buf[p + 1].t = "nl")
  <2>1. \/ /\ end = NotFound
           /\ \A p \in cur .. Len(buf) - 1 : ~(buf[p].t = "nl" /\ buf[p + 1].t = "nl")
        \/ /\ end \in cur .. Len(buf) - 1 /\ buf[end].t = "nl" /\ buf[end + 1].t = "nl"
           /\ \A p \in cur .. end - 1 : ~(buf[p].t = "nl" /\ buf[p + 1].t = "nl")
    BY FindEmptyLine
  <2> QED
    BY <1>1, <2>1
<1>3. i \in Nat \ {0} /\ i \in 1 .. len
  BY <1>2
<1>4. PICK place : place = Find(buf, EmptyLine, i)
  OBVIOUS
<1>5. \/ /\ place = NotFound
         /\ \A p \in i .. len - 1 : ~(buf[p].t = "nl" /\ buf[p + 1].t = "nl")
      \/ /\ place \in i .. len - 1 /\ buf[place].t = "nl" /\ buf[place + 1].t = "nl"
         /\ \A p \in i .. place - 1 : ~(buf[p].t = "nl" /\ buf[p + 1].t = "nl")
  BY <1>1, <1>3, <1>4, FindEmptyLine
<1>6. place = end
  <2>1. end \in i .. len - 1
    BY <1>2
  <2>2. CASE place = NotFound
    <3>1. 0 \notin i .. len - 1
      BY <1>3
    <3> QED
      BY <1>2, <1>5, <2>1, <2>2, <3>1 DEF NotFound
  <2>3. CASE place # NotFound
    <3>1. /\ place \in i .. len - 1 /\ buf[place].t = "nl" /\ buf[place + 1].t = "nl"
          /\ \A p \in i .. place - 1 : ~(buf[p].t = "nl" /\ buf[p + 1].t = "nl")
      BY <1>5, <2>3
    <3>2. ~(place < end)
      <4>1. place < end => place \in cur .. end - 1
        BY <3>1, <2>1
      <4> QED
        BY <1>2, <3>1, <4>1
    <3>3. ~(end < place)
      <4>1. end < place => end \in i .. place - 1
        BY <3>1, <2>1
      <4> QED
        BY <1>2, <3>1, <4>1
    <3> QED
      BY <2>1, <3>1, <3>2, <3>3
  <2> QED
    BY <2>2, <2>3
<1> QED
  BY <1>1, <1>3, <1>4, <1>6

\* The header of a part that is a field's stands in front of its empty line.
LEMMA FieldHeader ==
  ASSUME NEW buf \in Seq(Units), NEW cur \in Nat \ {0}, NEW end, end = Find(buf, EmptyLine, cur),
         end # NotFound, NEW header, header = PartHeader(buf, cur, end), header.t = "part"
  PROVE  HeaderEnds(buf, end + 2)
<1>1. PICK headers : headers = { i \in cur .. end - 1 : buf[i].t \in {"part", "file", "anon"} }
  OBVIOUS
<1>2. header = IF headers = {} THEN [t |-> "anon", r |-> 0] ELSE buf[Min(headers)]
  BY <1>1, Zenon DEF PartHeader
<1>3. headers # {}
  BY <1>2
<1>4. end \in Nat
  <2>1. PICK len \in Nat : len = Len(buf)
    BY LenProperties
  <2>2. end = NotFound \/ end \in cur .. Len(buf) - 1
    BY FindEmptyLine
  <2> QED
    BY <2>1, <2>2 DEF NotFound
<1>5. headers \in SUBSET Nat
  BY <1>1
<1>6. PICK i \in cur .. end - 1 : i = Min(headers)
  <2>1. Min(headers) \in headers
    BY <1>3, <1>5, MinIs
  <2> QED
    BY <1>1, <2>1
<1>7. buf[i].t = "part"
  BY <1>2, <1>3, <1>6
<1>8. i \in DOMAIN buf /\ Find(buf, EmptyLine, i) = end
  BY FindBetween
<1> QED
  BY <1>7, <1>8 DEF HeaderEnds

\* COPY_DATA_BLOCK survives when the chunk goes on behind the block.
LEMMA CarefulCopy ==
  ASSUME NEW buf \in Seq(Units), NEW d, NEW m, Working(buf, d, m), m.ss.state = "COPY_DATA_BLOCK",
         m.ss.type = "DATA" => (m.cur = 1 /\ Len(buf) >= 2) \/ HeaderEnds(buf, m.cur),
         NEW next, next = CopyDataBlock(buf, d, m)
  PROVE  Careful(buf, next)
<1>1. BlockCopied(buf, d, m, next)
  BY CopyDataBlockIs
<1>2. PICK len \in Nat, cur \in Nat : len = Len(buf) /\ cur = m.cur
  BY LenProperties DEF Working, Loops
<1>3. CASE /\ m.ss.type = "DATA" /\ Len(buf) - 1 < m.cur
           /\ next.done /\ next.dies /\ ~next.ok
  <2>1. HeaderEnds(buf, m.cur)
    <3>1. ~(m.cur = 1 /\ Len(buf) >= 2)
      BY <1>2, <1>3
    <3> QED
      BY <1>3, <3>1
  <2>2. PICK i \in DOMAIN buf : buf[i].t = "part" /\ Find(buf, EmptyLine, i) # NotFound
                                /\ m.cur = Find(buf, EmptyLine, i) + 2
    BY <2>1 DEF HeaderEnds
  <2>3. PICK end \in Int : end = Find(buf, EmptyLine, i)
    <3>1. i \in Nat \ {0} /\ len - 1 \in Int
      BY <1>2, LenProperties
    <3>2. Find(buf, EmptyLine, i) = NotFound \/ Find(buf, EmptyLine, i) \in i .. Len(buf) - 1
      BY <3>1, FindEmptyLine
    <3> QED
      BY <1>2, <2>2, <3>1, <3>2
  <2>4. len < end + 2 + 2 - 1
    BY <1>2, <1>3, <2>2, <2>3
  <2>5. Len(EmptyLine) = 2 /\ Len(Delimiter) = 2
    BY DEF EmptyLine, Delimiter
  <2>6. Short(buf)
    BY <1>2, <2>2, <2>3, <2>4, <2>5 DEF Short
  <2> QED
    BY <1>3, <2>6 DEF Careful
<1>4. CASE /\ Copied(buf, m, next, Len(buf) - 1) /\ next.ss.state = "COPY_DATA_BLOCK"
           /\ next.done /\ ~next.dies /\ (next.ok <=> ~Complete(d)) /\ next.left = 2
  <2>1. ASSUME next.ss.type = "DATA" PROVE Len(buf) >= 2
    <3>1. Len(buf) - 1 >= m.cur
      BY <1>4, <2>1 DEF Copied
    <3>2. m.cur >= 1
      BY DEF Working, Running
    <3> QED
      BY <1>2, <3>1, <3>2
  <2> QED
    BY <1>4, <2>1 DEF Careful, Copies
<1>5. CASE \E end \in m.cur .. Len(buf) - 1 :
             /\ Delimits(buf, end) /\ \A i \in m.cur .. end - 1 : ~Delimits(buf, i)
             /\ Copied(buf, m, next, end) /\ next.ss.state = "SAVE_DATA_BLOCK"
             /\ ~next.done /\ next.cur = end
  BY <1>5 DEF Careful, Copies
<1> QED
  BY <1>1, <1>3, <1>4, <1>5 DEF BlockCopied

\* One turn of the loop survives a chunk that is not short.
LEMMA CarefulTurn ==
  ASSUME NEW buf \in Seq(Units), NEW d, NEW m, LoopInv(buf, d, m), ~Over(buf, m),
         Careful(buf, m), NEW canOpen,
         NEW next, next = Turn(buf, d, [m EXCEPT !.falls = FALSE], canOpen)
  PROVE  Careful(buf, next)
<1>1. PICK t : t = [m EXCEPT !.falls = FALSE]
  OBVIOUS
<1>2. m \in Loops /\ ~m.done /\ Running(buf, d, m) /\ Numbered(m.rd, m.ss)
  BY DEF LoopInv, Over
<1>3. /\ t \in Loops /\ ~t.falls /\ t.cur = m.cur /\ t.ss = m.ss /\ t.rd = m.rd /\ t.left = m.left
      /\ ~t.done /\ (t.ok <=> m.ok) /\ (t.dies <=> m.dies)
  BY <1>1, <1>2 DEF Loops
<1>4. Len(buf) \in Nat /\ Len(buf) >= 1
  BY <1>2, LenProperties DEF Over, Running
<1>5. t.ok = ~Complete(d)
  <2>1. t.ok \in BOOLEAN /\ (t.ok <=> ~Complete(d))
    BY <1>2, <1>3 DEF Running, Loops
  <2> QED
    BY <2>1 DEF Complete
<1>6. Working(buf, d, t)
  BY <1>2, <1>3, <1>4, <1>5 DEF Working, Running
<1>9. next = Turn(buf, d, t, canOpen)
  BY <1>1
<1>10. t.ss.state \in {"INITIALIZATION", "FIND_DATA_BLOCK", "GET_DATA_BLOCK_TYPE", "COPY_DATA_BLOCK",
                       "SAVE_DATA_BLOCK"}
  BY <1>3 DEF Loops, MultipartStates
<1>7. ASSUME NEW ok, NEW left, Stops(t, next, ok, left), t.ss.state # "COPY_DATA_BLOCK"
      PROVE  Careful(buf, next)
  BY <1>7 DEF Stops, Careful, Copies
<1>8. ASSUME ~next.done, next.ss.state # "COPY_DATA_BLOCK" PROVE Careful(buf, next)
  BY <1>8 DEF Careful, Copies
<1>11. CASE t.ss.state = "INITIALIZATION"
  <2>1. next = Initialization(buf, d, t)
    BY <1>9, <1>11 DEF Turn
  <2>2. \/ ~t.ss.boundary /\ Stops(t, next, FALSE, 0)
        \/ Len(buf) < 3 /\ Stops(t, next, ~Complete(d), Len(buf))
        \/ /\ Len(buf) >= 3 /\ buf[1].t = "bnd" /\ buf[2].t = "fin" /\ buf[3].t = "nl"
           /\ Stops(t, next, d.full = 3 /\ Complete(d), 0)
        \/ Len(buf) >= 3 /\ buf[1].t # "bnd" /\ Stops(t, next, FALSE, 0)
        \/ /\ Len(buf) >= 3 /\ ~(buf[1].t = "bnd" /\ buf[2].t = "fin" /\ buf[3].t = "nl")
           /\ Goes(t, next, 3, "GET_DATA_BLOCK_TYPE")
    BY <1>6, <1>11, <2>1, InitializationIs
  <2> QED
    BY <1>7, <1>8, <1>11, <2>2, Zenon DEF Goes
<1>12. CASE t.ss.state = "FIND_DATA_BLOCK"
  <2>1. next = FindDataBlock(buf, d, t)
    BY <1>9, <1>12 DEF Turn
  <2>2. LET left == Len(buf) - t.cur + 1
        IN  \/ left < 4 /\ Stops(t, next, ~Complete(d), left)
            \/ /\ left >= 4 /\ buf[t.cur + 2].t = "fin" /\ Stops(t, next, Complete(d), left - 4)
            \/ /\ left >= 4 /\ ~(buf[t.cur + 2].t = "fin" /\ buf[t.cur + 3].t = "nl")
               /\ Goes(t, next, t.cur + 3, "GET_DATA_BLOCK_TYPE")
    BY <1>6, <1>12, <2>1, FindDataBlockIs
  <2> QED
    BY <1>7, <1>8, <1>12, <2>2, Zenon DEF Goes
<1>13. CASE t.ss.state = "GET_DATA_BLOCK_TYPE"
  <2>1. next = GetDataBlockType(buf, d, t, canOpen)
    BY <1>9, <1>13 DEF Turn
  <2>2. PICK end, header : end = Find(buf, EmptyLine, t.cur) /\ header = PartHeader(buf, t.cur, end)
    OBVIOUS
  <2>3. TypeFound(buf, d, t, end, header, next)
    BY <1>6, <1>13, <2>1, <2>2, GetDataBlockTypeIs
  <2>4. ASSUME end # NotFound, ~next.done, next.cur = end + 2, next.ss.state = "COPY_DATA_BLOCK",
               next.ss.type = (IF header.t = "part" THEN "DATA" ELSE "FILE"), next.falls
        PROVE  Careful(buf, next)
    <3>1. ASSUME next.ss.type = "DATA" PROVE HeaderEnds(buf, end + 2)
      <4>1. header.t = "part"
        BY <2>4, <3>1
      <4>2. t.cur \in Nat \ {0}
        BY <1>6 DEF Working, Running
      <4> QED
        BY <2>2, <2>4, <4>1, <4>2, FieldHeader
    <3> QED
      BY <2>4, <3>1 DEF Careful, Copies
  <2> QED
    BY <1>7, <1>13, <2>3, <2>4, Zenon DEF TypeFound
<1>14. CASE t.ss.state = "COPY_DATA_BLOCK"
  <2>1. next = CopyDataBlock(buf, d, t)
    BY <1>9, <1>14 DEF Turn
  <2>2. t.ss.type = "DATA" => (t.cur = 1 /\ Len(buf) >= 2) \/ HeaderEnds(buf, t.cur)
    BY <1>2, <1>3, <1>14 DEF Careful, Copies
  <2> QED
    BY <1>6, <1>14, <2>1, <2>2, CarefulCopy
<1>15. CASE t.ss.state = "SAVE_DATA_BLOCK"
  <2>1. next = SaveDataBlock(t)
    BY <1>9, <1>15 DEF Turn
  <2>2. ~next.done /\ next.ss.state = "FIND_DATA_BLOCK"
    BY <1>6, <2>1, SaveDataBlockIs
  <2> QED
    BY <1>8, <2>2
<1> QED
  BY <1>10, <1>11, <1>12, <1>13, <1>14, <1>15

\* What comes of a chunk, as far as it ends the process or may.
Survives(buf, got) ==
  /\ got.dies => Short(buf)
  /\ got.ok /\ Copies(got.dr.ss) => got.dr.left = 2 /\ Len(buf) >= 2

\* The end of the loop: the parser has survived the chunk.
LEMMA CarefulOver ==
  ASSUME NEW buf \in Seq(Units), NEW d, NEW m, LoopInv(buf, d, m), Over(buf, m), Careful(buf, m),
         NEW got, got = ParsedFrom(d, m), "ss" \in DOMAIN d, "left" \in DOMAIN d
  PROVE  Survives(buf, got)
<1>1. got.dr = [d EXCEPT !.left = m.left, !.ss = m.ss] /\ (got.ok <=> m.ok) /\ (got.dies <=> m.dies)
  BY DEF ParsedFrom
<1>2. got.dr.left = m.left /\ got.dr.ss = m.ss
  BY <1>1
<1>3. CASE m.done
  <2>1. m.dies => Short(buf)
    BY <1>3 DEF Careful
  <2>2. m.ok /\ Copies(got.dr.ss) => m.left = 2 /\ Len(buf) >= 2
    BY <1>2, <1>3 DEF Careful
  <2> QED
    BY <1>1, <1>2, <2>1, <2>2 DEF Survives
<1>4. CASE ~m.done
  <2>1. Running(buf, d, m) /\ m.cur > Len(buf) /\ ~m.falls
    BY <1>4 DEF LoopInv, Over
  <2>2. ~m.dies
    BY <2>1 DEF Running
  <2>3. ~Copies(got.dr.ss)
    <3> SUFFICES ASSUME Copies(m.ss) PROVE FALSE
      BY <1>2
    <3>1. m.cur = 1 /\ Len(buf) >= 2
      BY <1>4, <2>1 DEF Careful
    <3>2. Len(buf) \in Nat
      BY LenProperties
    <3> QED
      BY <2>1, <3>1, <3>2
  <2> QED
    BY <1>1, <2>2, <2>3 DEF Survives
<1> QED
  BY <1>3, <1>4

\* The parser of multipart bodies ends the process only in a chunk that stops less than a
\* delimiter behind the header of a field's block, whatever the chunk holds and wherever the
\* call before has left off.
THEOREM MultipartSurvives ==
  ASSUME NEW buf \in Seq(Units), NEW data, NEW d, Parsable(buf, data, d),
         Copies(d.ss) => Len(buf) >= 2, NEW canOpen
  PROVE  Survives(buf, ParseMultipart(buf, data, d, canOpen))
<1> DEFINE turn == NextTurn(buf, d, canOpen)
           start == LoopStart(data, d)
           got == ParseMultipart(buf, data, d, canOpen)
<1>1. PICK f : /\ LoopUpTo(turn, start, f, Turns(buf))
               /\ \A k \in 0 .. Turns(buf) : LoopInv(buf, d, f[k])
               /\ Over(buf, f[Turns(buf)])
               /\ got = ParsedFrom(d, f[Turns(buf)])
  BY MultipartIsParsed, Zenon
<1>2. PICK last \in Nat : last = Turns(buf)
  BY LenProperties DEF Turns
<1>3. \A k \in 0 .. last : f[k] = IF k # 0 THEN turn[f[k - 1]] ELSE start
  BY <1>1, <1>2 DEF LoopUpTo
<1>4. \A m \in Loops : turn[m] = IF Over(buf, m) THEN m
                                 ELSE Turn(buf, d, [m EXCEPT !.falls = FALSE], canOpen)
  BY Zenon DEF NextTurn
<1>5. Careful(buf, start)
  <2>1. ~start.done /\ start.cur = 1 /\ start.ss = d.ss
    BY DEF LoopStart
  <2> HIDE DEF start
  <2> QED
    BY <2>1 DEF Careful
<1> HIDE DEF turn, start, got
<1> DEFINE T == { k \in Nat : k \in 0 .. last => Careful(buf, f[k]) }
<1>6. 0 \in T
  BY <1>3, <1>5
<1>7. ASSUME NEW k \in T PROVE k + 1 \in T
  <2>0. k \in Nat /\ k + 1 \in Nat
    OBVIOUS
  <2> SUFFICES ASSUME k + 1 \in 0 .. last PROVE Careful(buf, f[k + 1])
    BY <2>0, Zenon
  <2>1. k \in 0 .. last /\ k + 1 # 0 /\ (k + 1) - 1 = k
    OBVIOUS
  <2>2. Careful(buf, f[k])
    BY <2>1, Zenon
  <2>3. f[k + 1] = turn[f[k]]
    BY <1>3, <2>1
  <2>4. LoopInv(buf, d, f[k]) /\ f[k] \in Loops
    BY <1>1, <1>2, <2>1 DEF LoopInv
  <2> HIDE DEF T
  <2>5. CASE Over(buf, f[k])
    <3>1. f[k + 1] = f[k]
      BY <1>4, <2>3, <2>4, <2>5
    <3> QED
      BY <2>2, <3>1
  <2>6. CASE ~Over(buf, f[k])
    <3>1. f[k + 1] = Turn(buf, d, [f[k] EXCEPT !.falls = FALSE], canOpen)
      BY <1>4, <2>3, <2>4, <2>6
    <3> QED
      BY <2>2, <2>4, <2>6, <3>1, CarefulTurn
  <2> QED
    BY <2>5, <2>6
<1>8. T = Nat
  <2> HIDE DEF T
  <2>1. T \subseteq Nat
    BY DEF T
  <2> QED
    BY <1>6, <1>7, <2>1, NatSetInduction
<1>9. Careful(buf, f[last])
  <2>1. last \in T /\ last \in 0 .. last
    BY <1>8
  <2> QED
    BY <2>1, Zenon DEF T
<1> HIDE DEF T
<1>10. LoopInv(buf, d, f[last]) /\ Over(buf, f[last]) /\ got = ParsedFrom(d, f[last])
  BY <1>1, <1>2
<1>11. "ss" \in DOMAIN d /\ "left" \in DOMAIN d
  BY DEF Parsable, Receivers
<1>12. Survives(buf, got)
  BY <1>9, <1>10, <1>11, CarefulOver
<1> QED
  BY <1>12 DEF got

-----------------------------------------------------------------------------
(* A body, whatever its variant is                                           *)

\* Where a parser stands in a body: in front of the first unit that it has left over.
BodyAt(text, q, r, base, top, ss, data) ==
  IF q.variant = "multipart"
  THEN \E n \in Nat : \E b : /\ Laid(text, q, r, n, b) /\ Where(text, q, r, n, b, base + 1, top, ss, data)
                             /\ ss.state = "COPY_DATA_BLOCK" => base + 2 <= top
  ELSE \E n \in Nat : \E a : Paired(text, q, r, n, a) /\ AtPair(q, r, n, a, base, data)

\* What comes of a chunk.
BodyGoes(text, q, r, top, buf, d, got) ==
  /\ got.ok /\ ~Complete(d) =>
       got.dr.left \in 0 .. Len(buf) /\ BodyAt(text, q, r, top - got.dr.left, top, got.dr.ss, got.rd)
  /\ got.ok /\ Complete(d) => BodyArrived(q, r, got.rd.fields, got.rd.files)
  /\ ~got.ok /\ ~got.dies /\ Complete(d) => q.variant = "multipart" /\ Refusable(q, Len(q.items))

\* More of the text behind the place makes no difference.
LEMMA WhereLater ==
  ASSUME NEW text, NEW q, NEW r, NEW n, NEW b, NEW p, NEW top \in Nat, NEW later \in Nat, top <= later,
         NEW ss, NEW data, Where(text, q, r, n, b, p, top, ss, data), \A k \in 1 .. n : b[k] \in Nat
  PROVE  Where(text, q, r, n, b, p, later, ss, data)
<1>1. ASSUME NEW k \in 1 .. n, Within(text, q, r, b, k, p, top, ss, data)
      PROVE  Within(text, q, r, b, k, p, later, ss, data)
  <2>1. b[k] + 4 <= later
    <3>1. b[k] + 4 <= top /\ b[k] \in Nat
      BY <1>1 DEF Within
    <3> QED
      BY <3>1
  <2> QED
    BY <1>1, <2>1 DEF Within
<1> QED
  BY <1>1 DEF Where

\* A body before its first unit.
LEMMA BodyBegins ==
  ASSUME NEW q \in Requests, WellFramed(q), NEW r \in Nat, NEW text, text = Tokens(BodyText(q), r),
         NEW ss, q.variant = "multipart" => ss = StateMultipart(q.boundary)
  PROVE  BodyAt(text, q, r, 0, 0, ss, NoData)
<1>1. CASE q.variant = "multipart"
  <2>1. PICK n \in Nat : \E b : Laid(text, q, r, n, b)
    BY <1>1, LaidExists
  <2>2. PICK b : Laid(text, q, r, n, b)
    BY <2>1
  <2>3. ss.state = "INITIALIZATION" /\ ss.boundary = q.boundary
    BY <1>1 DEF StateMultipart
  <2>4. Where(text, q, r, n, b, 0 + 1, 0, ss, NoData)
    BY <2>3 DEF Where
  <2> QED
    BY <1>1, <2>2, <2>3, <2>4 DEF BodyAt
<1>2. CASE q.variant # "multipart"
  <2>1. PICK n \in Nat : \E a : Paired(text, q, r, n, a)
    BY <1>2, PairedExists
  <2>2. PICK a : Paired(text, q, r, n, a)
    BY <2>1
  <2>3. 1 \in 1 .. n + 1 /\ 0 = a[1]
    BY <2>2 DEF Paired
  <2>4. SoFar(q, r, 1, NoData)
    <3>1. 1 - 1 = 0 /\ <<>> = [i \in 1 .. 0 |-> Expected(q, r)[i]]
      OBVIOUS
    <3> QED
      BY <3>1 DEF SoFar, NoData
  <2>5. AtPair(q, r, n, a, 0, NoData)
    BY <2>3, <2>4 DEF AtPair
  <2> QED
    BY <1>2, <2>2, <2>5 DEF BodyAt
<1> QED
  BY <1>1, <1>2

\* What a call of parse is given: what it left over and what was received since.
Given(text, q, r, base, before, top, buf, data, d) ==
  /\ q \in Requests /\ WellFramed(q) /\ Escaped(q) /\ r \in Nat
  /\ text = Tokens(BodyText(q), r) /\ text \in Seq(Units)
  /\ base \in Nat /\ before \in Nat /\ top \in Nat /\ base <= before /\ before <= top /\ top <= Len(text)
  /\ buf \in Seq(Units) /\ Piece(buf, text, base, top)
  /\ BodyAt(text, q, r, base, before, d.ss, data)
  /\ d.recv = top /\ d.full = Len(text) /\ d.left = 0 /\ "left" \in DOMAIN d
  /\ buf # <<>> \/ ~Complete(d) \/ Len(text) = 0

\* A chunk of a body of parts takes the parser to the place of the next one.
LEMMA PartsGo ==
  ASSUME NEW text, NEW q, NEW r, NEW base, NEW before, NEW top, NEW buf, NEW data, NEW d,
         Given(text, q, r, base, before, top, buf, data, d), q.variant = "multipart", Parsable(buf, data, d),
         NEW canOpen, NEW got, got = ParseMultipart(buf, data, d, canOpen)
  PROVE  BodyGoes(text, q, r, top, buf, d, got)
<1>1. PICK n \in Nat : \E b : /\ Laid(text, q, r, n, b) /\ Where(text, q, r, n, b, base + 1, before, d.ss, data)
                              /\ d.ss.state = "COPY_DATA_BLOCK" => base + 2 <= before
  BY DEF Given, BodyAt
<1>2. PICK b : /\ Laid(text, q, r, n, b) /\ Where(text, q, r, n, b, base + 1, before, d.ss, data)
               /\ d.ss.state = "COPY_DATA_BLOCK" => base + 2 <= before
  BY <1>1
<1>3. /\ text \in Seq(Units) /\ r \in Nat /\ buf \in Seq(Units) /\ base \in Nat /\ before \in Nat /\ top \in Nat
      /\ before <= top /\ Piece(buf, text, base, top) /\ n = Len(q.items)
  BY <1>2 DEF Given, Laid
<1>4. Chunk(text, q, r, n, b, buf, base, top, d)
  BY <1>2 DEF Given, Chunk
<1>5. \A k \in 1 .. n : b[k] \in Nat
  BY <1>2 DEF Laid
<1>6. Where(text, q, r, n, b, base + 1, top, d.ss, data)
  BY <1>2, <1>3, <1>5, WhereLater
<1>7. d.ss.state = "COPY_DATA_BLOCK" => Len(buf) >= 2
  <2>1. Len(buf) = top - base
    BY <1>3 DEF Piece
  <2> QED
    BY <1>2, <1>3, <2>1
<1>8. ChunkParsed(text, q, r, n, b, top, buf, d, got)
  BY <1>3, <1>4, <1>6, <1>7, MultipartChunksJoin
<1>9. ASSUME got.ok, ~Complete(d)
      PROVE  got.dr.left \in 0 .. Len(buf) /\ BodyAt(text, q, r, top - got.dr.left, top, got.dr.ss, got.rd)
  <2>1. /\ got.dr.left \in 0 .. Len(buf)
        /\ Where(text, q, r, n, b, top - got.dr.left + 1, top, got.dr.ss, got.rd)
        /\ got.dr.ss.state = "COPY_DATA_BLOCK" => got.dr.left = 2
    BY <1>8, <1>9 DEF ChunkParsed
  <2>2. PICK rest : rest = top - got.dr.left
    OBVIOUS
  <2>3. got.dr.ss.state = "COPY_DATA_BLOCK" => rest + 2 <= top
    <3> HAVE got.dr.ss.state = "COPY_DATA_BLOCK"
    <3>1. rest = top - 2
      BY <2>1, <2>2
    <3> QED
      BY <1>3, <3>1
  <2> QED
    BY <1>2, <2>1, <2>2, <2>3 DEF BodyAt
<1>10. q.variant = "multipart" /\ n = Len(q.items)
  BY <1>3
<1>11. ASSUME got.ok, Complete(d) PROVE BodyArrived(q, r, got.rd.fields, got.rd.files)
  BY <1>8, <1>10, <1>11 DEF ChunkParsed, BodyArrived
<1> QED
  BY <1>8, <1>9, <1>10, <1>11 DEF BodyGoes, ChunkParsed

\* A chunk of a form or of plain text takes the parser to the place of the next one.
LEMMA FieldsGoOn ==
  ASSUME NEW text, NEW q, NEW r, NEW base, NEW before, NEW top, NEW buf, NEW data, NEW d,
         Given(text, q, r, base, before, top, buf, data, d), q.variant # "multipart", NoFiles(data), NEW got,
         \/ q.variant = "form" /\ got = ParseFormUrlencoded(buf, data, d)
         \/ q.variant # "form" /\ got = ParseTextPlain(buf, data, d)
  PROVE  BodyGoes(text, q, r, top, buf, d, got)
<1>1. PICK n \in Nat : \E a : Paired(text, q, r, n, a) /\ AtPair(q, r, n, a, base, data)
  BY DEF Given, BodyAt
<1>2. PICK a : Paired(text, q, r, n, a) /\ AtPair(q, r, n, a, base, data)
  BY <1>1
<1>3. /\ text \in Seq(Units) /\ r \in Nat /\ buf \in Seq(Units) /\ base \in Nat /\ top \in Nat
      /\ base <= top /\ top <= Len(text) /\ Piece(buf, text, base, top)
      /\ "left" \in DOMAIN d /\ d.left = 0 /\ d.full = Len(text) /\ d.recv = top
      /\ buf # <<>> \/ ~Complete(d) \/ Len(text) = 0
  BY DEF Given
<1>4. Signed(q, n)
  <2>1. DOMAIN q.items = 1 .. n
    BY <1>2 DEF Paired
  <2>2. q.items \in Seq(Items) /\ Escaped(q)
    BY DEF Given, Requests
  <2>3. ASSUME NEW i \in 1 .. n PROVE q.items[i] \in Items /\ SignFree(q.items[i])
    <3>1. i \in DOMAIN q.items
      BY <2>1
    <3>2. q.items[i] \in Items
      BY <2>2, <3>1, ElementOfSeq, LenProperties
    <3> QED
      BY <2>2, <3>1, <3>2, EscapedSigns
  <2> QED
    BY <2>3 DEF Signed
<1>5. FieldsGo(q, r, n, a, top, buf, d, got)
  BY <1>2, <1>3, <1>4, FieldChunksJoin
<1>6. ASSUME ~Complete(d)
      PROVE  got.dr.left \in 0 .. Len(buf) /\ BodyAt(text, q, r, top - got.dr.left, top, got.dr.ss, got.rd)
  BY <1>2, <1>5, <1>6 DEF FieldsGo, BodyAt
<1>7. ASSUME Complete(d) PROVE BodyArrived(q, r, got.rd.fields, got.rd.files)
  BY <1>5, <1>7 DEF FieldsGo, BodyArrived
<1> QED
  BY <1>5, <1>6, <1>7 DEF BodyGoes, FieldsGo

\* A call of parse goes from one place of the body to another.
LEMMA BodyMoves ==
  ASSUME NEW text, NEW q, NEW r, NEW base, NEW before, NEW top, NEW buf, NEW data, NEW d,
         Given(text, q, r, base, before, top, buf, data, d), q = script[req.head],
         q.variant \in {"form", "text", "multipart"},
         IF q.variant = "multipart" THEN Parsable(buf, data, d) ELSE NoFiles(data) /\ d.ss = NoState,
         NEW canOpen, NEW got, got = Parse(buf, data, d, canOpen)
  PROVE  BodyGoes(text, q, r, top, buf, d, got)
<1>1. CASE q.variant = "multipart"
  <2>1. got = ParseMultipart(buf, data, d, canOpen)
    BY <1>1 DEF Parse
  <2> QED
    BY <1>1, <2>1, PartsGo
<1>2. CASE q.variant # "multipart"
  <2>1. \/ q.variant = "form" /\ got = ParseFormUrlencoded(buf, data, d)
        \/ q.variant # "form" /\ got = ParseTextPlain(buf, data, d)
    BY <1>2 DEF Parse
  <2> QED
    BY <1>2, <2>1, FieldsGoOn
<1> QED
  BY <1>1, <1>2

\* A form or a plain text is never refused when it holds something, and ends no process.
LEMMA FieldsAreTaken ==
  ASSUME NEW buf, NEW data, NEW d, NEW got,
         got = ParseFormUrlencoded(buf, data, d) \/ got = ParseTextPlain(buf, data, d)
  PROVE  ~got.dies /\ (buf # <<>> \/ ~Complete(d) \/ d.full = 0 => got.ok)
<1>1. CASE buf = <<>>
  <2>1. got = Parsed(d.full = 0 \/ ~Complete(d), d, data)
    BY <1>1, Zenon DEF ParseFormUrlencoded, ParseTextPlain, ParsePieces
  <2> QED
    BY <1>1, <2>1 DEF Parsed
<1>2. CASE buf # <<>>
  <2>1. \E d1, rd1 : got = Parsed(TRUE, d1, rd1)
    BY <1>2, Zenon DEF ParseFormUrlencoded, ParseTextPlain, ParsePieces
  <2>2. PICK x, y : got = Parsed(TRUE, x, y)
    BY <2>1
  <2> QED
    BY <2>2 DEF Parsed
<1> QED
  BY <1>1, <1>2

\* The same of every body.
BodySurvives(q, buf, got) ==
  /\ got.dies => Short(buf)
  /\ q.variant = "multipart" /\ got.ok /\ Copies(got.dr.ss) => got.dr.left = 2 /\ Len(buf) >= 2

\* A chunk of any variant: what the parser survives, and that it refuses no form.
LEMMA ParseSurvives ==
  ASSUME NEW q, q = script[req.head], q.variant \in {"form", "text", "multipart"},
         NEW buf \in Seq(Units), NEW data, NEW d,
         IF q.variant = "multipart" THEN Parsable(buf, data, d) ELSE NoFiles(data) /\ d.ss = NoState,
         q.variant = "multipart" /\ Copies(d.ss) => Len(buf) >= 2,
         NEW canOpen, NEW got, got = Parse(buf, data, d, canOpen)
  PROVE  /\ BodySurvives(q, buf, got)
         /\ q.variant # "multipart" /\ (buf # <<>> \/ ~Complete(d) \/ d.full = 0) => got.ok
<1>1. CASE q.variant = "multipart"
  <2>1. got = ParseMultipart(buf, data, d, canOpen)
    BY <1>1 DEF Parse
  <2>2. Survives(buf, got)
    BY <1>1, <2>1, MultipartSurvives
  <2> QED
    BY <1>1, <2>2 DEF Survives, BodySurvives
<1>2. CASE q.variant # "multipart"
  <2>1. got = ParseFormUrlencoded(buf, data, d) \/ got = ParseTextPlain(buf, data, d)
    BY <1>2 DEF Parse
  <2>2. ~got.dies /\ (buf # <<>> \/ ~Complete(d) \/ d.full = 0 => got.ok)
    BY <2>1, FieldsAreTaken
  <2> QED
    BY <1>2, <2>2 DEF BodySurvives
<1> QED
  BY <1>1, <1>2

-----------------------------------------------------------------------------
(* A body in the stream of a script                                          *)

\* The body of the request that comes next.
TextOf(s, r) == Tokens(BodyText(s[r]), r)

\* It stands in the stream behind the head of its request.
StandsAt(stream, at, text, size) ==
  /\ text \in Seq(Units) /\ size = Len(text)
  /\ \A i \in 1 .. size : stream[at + i] = text[i]

\* The body of the next request stands in the stream behind its head.
LEMMA TextStands ==
  ASSUME NEW s \in Scripts, NEW n \in Nat, n + 1 <= Len(s)
  PROVE  \E at \in Nat, size \in Nat :
           /\ at = Start(s, n) + 3 /\ StandsAt(StreamOf[s], at, TextOf(s, n + 1), size)
           /\ size = Len(BodyText(s[n + 1]))
<1>1. n + 1 \in DOMAIN s /\ n + 1 \in Nat
  <2>1. DOMAIN s = 1 .. Len(s) /\ Len(s) \in Nat
    BY ConnectionAssumption, LenProperties
  <2> QED
    BY <2>1
<1>2. PICK words \in Texts : words = BodyText(s[n + 1])
  BY <1>1, MessageTyped
<1>3. PICK size \in Nat : size = Len(words)
  BY <1>2, LenProperties DEF Texts
<1>4. PICK at \in Nat : at = Start(s, n) + 3
  <2>1. Start(s, n) \in Nat
    BY RequestAt
  <2> QED
    BY <2>1
<1>5. PICK text : text = Tokens(words, n + 1)
  OBVIOUS
<1>6. /\ text \in Seq(Units) /\ size = Len(text)
      /\ \A i \in 1 .. size : text[i] = [t |-> words[i], r |-> n + 1]
  BY <1>1, <1>3, <1>5, TokenAt
<1>7. \A i \in 1 .. size : StreamOf[s][at + i] = [t |-> words[i], r |-> n + 1]
  BY <1>2, <1>3, <1>4, RequestAt
<1>8. StandsAt(StreamOf[s], at, text, size)
  BY <1>6, <1>7 DEF StandsAt
<1> QED
  BY <1>2, <1>3, <1>4, <1>5, <1>8 DEF TextOf

\* What was cut out of the stream inside a body was cut out of the body.
LEMMA PieceOfText ==
  ASSUME NEW stream, NEW at \in Nat, NEW text, NEW size \in Nat, StandsAt(stream, at, text, size),
         NEW buf, NEW x \in Nat, NEW y \in Nat, y <= size, NEW from, from = at + x, NEW to, to = at + y,
         Piece(buf, stream, from, to)
  PROVE  Piece(buf, text, x, y)
<1>1. to - from = y - x /\ (from <= to => x <= y)
  OBVIOUS
<1>2. x <= y /\ Len(buf) = y - x /\ \A i \in 1 .. y - x : buf[i] = stream[from + i]
  BY <1>1 DEF Piece
<1>3. ASSUME NEW i \in 1 .. y - x PROVE buf[i] = text[x + i]
  <2>1. x + i \in 1 .. size /\ from + i = at + (x + i)
    BY <1>2
  <2>2. buf[i] = stream[at + (x + i)]
    BY <1>2, <2>1
  <2> QED
    BY <2>1, <2>2 DEF StandsAt
<1> QED
  BY <1>2, <1>3 DEF Piece

\* A body without a zero byte.
LEMMA TextZeroFree ==
  ASSUME NEW s \in Scripts, NEW n \in Nat, n + 1 <= Len(s), ZeroFree(s[n + 1]), NEW size \in Nat,
         size = Len(BodyText(s[n + 1]))
  PROVE  \A i \in 1 .. size : TextOf(s, n + 1)[i].t # "zero"
<1>1. n + 1 \in DOMAIN s /\ n + 1 \in Nat
  <2>1. DOMAIN s = 1 .. Len(s) /\ Len(s) \in Nat
    BY ConnectionAssumption, LenProperties
  <2> QED
    BY <2>1
<1>2. PICK words \in Texts : words = BodyText(s[n + 1])
  BY <1>1, MessageTyped
<1>3. PICK text : text = Tokens(words, n + 1)
  OBVIOUS
<1>4. \A i \in 1 .. size : text[i].t = words[i]
  <2>1. \A i \in 1 .. Len(words) : Tokens(words, n + 1)[i].t = words[i]
    BY <1>1, TokenAt
  <2> QED
    BY <1>2, <1>3, <2>1
<1>5. ASSUME NEW i \in 1 .. size PROVE words[i] # "zero"
  <2>1. DOMAIN words = 1 .. size
    BY <1>2, LenProperties DEF Texts
  <2>2. "zero" \notin ToSet(words)
    BY <1>2 DEF ZeroFree
  <2> QED
    BY <2>1, <2>2 DEF ToSet
<1> QED
  BY <1>2, <1>3, <1>4, <1>5 DEF TextOf

\* The first chunk of a body.
LEMMA FirstOfText ==
  ASSUME NEW s \in Scripts, NEW n \in Nat, n + 1 <= Len(s), WellFramed(s[n + 1]),
         NEW text, text = TextOf(s, n + 1), NEW strings \in Seq(SentBy(s)), NEW top \in Nat,
         Piece(strings, StreamOf[s], Start(s, n) + 3, top),
         NEW here, here = Least(Len(strings), ContentLengthOf(s[n + 1]))
  PROVE  /\ text \in Seq(Units) /\ here \in Nat /\ here <= Len(text)
         /\ Piece(SubSeq(strings, 1, here), text, 0, here)
         /\ ContentLengthOf(s[n + 1]) = Len(text) /\ Len(text) = Len(BodyText(s[n + 1]))
<1>1. PICK stream : stream = StreamOf[s]
  OBVIOUS
<1>2. PICK at \in Nat, size \in Nat :
        at = Start(s, n) + 3 /\ StandsAt(stream, at, text, size) /\ size = Len(BodyText(s[n + 1]))
  BY <1>1, TextStands
<1>3. PICK len \in Nat : len = Len(strings)
  BY LenProperties
<1>4. ContentLengthOf(s[n + 1]) = size
  BY <1>2 DEF ContentLengthOf, WellFramed
<1>5. here \in Nat /\ here <= len /\ here <= size
  BY <1>3, <1>4 DEF Least
<1>6. Piece(strings, stream, at, top)
  BY <1>1, <1>2
<1>7. at <= top /\ len = top - at
  BY <1>3, <1>6 DEF Piece
<1>8. at + here <= top
  BY <1>5, <1>7
<1>9. PICK buf : buf = SubSeq(strings, 1, here) /\ Piece(buf, stream, at, at + here)
  BY <1>5, <1>6, <1>8, PieceCut
<1>10. at + 0 = at /\ 0 \in Nat
  OBVIOUS
<1>11. Piece(buf, text, 0, here)
  <2>1. PICK x \in Nat, y \in Nat : x = 0 /\ y = here
    BY <1>5
  <2>2. PICK from, to : from = at + x /\ to = at + y
    OBVIOUS
  <2>3. Piece(buf, stream, from, to) /\ y <= size
    BY <1>5, <1>9, <1>10, <2>1, <2>2
  <2>4. StandsAt(stream, at, text, size)
    BY <1>2
  <2>5. Piece(buf, text, x, y)
    BY <2>2, <2>3, <2>4, PieceOfText
  <2> QED
    BY <2>1, <2>5
<1>12. text \in Seq(Units) /\ Len(text) = size
  BY <1>2 DEF StandsAt
<1> QED
  BY <1>2, <1>4, <1>5, <1>9, <1>11, <1>12

\* A segment of a body without a zero byte is appended whole.
LEMMA SegmentOfText ==
  ASSUME Texted, dr.recv \in Nat, dr.full \in Nat, dr.recv <= dr.full, NEW n \in Nat, n + 1 <= Len(script),
         ZeroFree(script[n + 1]), NEW text, text = TextOf(script, n + 1),
         dr.full = Len(BodyText(script[n + 1])),
         taken = Start(script, n) + 3 + dr.recv, NEW m \in 1 .. Least(Available, dr.full - dr.recv)
  PROVE  /\ text \in Seq(Units) /\ dr.full = Len(text) /\ m \in Nat /\ dr.recv + m <= dr.full
         /\ Piece(CString(Segment(m)), text, dr.recv, dr.recv + m)
<1>1. script \in Scripts
  BY DEF Texted
<1>2. PICK top \in Nat : top = dr.recv
  OBVIOUS
<1>3. PICK s \in Scripts : s = script
  BY <1>1
<1>4. PICK stream : stream = StreamOf[s]
  OBVIOUS
<1>5. PICK at \in Nat, size \in Nat :
        at = Start(s, n) + 3 /\ StandsAt(stream, at, text, size) /\ size = Len(BodyText(s[n + 1]))
  BY <1>3, <1>4, TextStands
<1>6. dr.full = size /\ taken = at + top
  BY <1>2, <1>3, <1>5
<1>7. dr.full - dr.recv \in Nat
  OBVIOUS
<1>8. /\ Segment(m) \in Seq(SentBy(script)) /\ Len(Segment(m)) = m
      /\ m \in Nat /\ m <= dr.full - dr.recv /\ m >= 1
  BY <1>7, SegmentTyped
<1>9. top + m <= size
  BY <1>2, <1>6, <1>8
<1>10. Piece(Segment(m), stream, taken, taken + m)
  BY <1>3, <1>4, <1>7, SegmentPiece
<1>11. Piece(Segment(m), text, top, top + m)
  <2>1. taken + m = at + (top + m) /\ top + m \in Nat
    BY <1>6, <1>8
  <2>2a. PICK buf, from, to : buf = Segment(m) /\ from = taken /\ to = taken + m
    OBVIOUS
  <2>2. PICK y \in Nat :
          y = top + m /\ buf = Segment(m) /\ from = taken /\ to = taken + m
    BY <2>1, <2>2a
  <2>3. Piece(buf, stream, from, to) /\ from = at + top /\ to = at + y /\ y <= size
    BY <1>6, <1>9, <1>10, <2>1, <2>2
  <2>4. Piece(buf, text, top, y)
    BY <1>5, <2>3, PieceOfText
  <2> QED
    BY <2>2, <2>4
<1>12. PICK seg \in Seq(SentBy(script)) : seg = Segment(m) /\ Len(seg) = m
  BY <1>8
<1>13. CString(seg) = seg
  <2>1. /\ CString(seg) \in Seq(SentBy(script)) /\ Len(CString(seg)) \in 0 .. Len(seg)
        /\ \A i \in 1 .. Len(CString(seg)) : CString(seg)[i] = seg[i]
        /\ Len(CString(seg)) < Len(seg) => seg[Len(CString(seg)) + 1].t = "zero"
    BY CStringTyped
  <2>2. PICK len \in Nat : len = Len(CString(seg)) /\ len <= m
    BY <1>8, <1>12, <2>1
  <2>3. ASSUME len < m PROVE FALSE
    <3>1. seg[len + 1].t = "zero"
      BY <1>12, <2>1, <2>2, <2>3
    <3>2. len + 1 \in 1 .. (top + m) - top /\ top + (len + 1) \in 1 .. size
      BY <1>8, <1>9, <2>2, <2>3
    <3>3. seg[len + 1] = text[top + (len + 1)]
      BY <1>11, <1>12, <3>2 DEF Piece
    <3>4. text[top + (len + 1)].t # "zero"
      BY <1>3, <1>5, <3>2, TextZeroFree
    <3> QED
      BY <3>1, <3>3, <3>4
  <2>4. len = m
    BY <1>8, <2>2, <2>3
  <2> QED
    BY <1>12, <2>1, <2>2, <2>4, SeqEqual
<1>14. text \in Seq(Units) /\ Len(text) = size
  BY <1>5 DEF StandsAt
<1>15. dr.recv + m = top + m /\ dr.recv = top
  BY <1>2
<1> QED
  BY <1>6, <1>8, <1>9, <1>11, <1>12, <1>13, <1>14, <1>15

-----------------------------------------------------------------------------
(* The bodies of a connection                                                *)

\* A request whose body is found in the stream and has no zero byte.
Sound(n) == Framed(n) /\ ZeroFree(script[n])

\* Between two chunks data_buf ends with what parse left over, and this is the body from the place
\* where the parser stands up to what was received.
Standing ==
  LET r    == Len(handled) + 1
      base == dr.recv - dr.left
  IN  pc = "body" /\ Sound(r) /\ Escaped(script[r]) =>
        /\ dr.left <= Len(dataBuf) /\ dr.left <= dr.recv
        /\ Piece(Kept, TextOf(script, r), base, dr.recv)
        /\ BodyAt(TextOf(script, r), script[r], r, base, dr.recv, dr.ss, rd)

\* The application is called with all of it.
Delivered ==
  LET r == Len(handled) + 1
  IN  pc = "application" /\ Sound(r) /\ Escaped(script[r]) =>
        BodyArrived(script[r], r, rd.fields, rd.files)

\* A body that was received to its end was refused for what it is.
RefusedWell ==
  LET r == Len(handled) + 1
      q == script[r]
  IN  (/\ pc = "again" /\ out.status = 400 /\ req.code = "failure"
       /\ dr # NoReceiver /\ Complete(dr) /\ Framed(r) /\ ZeroFree(q))
      => q.variant = "multipart" /\ (~q.boundary \/ \E k \in DOMAIN q.items : q.items[k].kind # "part")

\* The block of a field goes on with at least a delimiter.
Spared ==
  /\ pc = "body" /\ script[req.head].variant = "multipart" /\ Copies(dr.ss) =>
       dr.left = 2 /\ Len(dataBuf) >= 2
  /\ pc = "terminated" => Short(dataBuf)

\* Nothing of a body was received, or its application was called with success.
Unread ==
  /\ pc \in {"accepted", "process", "headers", "settings", "data"} => dr = NoReceiver
  /\ pc \in {"params", "answer", "sending", "parts"} => req.code = "success"

BodyInv == Unread /\ Standing /\ Delivered /\ RefusedWell /\ Spared /\ BodiesArriveWhole

\* At first no body has been received.
LEMMA BodyInit == Init => BodyInv
<1> SUFFICES ASSUME Init PROVE BodyInv
  OBVIOUS
<1>1. pc = "accepted" /\ dr = NoReceiver /\ handled = <<>>
  BY DEF Init
<1>2. BodiesArriveWhole
  BY <1>1 DEF BodiesArriveWhole
<1> QED
  BY <1>1, <1>2 DEF BodyInv, Unread, Standing, Delivered, RefusedWell, Spared

\* What parse left over at the end of a chunk.
LEMMA KeptOf ==
  ASSUME NEW buf \in Seq(Units), NEW text, NEW base \in Nat, NEW top \in Nat, Piece(buf, text, base, top),
         NEW left \in 0 .. Len(buf),
         NEW kept, kept = IF left > Len(buf) THEN <<>> ELSE From(buf, Len(buf) - left + 1)
  PROVE  left <= top /\ Piece(kept, text, top - left, top)
<1>1. PICK len \in Nat : len = Len(buf) /\ len = top - base /\ base <= top
  BY LenProperties DEF Piece
<1>2. PICK k \in Nat : k = len - left /\ base + k <= top /\ base + k = top - left /\ left <= top
  BY <1>1
<1>3. kept = From(buf, k + 1)
  <2>1. ~(left > Len(buf)) /\ Len(buf) - left + 1 = k + 1
    BY <1>1, <1>2
  <2> QED
    BY <2>1
<1>4. Piece(From(buf, k + 1), text, base + k, top)
  BY <1>2, PieceCut
<1> QED
  BY <1>2, <1>3, <1>4

\* What follows a call of parse.
LEMMA BodyProceed ==
  ASSUME BodyInv, pc \in {"data", "body"}, UNCHANGED <<script, req, handled>>,
         NEW n \in Nat, n = Len(handled), NEW got, NEW buf \in Seq(Units), NEW rest, Proceed(got, buf, rest),
         got.ok \in BOOLEAN, got.dies \in BOOLEAN, got.dies => ~got.ok, got.dr \in AnyReceivers,
         got.dr.recv <= got.dr.full, BodySurvives(script[req.head], buf, got),
         NEW text, text = TextOf(script, n + 1), NEW base,
         Sound(n + 1) /\ Escaped(script[n + 1]) =>
           /\ base \in Nat /\ Piece(buf, text, base, got.dr.recv)
           /\ BodyGoes(text, script[n + 1], n + 1, got.dr.recv, buf, got.dr, got),
         Sound(n + 1) /\ ~got.ok /\ ~got.dies /\ Complete(got.dr) =>
           script[n + 1].variant = "multipart" /\ Refusable(script[n + 1], Len(script[n + 1].items)),
         Framed(n + 1) => DOMAIN script[n + 1].items = 1 .. Len(script[n + 1].items)
  PROVE  BodyInv'
<1>1. got.dr.recv \in Nat /\ got.dr.full \in Nat /\ got.dr.left \in Nat
  BY DEF AnyReceivers
<1>2. dataBuf' = buf /\ dr' = got.dr /\ rd' = got.rd
  BY DEF Proceed
<1>3. \/ pc' = "terminated" /\ got.dies
      \/ pc' = "again" /\ ~got.dies /\ ~got.ok
      \/ pc' = "body" /\ got.ok /\ ~Complete(got.dr)
      \/ pc' = "application" /\ got.ok /\ Complete(got.dr)
  BY <1>1 DEF Proceed, Refuse, Complete
<1>4. Len(handled') = n /\ script' = script /\ (Sound(n + 1)' <=> Sound(n + 1))
  BY DEF Sound, Framed
<1>5. ASSUME Sound(n + 1), Escaped(script[n + 1]), pc' = "body"
      PROVE  /\ dr'.left <= Len(dataBuf') /\ dr'.left <= dr'.recv
             /\ Piece(Kept', text, dr'.recv - dr'.left, dr'.recv)
             /\ BodyAt(text, script[n + 1], n + 1, dr'.recv - dr'.left, dr'.recv, dr'.ss, rd')
  <2>1. got.ok /\ ~Complete(got.dr)
    BY <1>3, <1>5
  <2>2. PICK left \in 0 .. Len(buf), top \in Nat : left = got.dr.left /\ top = got.dr.recv
    BY <1>1, <1>5, <2>1 DEF BodyGoes
  <2>3. BodyAt(text, script[n + 1], n + 1, top - left, top, got.dr.ss, got.rd)
    BY <1>5, <2>1, <2>2 DEF BodyGoes
  <2>4. base \in Nat /\ Piece(buf, text, base, top)
    BY <1>5, <2>2
  <2>5. PICK kept : kept = Kept' /\ kept = IF left > Len(buf) THEN <<>> ELSE From(buf, Len(buf) - left + 1)
    BY <1>2, <2>2 DEF Kept
  <2>6. left <= top /\ Piece(kept, text, top - left, top)
    BY <2>4, <2>5, KeptOf
  <2>7. left <= Len(buf)
    BY LenProperties
  <2> QED
    BY <1>2, <2>2, <2>3, <2>5, <2>6, <2>7
<1>6. Standing'
  BY <1>4, <1>5 DEF Standing
<1>7. Delivered'
  <2>1. ASSUME Sound(n + 1), Escaped(script[n + 1]), pc' = "application"
        PROVE  BodyArrived(script[n + 1], n + 1, rd'.fields, rd'.files)
    <3>1. got.ok /\ Complete(got.dr)
      BY <1>3, <2>1
    <3> QED
      BY <1>2, <2>1, <3>1 DEF BodyGoes
  <2> QED
    BY <1>4, <2>1 DEF Delivered
<1>8. RefusedWell'
  <2>1. ASSUME pc' = "again", Complete(dr'), Framed(n + 1), ZeroFree(script[n + 1])
        PROVE  LET q == script[n + 1]
               IN  q.variant = "multipart" /\ (~q.boundary \/ \E k \in DOMAIN q.items : q.items[k].kind # "part")
    <3>1. ~got.ok /\ ~got.dies /\ Complete(got.dr) /\ Sound(n + 1)
      BY <1>2, <1>3, <2>1 DEF Sound
    <3> QED
      BY <2>1, <3>1 DEF Refusable
  <2>2. Framed(n + 1)' <=> Framed(n + 1)
    BY DEF Framed
  <2> QED
    BY <1>4, <2>1, <2>2 DEF RefusedWell
<1>9. Spared'
  BY <1>2, <1>3 DEF Spared, BodySurvives
<1>10. Unread'
  BY <1>3 DEF Unread
<1>11. BodiesArriveWhole'
  BY DEF BodyInv, BodiesArriveWhole, Framed
<1> QED
  BY <1>6, <1>7, <1>8, <1>9, <1>10, <1>11 DEF BodyInv

\* What a call of parse makes of a body that is found in the stream.
LEMMA BodyParsed ==
  ASSUME NEW q, q = script[req.head], q.variant \in {"form", "text", "multipart"},
         NEW buf \in Seq(Units), NEW data, NEW d,
         IF q.variant = "multipart" THEN Parsable(buf, data, d) ELSE NoFiles(data) /\ d.ss = NoState,
         q.variant = "multipart" /\ Copies(d.ss) => Len(buf) >= 2,
         buf # <<>> \/ ~Complete(d) \/ d.full = 0,
         NEW text, NEW r, NEW base, NEW before, NEW top,
         Escaped(q) => Given(text, q, r, base, before, top, buf, data, d),
         NEW canOpen, NEW got, got = Parse(buf, data, d, canOpen),
         got.dr.full = d.full, got.dr.recv = d.recv
  PROVE  /\ Escaped(q) => BodyGoes(text, q, r, top, buf, got.dr, got)
         /\ ~got.ok /\ ~got.dies /\ Complete(got.dr) => q.variant = "multipart" /\ Refusable(q, Len(q.items))
<1>1. Complete(d) <=> Complete(got.dr)
  BY DEF Complete
<1>2. ASSUME Escaped(q) PROVE BodyGoes(text, q, r, top, buf, d, got)
  <2>1. Given(text, q, r, base, before, top, buf, data, d)
    BY <1>2
  <2> QED
    BY <2>1, BodyMoves
<1>3. Escaped(q) => BodyGoes(text, q, r, top, buf, got.dr, got)
  BY <1>1, <1>2 DEF BodyGoes
<1>4. ASSUME ~got.ok, ~got.dies, Complete(d) PROVE q.variant = "multipart" /\ Refusable(q, Len(q.items))
  <2>1. q.variant = "multipart"
    BY <1>4, ParseSurvives
  <2>2. Escaped(q)
    BY <2>1 DEF Escaped
  <2> QED
    BY <1>2, <1>4, <2>2 DEF BodyGoes
<1> QED
  BY <1>1, <1>3, <1>4

\* The items of a request are a sequence.
LEMMA ItemsCounted ==
  ASSUME NEW n \in Nat, script \in Scripts, Framed(n + 1)
  PROVE  DOMAIN script[n + 1].items = 1 .. Len(script[n + 1].items)
<1>1. script[n + 1] \in Requests
  BY FramedBefore
<1>2. script[n + 1].items \in Seq(Items)
  BY <1>1 DEF Requests
<1> QED
  BY <1>2, LenProperties

\* A step that neither receives nor hands on a body.
LEMMA BodyQuiet ==
  ASSUME BodyInv, UNCHANGED <<script, handled, dr>>, pc' \notin {"body", "application", "terminated"},
         pc' \in {"process", "headers", "settings", "data"} => dr = NoReceiver,
         pc' \in {"params", "answer", "sending", "parts"} => req'.code = "success", pc' # "accepted",
         pc' = "again" => dr = NoReceiver \/ out'.status # 400 \/ req'.code # "failure"
  PROVE  BodyInv'
<1>1. Unread' /\ Standing' /\ Delivered' /\ Spared'
  BY DEF Unread, Standing, Delivered, Spared
<1>2. RefusedWell'
  BY DEF RefusedWell
<1>3. BodiesArriveWhole'
  BY DEF BodyInv, BodiesArriveWhole, Framed
<1> QED
  BY <1>1, <1>2, <1>3 DEF BodyInv

\* A request without Content-Type has arrived whole.
LEMMA BodyNone ==
  ASSUME BodyInv, script \in Scripts, NEW n \in Nat, n = Len(handled), Framed(n) => req.head = n + 1,
         script[req.head].variant = "none", pc' = "application", rd' = NoData, UNCHANGED <<script, handled>>
  PROVE  BodyInv'
<1>1. ASSUME Framed(n + 1) PROVE BodyArrived(script[n + 1], n + 1, NoData.fields, NoData.files)
  <2>1. Framed(n) /\ WellFramed(script[n + 1])
    BY <1>1, FramedBefore
  <2>2. PICK q : q = script[n + 1] /\ q.variant = "none" /\ q.items = <<>>
    BY <2>1 DEF WellFramed
  <2>3. DOMAIN q.items = {}
    BY <2>2
  <2>4. Expected(q, n + 1) = <<>>
    BY <2>3 DEF Expected
  <2> QED
    BY <2>2, <2>4 DEF BodyArrived, NoData
<1>2. Delivered'
  BY <1>1 DEF Delivered, Sound, Framed
<1>3. Unread' /\ Standing' /\ Spared' /\ RefusedWell'
  BY DEF Unread, Standing, Spared, RefusedWell
<1>4. BodiesArriveWhole'
  BY DEF BodyInv, BodiesArriveWhole, Framed
<1> QED
  BY <1>2, <1>3, <1>4 DEF BodyInv

\* GetRequestData: the parser stands in front of the body, or there is none.
LEMMA BodyData ==
  ASSUME ConnInv, RecvInv, OrderInv, BodyInv, GetRequestData
  PROVE  BodyInv'
<1> DEFINE q        == script[req.head]
           whole    == ContentLengthOf(q)
           here     == Least(Len(strBuf), whole)
           receiver == DataReceiver(whole, here, IF q.variant = "multipart"
                                                 THEN StateMultipart(q.boundary) ELSE NoState)
           first    == SubSeq(strBuf, 1, here)
<1>0. pc = "data" /\ UNCHANGED <<script, taken, variants, req, handled>> /\ dr = NoReceiver
  BY DEF GetRequestData, link, client, BodyInv, Unread
<1>1. /\ script \in Scripts /\ req.head \in DOMAIN script
      /\ variants \subseteq {"form", "text", "multipart"} /\ strBuf \in Seq(SentBy(script))
      /\ taken \in Nat
  BY <1>0, StreamTyped DEF RecvInv, Texted, Known
<1>2. CASE pc' = "again" /\ UNCHANGED dr
  BY <1>0, <1>2, BodyQuiet
<1>10. PICK n \in Nat : n = Len(handled)
  BY CountTyped
<1>11. Framed(n) => req.head = n + 1 /\ Piece(strBuf, StreamOf[script], Start(script, n) + 3, taken)
  BY <1>0, <1>10 DEF OrderInv, Headed
<1>3. CASE q.variant = "none" /\ pc' = "application" /\ rd' = NoData
  BY <1>0, <1>1, <1>3, <1>10, <1>11, BodyNone
<1>4. ASSUME q.variant \in variants, NEW canOpen \in BOOLEAN,
             Proceed(Parse(first, NoData, receiver, canOpen), first, From(strBuf, here + 1))
      PROVE  BodyInv'
  <2>1. Proceed(Parse(first, NoData, receiver, canOpen), first, From(strBuf, here + 1))
    BY <1>4
  <2>2. q \in Requests /\ whole \in Nat
    <3>1. q \in Requests /\ BodyText(q) \in Texts
      BY <1>1, MessageTyped
    <3>2. Len(BodyText(q)) \in Nat /\ q.claim \in Nat
      BY <3>1, LenProperties DEF Texts, Requests
    <3> QED
      BY <3>1, <3>2 DEF ContentLengthOf
  <2>3. PICK k \in Nat : k = here /\ k \in 0 .. whole /\ k \in 0 .. Len(strBuf)
    <3>1. Len(strBuf) \in Nat
      BY <1>1, LenProperties
    <3> QED
      BY <2>2, <3>1 DEF Least
  <2>4. PICK buf \in Seq(SentBy(script)) : buf = first /\ buf = SubSeq(strBuf, 1, k) /\ Len(buf) = k
    <3>1. SubSeq(strBuf, 1, k) \in Seq(SentBy(script)) /\ first = SubSeq(strBuf, 1, k)
          /\ Len(SubSeq(strBuf, 1, k)) = k
      BY <1>1, <2>3, FirstTyped
    <3> QED
      BY <3>1
  <2>5. PICK rest : rest = From(strBuf, here + 1)
    OBVIOUS
  <2>6. buf \in Seq(Units) /\ q.variant \in {"form", "text", "multipart"}
    BY <1>1, <1>4, UnitsSent
  <2>7. PICK r : r = receiver
    OBVIOUS
  <2>8. /\ r.full = whole /\ r.recv = k /\ "left" \in DOMAIN r
        /\ q.variant = "multipart" => r.ss = StateMultipart(q.boundary)
    BY <2>3, <2>7 DEF DataReceiver
  <2> HIDE DEF receiver, first, here, whole
  <2>9. /\ r \in AnyReceivers /\ r.left = 0 /\ r.recv <= r.full
        /\ IF q.variant = "multipart" THEN Parsable(buf, NoData, r)
                                      ELSE NoFiles(NoData) /\ r.ss = NoState
    <3>1. here \in 0 .. whole
      BY <2>3
    <3> QED
      BY <2>2, <2>6, <2>7, <3>1, FirstReceiver DEF receiver
  <2>10. PICK got : got = Parse(buf, NoData, r, canOpen)
    OBVIOUS
  <2>11. GotWell(q, buf, NoData.made, Parse(buf, NoData, r, canOpen))
    BY <2>6, <2>9, ParseIsGood
  <2>12. LeftWell(q, buf, r, got)
    BY <2>6, <2>9, <2>10, ParseLeaves
  <2>13. /\ got.ok \in BOOLEAN /\ got.dies \in BOOLEAN /\ (got.dies => ~got.ok)
         /\ got.dr \in AnyReceivers /\ got.dr.recv <= got.dr.full
         /\ got.dr.recv = r.recv /\ got.dr.full = r.full
    BY <2>10, <2>11, <2>12 DEF GotWell, LeftWell
  <2>14. q.variant = "multipart" /\ Copies(r.ss) => Len(buf) >= 2
    BY <2>8 DEF Copies, StateMultipart
  <2>15. buf # <<>> \/ ~Complete(r) \/ r.full = 0
    <3>1. buf = <<>> => k = 0
      BY <2>4, EmptySeq
    <3> QED
      BY <2>8, <3>1 DEF Complete
  <2>16. BodySurvives(q, buf, got)
    BY <2>6, <2>9, <2>10, <2>14, ParseSurvives
  <2>17. PICK text : text = TextOf(script, n + 1)
    OBVIOUS
  <2>18. ASSUME Framed(n + 1)
         PROVE  /\ Escaped(q) => Given(text, q, n + 1, 0, 0, k, buf, NoData, r)
                /\ q = script[n + 1] /\ (Escaped(q) => Piece(buf, text, 0, k))
    <3>1. Framed(n) /\ WellFramed(script[n + 1]) /\ n + 1 <= Len(script) /\ script[n + 1] \in Requests
      BY <1>1, <2>18, FramedBefore
    <3>2. req.head = n + 1 /\ Piece(strBuf, StreamOf[script], Start(script, n) + 3, taken)
      BY <1>11, <3>1
    <3>3. k = Least(Len(strBuf), ContentLengthOf(script[n + 1])) /\ whole = ContentLengthOf(script[n + 1])
      BY <2>3, <3>2 DEF here, whole
    <3>4. /\ text \in Seq(Units) /\ k <= Len(text) /\ Piece(SubSeq(strBuf, 1, k), text, 0, k)
          /\ ContentLengthOf(script[n + 1]) = Len(text)
      BY <1>1, <2>17, <3>1, <3>2, <3>3, FirstOfText
    <3>5. BodyAt(text, q, n + 1, 0, 0, r.ss, NoData)
      BY <2>8, <2>17, <3>1, <3>2, BodyBegins DEF TextOf
    <3>6. /\ text = Tokens(BodyText(q), n + 1) /\ q = script[n + 1] /\ n + 1 \in Nat
          /\ r.full = Len(text) /\ Piece(buf, text, 0, k)
      BY <2>4, <2>8, <2>17, <3>2, <3>3, <3>4 DEF TextOf
    <3>7. 0 \in Nat /\ 0 <= 0 /\ 0 <= k
      OBVIOUS
    <3> QED
      BY <2>6, <2>8, <2>9, <2>15, <3>1, <3>4, <3>5, <3>6, <3>7 DEF Given
  <2>19. ASSUME Framed(n + 1)
         PROVE  /\ Escaped(q) => BodyGoes(text, q, n + 1, k, buf, got.dr, got)
                /\ ~got.ok /\ ~got.dies /\ Complete(got.dr) =>
                     q.variant = "multipart" /\ Refusable(q, Len(q.items))
    <3>1. Escaped(q) => Given(text, q, n + 1, 0, 0, k, buf, NoData, r)
      BY <2>18, <2>19
    <3> HIDE DEF q
    <3>2. q = script[req.head]
      BY DEF q
    <3> QED
      BY <2>6, <2>9, <2>10, <2>13, <2>14, <2>15, <3>1, <3>2, BodyParsed
  <2>20. Proceed(got, buf, rest)
    BY <2>1, <2>4, <2>5, <2>7, <2>10
  <2>21. got.dr.recv = k
    BY <2>8, <2>13
  <2>22. Sound(n + 1) /\ Escaped(script[n + 1]) =>
           /\ 0 \in Nat /\ Piece(buf, text, 0, got.dr.recv)
           /\ BodyGoes(text, script[n + 1], n + 1, got.dr.recv, buf, got.dr, got)
    BY <2>18, <2>19, <2>21 DEF Sound
  <2>23. Sound(n + 1) /\ ~got.ok /\ ~got.dies /\ Complete(got.dr) =>
           script[n + 1].variant = "multipart" /\ Refusable(script[n + 1], Len(script[n + 1].items))
    BY <2>18, <2>19 DEF Sound
  <2>24. Framed(n + 1) => DOMAIN script[n + 1].items = 1 .. Len(script[n + 1].items)
    BY <1>1, ItemsCounted
  <2> QED
    BY <1>0, <1>10, <2>6, <2>13, <2>16, <2>17, <2>20, <2>22, <2>23, <2>24, BodyProceed
<1> QED
  <2>1. \/ q.variant = "none" /\ pc' = "application" /\ rd' = NoData
        \/ (Refuse(400) \/ Refuse(413)) /\ UNCHANGED dr
        \/ /\ q.variant \in variants
           /\ \E canOpen \in BOOLEAN :
                Proceed(Parse(first, NoData, receiver, canOpen), first, From(strBuf, here + 1))
    BY SMTT(60) DEF GetRequestData, body
  <2>2. Refuse(400) \/ Refuse(413) => pc' = "again"
    BY DEF Refuse
  <2> HIDE DEF receiver, first, here, whole, q
  <2> QED
    BY <1>2, <1>3, <1>4, <2>1, <2>2, Zenon

\* ReceiveData: a chunk is added behind what was left over, and parsed.
LEMMA BodyReceive ==
  ASSUME ConnInv, RecvInv, OrderInv, BodyInv, ReceiveData
  PROVE  BodyInv'
<1>0. pc = "body" /\ UNCHANGED <<script, variants, req, handled>>
  BY DEF ReceiveData, link
<1>1. /\ script \in Scripts /\ dr \in AnyReceivers /\ dr.recv \in Nat /\ dr.full \in Nat /\ dr.left \in Nat
      /\ dr.recv <= dr.full /\ dataBuf \in Seq(SentBy(script)) /\ strBuf \in Seq(SentBy(script))
      /\ req.head \in DOMAIN script
  BY <1>0 DEF RecvInv, Texted, Received, AnyReceivers, Known
<1>2. PICK m \in 1 .. Least(Available, dr.full - dr.recv), canOpen \in BOOLEAN :
        LET chunk    == Kept \o CString(Segment(m))
            receiver == [dr EXCEPT !.recv = @ + m, !.left = 0]
        IN  /\ Proceed(Parse(chunk, rd, receiver, canOpen), chunk, strBuf)
            /\ taken' = taken + m
  BY DEF ReceiveData
<1>3. dr.full - dr.recv \in Nat
  BY <1>1
<1>4. Segment(m) \in Seq(SentBy(script)) /\ m \in Nat /\ m >= 1 /\ m <= dr.full - dr.recv
  BY <1>2, <1>3, SegmentTyped DEF RecvInv
<1>5. PICK tail \in Seq(SentBy(script)) : tail = CString(Segment(m))
  BY <1>4, CStringTyped
<1>6. PICK kept \in Seq(SentBy(script)) :
        kept = Kept /\ (dr.left <= Len(dataBuf) => Len(kept) = dr.left)
  BY <1>1, KeptTyped
<1>7. PICK chunk \in Seq(SentBy(script)) : chunk = kept \o tail /\ Len(chunk) = Len(kept) + Len(tail)
  BY <1>5, <1>6, ConcatProperties
<1>8. /\ tail \in Seq(Units) /\ kept \in Seq(Units) /\ chunk \in Seq(Units) /\ dr.recv + m <= dr.full
      /\ dr.recv + m \in Nat /\ Len(tail) \in Nat /\ Len(kept) \in Nat
  BY <1>1, <1>4, UnitsSent, LenProperties
<1>9. PICK r : r = [dr EXCEPT !.recv = @ + m, !.left = 0]
  OBVIOUS
<1>10. /\ r \in AnyReceivers /\ r.left = 0 /\ r.recv <= r.full
       /\ script[req.head].variant \in {"form", "text", "multipart"}
       /\ IF script[req.head].variant = "multipart" THEN Parsable(chunk, rd, r)
                                                    ELSE NoFiles(rd) /\ r.ss = NoState
  BY <1>0, <1>4, <1>6, <1>7, <1>8, <1>9, NextChunk
<1>11. r.recv = dr.recv + m /\ r.full = dr.full /\ r.ss = dr.ss /\ "left" \in DOMAIN r
  BY <1>1, <1>9 DEF AnyReceivers
<1>12. PICK got : got = Parse(chunk, rd, r, canOpen)
  OBVIOUS
<1>13. GotWell(script[req.head], chunk, rd.made, got)
  BY <1>8, <1>10, <1>12, ParseIsGood
<1>14. LeftWell(script[req.head], chunk, r, got)
  BY <1>8, <1>10, <1>12, ParseLeaves
<1>15. /\ got.ok \in BOOLEAN /\ got.dies \in BOOLEAN /\ (got.dies => ~got.ok)
       /\ got.dr \in AnyReceivers /\ got.dr.recv <= got.dr.full
       /\ got.dr.recv = r.recv /\ got.dr.full = r.full
  BY <1>13, <1>14 DEF GotWell, LeftWell
<1>16. Proceed(got, chunk, strBuf)
  BY <1>2, <1>5, <1>6, <1>7, <1>9, <1>12
<1>17. PICK n \in Nat : n = Len(handled)
  BY CountTyped
<1>18. script[req.head].variant = "multipart" /\ Copies(r.ss) => Len(chunk) >= 2
  <2> HAVE script[req.head].variant = "multipart" /\ Copies(r.ss)
  <2>1. dr.left = 2 /\ Len(dataBuf) >= 2
    BY <1>0, <1>11 DEF BodyInv, Spared
  <2>2. Len(kept) = 2
    BY <1>6, <2>1
  <2> QED
    BY <1>7, <1>8, <2>2
<1>19. BodySurvives(script[req.head], chunk, got)
  BY <1>8, <1>10, <1>12, <1>18, ParseSurvives
<1>20. PICK text : text = TextOf(script, n + 1)
  OBVIOUS
<1>21. PICK base, top : base = dr.recv - dr.left /\ top = dr.recv + m /\ top \in Nat
  BY <1>8
<1>22. ASSUME Sound(n + 1)
       PROVE  /\ script[req.head] = script[n + 1] /\ chunk # <<>>
              /\ Escaped(script[n + 1]) => /\ Given(text, script[n + 1], n + 1, base, dr.recv, top, chunk, rd, r)
                                           /\ base \in Nat /\ Piece(chunk, text, base, top)
  <2>1. /\ Framed(n) /\ WellFramed(script[n + 1]) /\ n + 1 <= Len(script)
        /\ script[n + 1] \in Requests /\ Framed(n + 1) /\ ZeroFree(script[n + 1])
    BY <1>1, <1>22, FramedBefore DEF Sound
  <2>2. req.head = n + 1
    BY <1>0, <1>17, <2>1 DEF OrderInv, Headed
  <2>3. taken = Start(script, n) + 3 + dr.recv /\ dr.full = Len(BodyText(script[n + 1]))
    BY <1>0, <1>17, <2>1 DEF OrderInv, Bodied
  <2>4. /\ text \in Seq(Units) /\ dr.full = Len(text)
        /\ Piece(CString(Segment(m)), text, dr.recv, dr.recv + m)
    BY <1>1, <1>20, <2>1, <2>3, SegmentOfText DEF RecvInv
  <2>5. Piece(tail, text, dr.recv, top)
    BY <1>5, <1>21, <2>4
  <2>6. chunk # <<>>
    <3>1. Len(tail) = top - dr.recv
      BY <2>5 DEF Piece
    <3>2. Len(chunk) >= 1
      BY <1>1, <1>4, <1>7, <1>8, <1>21, <3>1
    <3> QED
      BY <3>2, EmptySeq
  <2>7. ASSUME Escaped(script[n + 1])
        PROVE  /\ Given(text, script[n + 1], n + 1, base, dr.recv, top, chunk, rd, r)
               /\ base \in Nat /\ Piece(chunk, text, base, top)
    <3>1. /\ dr.left <= Len(dataBuf) /\ dr.left <= dr.recv /\ Piece(kept, text, base, dr.recv)
          /\ BodyAt(text, script[n + 1], n + 1, base, dr.recv, dr.ss, rd)
      BY <1>0, <1>6, <1>17, <1>20, <1>21, <1>22, <2>7 DEF BodyInv, Standing
    <3>2. base \in Nat /\ base <= dr.recv
      <4>1. dr.left <= dr.recv
        BY <3>1
      <4> QED
        BY <1>1, <1>21, <4>1
    <3>3. Piece(chunk, text, base, top)
      BY <1>1, <1>7, <1>8, <1>21, <2>5, <3>1, <3>2, PieceJoined
    <3>4. /\ text = Tokens(BodyText(script[n + 1]), n + 1) /\ n + 1 \in Nat
          /\ dr.recv <= top /\ top <= Len(text)
      BY <1>1, <1>4, <1>8, <1>20, <1>21, <2>4 DEF TextOf
    <3>5. /\ r.recv = top /\ r.full = Len(text) /\ r.left = 0 /\ "left" \in DOMAIN r
          /\ BodyAt(text, script[n + 1], n + 1, base, dr.recv, r.ss, rd)
      BY <1>10, <1>11, <1>21, <2>4, <3>1
    <3> QED
      BY <1>1, <1>8, <1>21, <2>1, <2>4, <2>6, <2>7, <3>2, <3>3, <3>4, <3>5 DEF Given
  <2> QED
    BY <2>2, <2>6, <2>7
<1>23. ASSUME Sound(n + 1)
       PROVE  /\ Escaped(script[n + 1]) => BodyGoes(text, script[n + 1], n + 1, top, chunk, got.dr, got)
              /\ ~got.ok /\ ~got.dies /\ Complete(got.dr) =>
                   script[n + 1].variant = "multipart" /\ Refusable(script[n + 1], Len(script[n + 1].items))
  <2>1. PICK q : q = script[n + 1] /\ q = script[req.head]
    BY <1>22, <1>23
  <2>2. chunk # <<>> /\ (Escaped(q) => Given(text, q, n + 1, base, dr.recv, top, chunk, rd, r))
    BY <1>22, <1>23, <2>1
  <2>3. /\ q.variant \in {"form", "text", "multipart"}
        /\ IF q.variant = "multipart" THEN Parsable(chunk, rd, r) ELSE NoFiles(rd) /\ r.ss = NoState
        /\ q.variant = "multipart" /\ Copies(r.ss) => Len(chunk) >= 2
    BY <1>10, <1>18, <2>1
  <2>4. /\ Escaped(q) => BodyGoes(text, q, n + 1, top, chunk, got.dr, got)
        /\ ~got.ok /\ ~got.dies /\ Complete(got.dr) => q.variant = "multipart" /\ Refusable(q, Len(q.items))
    BY <1>8, <1>12, <1>15, <2>1, <2>2, <2>3, BodyParsed
  <2> QED
    BY <2>1, <2>4
<1>24. got.dr.recv = top
  BY <1>11, <1>15, <1>21
<1>25. Sound(n + 1) /\ Escaped(script[n + 1]) =>
         /\ base \in Nat /\ Piece(chunk, text, base, got.dr.recv)
         /\ BodyGoes(text, script[n + 1], n + 1, got.dr.recv, chunk, got.dr, got)
  BY <1>22, <1>23, <1>24
<1>26. Framed(n + 1) => DOMAIN script[n + 1].items = 1 .. Len(script[n + 1].items)
  BY <1>1, ItemsCounted
<1> QED
  BY <1>0, <1>8, <1>15, <1>16, <1>17, <1>19, <1>20, <1>23, <1>25, <1>26, BodyProceed

\* What was received of a body that does not come to its end.
LEMMA BodyFails ==
  ASSUME RecvInv, BodyInv, ReceiveDataFails
  PROVE  BodyInv'
<1>1. PICK got : got = [ok |-> FALSE, dr |-> dr, rd |-> rd, dies |-> FALSE]
                 /\ Proceed(got, dataBuf, strBuf)
  BY DEF ReceiveDataFails
<1>2. ~got.ok /\ ~got.dies /\ got.dr = dr
  BY <1>1
<1>3. pc' = "again" /\ dr' = dr
  BY <1>1, <1>2 DEF Proceed, Refuse
<1>4. pc = "body" /\ UNCHANGED <<script, handled>>
  BY DEF ReceiveDataFails, client
<1>5. ~Complete(dr)
  <2>1. dr.recv < dr.full /\ dr.recv \in Nat /\ dr.full \in Nat
    BY <1>4 DEF RecvInv, Received, Holding, AnyReceivers
  <2> QED
    BY <2>1 DEF Complete
<1>6. RefusedWell'
  BY <1>3, <1>5 DEF RefusedWell
<1>7. Unread' /\ Standing' /\ Delivered' /\ Spared'
  BY <1>3 DEF Unread, Standing, Delivered, Spared
<1>8. BodiesArriveWhole'
  BY <1>4 DEF BodyInv, BodiesArriveWhole, Framed
<1> QED
  BY <1>6, <1>7, <1>8 DEF BodyInv

\* The application is called with the next body.
LEMMA BodyRun ==
  ASSUME ConnInv, RecvInv, OrderInv, AnswerInv, BodyInv, RunApplication
  PROVE  BodyInv'
<1>1. /\ script' = script /\ out' = out /\ pc = "application" /\ pc' \in {"params", "again"}
      /\ pc' = "params" => req'.code = "success"
  BY DEF RunApplication, client, ConnInv, Shapes
<1>2. PICK call : /\ call = [r |-> req.head, garbled |-> req.garbled,
                             fields |-> rd.fields, files |-> rd.files]
                  /\ handled' = Append(handled, call)
  BY DEF RunApplication
<1>3. call.fields = rd.fields /\ call.files = rd.files
  BY <1>2
<1>4. PICK n \in Nat : n = Len(handled) /\ DOMAIN handled = 1 .. n
  BY CountTyped
<1>5. /\ DOMAIN handled' = 1 .. n + 1 /\ \A i \in 1 .. n : handled'[i] = handled[i]
      /\ handled'[n + 1] = call
  <2>1. PICK S : handled \in Seq(S)
    BY DEF ConnInv, Shapes
  <2>2. handled \in Seq(S \union {call}) /\ call \in S \union {call}
    BY <2>1, SeqMonotonic, Zenon
  <2>3. /\ Append(handled, call) \in Seq(S \union {call})
        /\ Len(Append(handled, call)) = Len(handled) + 1
        /\ \A i \in 1 .. Len(handled) : Append(handled, call)[i] = handled[i]
        /\ Append(handled, call)[Len(handled) + 1] = call
    BY <2>2, AppendProperties
  <2>4. DOMAIN handled' = 1 .. Len(handled')
    BY <1>2, <2>3, LenProperties
  <2> QED
    BY <1>2, <1>4, <2>3, <2>4
<1>6. Sound(n + 1) /\ Escaped(script[n + 1]) => BodyArrived(script[n + 1], n + 1, rd.fields, rd.files)
  BY <1>1, <1>4 DEF BodyInv, Delivered
<1>7. BodiesArriveWhole'
  <2>1. ASSUME NEW i \in 1 .. n + 1, Framed(i), ZeroFree(script[i]), Escaped(script[i])
        PROVE  BodyArrived(script[i], i, handled'[i].fields, handled'[i].files)
    <3>1. CASE i = n + 1
      BY <1>3, <1>5, <1>6, <2>1, <3>1 DEF Sound
    <3>2. CASE i # n + 1
      <4>1. i \in 1 .. n
        BY <3>2
      <4> QED
        BY <1>4, <1>5, <2>1, <4>1 DEF BodyInv, BodiesArriveWhole
    <3> QED
      BY <3>1, <3>2
  <2> QED
    BY <1>1, <1>5, <2>1 DEF BodiesArriveWhole, Framed
<1>8. out'.status # 400
  BY <1>1 DEF AnswerInv, Answered, Silent, Before
<1>9. Unread' /\ Standing' /\ Delivered' /\ Spared' /\ RefusedWell'
  BY <1>1, <1>8 DEF Unread, Standing, Delivered, Spared, RefusedWell
<1> QED
  BY <1>7, <1>9 DEF BodyInv

\* The steps in front of the body.
LEMMA BodyBefore ==
  ASSUME BodyInv, Plain \/ HandshakeFails \/ Negotiate \/ NegotiateH2
                  \/ GetRequest \/ GetRequestTimeout \/ GetRequestClosed
                  \/ GetRequestHeaders \/ GetApplicationSettings
  PROVE  BodyInv'
<1>1. UNCHANGED <<script, handled, dr>> /\ pc \in {"accepted", "process", "headers", "settings"}
  BY DEF Plain, HandshakeFails, Negotiate, NegotiateH2, GetRequest, GetRequestTimeout, GetRequestClosed,
         GetRequestHeaders, GetApplicationSettings, client, body
<1>2. pc' \in {"process", "ended", "headers", "again", "settings", "data"}
  <2>1. CASE GetRequestHeaders
    BY <2>1, Zenon DEF GetRequestHeaders, Refuse
  <2>2. CASE ~GetRequestHeaders
    BY <2>2 DEF Plain, HandshakeFails, Negotiate, NegotiateH2, GetRequest, GetRequestTimeout,
                GetRequestClosed, GetApplicationSettings, Refuse
  <2> QED
    BY <2>1, <2>2
<1>3. dr = NoReceiver
  BY <1>1 DEF BodyInv, Unread
<1> QED
  BY <1>1, <1>2, <1>3, BodyQuiet

\* The steps that write the answer.
LEMMA BodyAnswers ==
  ASSUME ConnInv, BodyInv,
         GetConnectionParams \/ XSendfileNone \/ XSendfileStatus \/ TransferFile
           \/ TransferFilePart \/ SendBlock \/ SendPartBlock
  PROVE  BodyInv'
<1>1. UNCHANGED <<script, handled, dr>>
  BY DEF GetConnectionParams, XSendfileNone, XSendfileStatus, TransferFile, TransferFilePart,
         SendBlock, SendPartBlock, client, body
<1>2. pc \in {"params", "answer", "sending", "parts"}
  BY DEF GetConnectionParams, XSendfileNone, XSendfileStatus, TransferFile, TransferFilePart,
         SendBlock, SendPartBlock
<1>3. req'.code = req.code
  BY DEF GetConnectionParams, XSendfileNone, XSendfileStatus, TransferFile, TransferFilePart,
         SendBlock, SendPartBlock, ConnInv, Shapes
<1>4. pc' \in {"answer", "sending", "parts", "again"}
  <2>1. CASE GetConnectionParams \/ XSendfileNone \/ XSendfileStatus
    BY <2>1 DEF GetConnectionParams, XSendfileNone, XSendfileStatus, Reply
  <2>2. CASE TransferFile
    BY <2>2 DEF TransferFile, Begin
  <2>3. CASE TransferFilePart
    BY <2>3 DEF TransferFilePart, Begin, Reply
  <2>4. CASE SendBlock
    BY <2>4 DEF SendBlock
  <2>5. CASE SendPartBlock
    BY <1>2, <2>5 DEF SendPartBlock
  <2> QED
    BY <2>1, <2>2, <2>3, <2>4, <2>5
<1>5. req'.code = "success"
  BY <1>2, <1>3 DEF BodyInv, Unread
<1> QED
  BY <1>1, <1>4, <1>5, BodyQuiet

\* The end of a turn, and of the connection.
LEMMA BodyEnds ==
  ASSUME BodyInv, Again \/ Close
  PROVE  BodyInv'
<1>1. /\ UNCHANGED <<script, handled>> /\ pc' \in {"process", "ended", "closing"}
      /\ pc' = "process" => dr' = NoReceiver
  BY DEF Again, Close, client
<1>2. BodiesArriveWhole'
  BY <1>1 DEF BodyInv, BodiesArriveWhole, Framed
<1> QED
  BY <1>1, <1>2 DEF BodyInv, Unread, Standing, Delivered, RefusedWell, Spared

\* Every step keeps what is known of the bodies.
LEMMA BodyStep == ConnInv /\ RecvInv /\ OrderInv /\ AnswerInv /\ BodyInv /\ [Next]_vars => BodyInv'
<1> SUFFICES ASSUME ConnInv, RecvInv, OrderInv, AnswerInv, BodyInv, [Next]_vars PROVE BodyInv'
  OBVIOUS
<1>1. CASE Server
  BY <1>1, BodyBefore, BodyData, BodyReceive, BodyFails, BodyRun, BodyAnswers, BodyEnds DEF Server
<1>2. CASE UNCHANGED <<script, handled, pc, req, dr, rd, dataBuf, out>>
  <2>1. Kept' = Kept
    BY <1>2 DEF Kept
  <2> QED
    BY <1>2, <2>1 DEF BodyInv, Unread, Standing, Delivered, RefusedWell, Spared, BodiesArriveWhole,
                      Sound, Framed
<1>3. ClientReads \/ FileChanges \/ Stopped \/ UNCHANGED vars
        => UNCHANGED <<script, handled, pc, req, dr, rd, dataBuf, out>>
  BY DEF ClientReads, FileChanges, Stopped, vars, client, body
<1> QED
  BY <1>1, <1>2, <1>3 DEF Next

\* Where a connection stands in the body it receives, for every script, every cut and every size of
\* the buffer: what was stored of the body and what was left over for the next chunk are together
\* what was received of it.
THEOREM BodiesCorrect == Spec => []BodyInv
  BY ConnCorrect, RecvCorrect, OrderCorrect, AnswersCorrect, BodyInit, BodyStep, PTL DEF Spec

\* The application gets of a body what the client sent, however the bytes are cut into segments, when
\* the body can be found in the stream, has no zero byte and, if it is a form, is escaped.
THEOREM BodiesAreWhole == Spec => []BodiesArriveWhole
<1>1. BodyInv => BodiesArriveWhole
  BY DEF BodyInv
<1> QED
  BY <1>1, BodiesCorrect, PTL

\* A body that was received to its end is refused only for what it is, never for where it was cut, and
\* a body ends the process only where a chunk stops less than a delimiter behind the header of a
\* field's block.
THEOREM WholeBodiesTaken == Spec => []WholeBodiesAreTaken
<1>1. BodyInv => WholeBodiesAreTaken
  BY DEF BodyInv, RefusedWell, Spared, Short, WholeBodiesAreTaken
<1> QED
  BY <1>1, BodiesCorrect, PTL
=============================================================================
