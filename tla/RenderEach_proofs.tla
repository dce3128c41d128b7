-------------------------- MODULE RenderEach_proofs --------------------------
(***************************************************************************)
(* Proofs about RenderEach, for any items, threads and bounds, and however *)
(* the calls of the threads interleave; and, for threads that take turns,  *)
(* that the browser shows the list.                                        *)
(***************************************************************************)
EXTENDS RenderEach, WellFoundedInduction, TLAPS

(***************************************************************************)
(* Insertion into a sequence and removal from it.                          *)
(***************************************************************************)
\* ArrayList.add(i - 1, e): what is at i and after it moves up by one.
LEMMA InsertAtFacts ==
  ASSUME NEW S, NEW s \in Seq(S), NEW i \in 1..(Len(s) + 1), NEW e \in S
  PROVE  /\ InsertAt(s, i, e) \in Seq(S)
         /\ Len(InsertAt(s, i, e)) = Len(s) + 1
         /\ \A j \in 1..(Len(s) + 1) :
              InsertAt(s, i, e)[j] = IF j < i THEN s[j]
                                     ELSE IF j = i THEN e ELSE s[j - 1]
<1> DEFINE a == SubSeq(s, 1, i - 1)
           b == SubSeq(s, i, Len(s))
<1>1. a \in Seq(S) /\ Len(a) = i - 1 /\ \A j \in 1..(i - 1) : a[j] = s[j]
  OBVIOUS
<1>2. b \in Seq(S) /\ Len(b) = Len(s) - i + 1
  OBVIOUS
<1>3. \A j \in 1..(Len(s) - i + 1) : b[j] = s[i + j - 1]
  OBVIOUS
<1>4. InsertAt(s, i, e) = (a \o <<e>>) \o b
  BY DEF InsertAt
<1>5. a \o <<e>> \in Seq(S) /\ Len(a \o <<e>>) = i
       /\ \A j \in 1..i : (a \o <<e>>)[j] = IF j < i THEN s[j] ELSE e
  <2> HIDE DEF a
  <2> QED BY <1>1
<1> HIDE DEF a, b
<1> DEFINE c == a \o <<e>>
<1> HIDE DEF c
<1>6. c \in Seq(S) /\ Len(c) = i /\ \A j \in 1..i : c[j] = IF j < i THEN s[j] ELSE e
  BY <1>5 DEF c
<1>7. InsertAt(s, i, e) = c \o b
  BY <1>4 DEF c
<1>8. c \o b \in Seq(S) /\ Len(c \o b) = Len(s) + 1
  BY <1>2, <1>6
<1>9. ASSUME NEW j \in 1..(Len(s) + 1)
      PROVE  (c \o b)[j] = IF j < i THEN s[j] ELSE IF j = i THEN e ELSE s[j - 1]
  <2>0. i \in Nat /\ j \in Nat /\ Len(s) \in Nat
    OBVIOUS
  <2>1. CASE j <= i
    BY <2>1, <1>2, <1>6
  <2>2. CASE ~(j <= i)
    <3>1. (c \o b)[j] = b[j - i]
      BY <2>2, <1>2, <1>6
    <3>2. j - i \in 1..(Len(s) - i + 1)
      BY <2>2
    <3>3. (c \o b)[j] = s[i + (j - i) - 1]
      BY <3>1, <3>2, <1>3
    <3> QED BY <3>3, <2>2, <2>0
  <2> QED BY <2>1, <2>2
<1> QED BY <1>7, <1>8, <1>9

\* ArrayList.removeAt(i - 1): what is after i moves down by one.
LEMMA RemoveAtFacts ==
  ASSUME NEW S, NEW s \in Seq(S), NEW i \in 1..Len(s)
  PROVE  /\ RemoveAt(s, i) \in Seq(S)
         /\ Len(RemoveAt(s, i)) = Len(s) - 1
         /\ \A j \in 1..(Len(s) - 1) :
              RemoveAt(s, i)[j] = IF j < i THEN s[j] ELSE s[j + 1]
<1> DEFINE a == SubSeq(s, 1, i - 1)
           b == SubSeq(s, i + 1, Len(s))
<1>1. a \in Seq(S) /\ Len(a) = i - 1 /\ \A j \in 1..(i - 1) : a[j] = s[j]
  OBVIOUS
<1>2. b \in Seq(S) /\ Len(b) = Len(s) - i
  OBVIOUS
<1>3. \A j \in 1..(Len(s) - i) : b[j] = s[i + j]
  OBVIOUS
<1>4. RemoveAt(s, i) = a \o b
  BY DEF RemoveAt
<1> HIDE DEF a, b
<1>5. a \o b \in Seq(S) /\ Len(a \o b) = Len(s) - 1
  BY <1>1, <1>2, SMTT(30)
<1>6. ASSUME NEW j \in 1..(Len(s) - 1)
      PROVE  (a \o b)[j] = IF j < i THEN s[j] ELSE s[j + 1]
  <2>0. i \in Nat /\ j \in Nat /\ Len(s) \in Nat
    OBVIOUS
  <2>1. CASE j < i
    BY <2>1, <1>1, <1>2
  <2>2. CASE ~(j < i)
    <3>1. (a \o b)[j] = b[j - i + 1]
      BY <2>2, <1>1, <1>2
    <3>2. j - i + 1 \in 1..(Len(s) - i)
      BY <2>2
    <3>3. (a \o b)[j] = s[i + (j - i + 1)]
      BY <3>1, <3>2, <1>3
    <3> QED BY <3>3, <2>2, <2>0
  <2> QED BY <2>1, <2>2
<1> QED BY <1>4, <1>5, <1>6

LEMMA SameSequence ==
  ASSUME NEW S, NEW s \in Seq(S), NEW r \in Seq(S), Len(s) = Len(r),
         \A i \in 1..Len(s) : s[i] = r[i]
  PROVE  s = r
OBVIOUS

LEMMA AppendFacts ==
  ASSUME NEW S, NEW s \in Seq(S), NEW x \in S
  PROVE  /\ Append(s, x) \in Seq(S)
         /\ Len(Append(s, x)) = Len(s) + 1
         /\ \A j \in 1..Len(s) : Append(s, x)[j] = s[j]
         /\ Append(s, x)[Len(s) + 1] = x
OBVIOUS

LEMMA InsertAtAppend ==
  ASSUME NEW S, NEW s \in Seq(S), NEW x \in S,
         NEW i \in 1..(Len(s) + 1), NEW e \in S
  PROVE  InsertAt(Append(s, x), i, e) = Append(InsertAt(s, i, e), x)
<1> DEFINE d == Append(s, x)
           g == InsertAt(s, i, e)
           l == InsertAt(d, i, e)
           r == Append(g, x)
           n == Len(s)
<1>1. /\ d \in Seq(S) /\ Len(d) = n + 1
      /\ \A j \in 1..n : d[j] = s[j]
      /\ d[n + 1] = x
  BY AppendFacts
<1>2. /\ g \in Seq(S) /\ Len(g) = n + 1
      /\ \A j \in 1..(n + 1) :
           g[j] = IF j < i THEN s[j] ELSE IF j = i THEN e ELSE s[j - 1]
  BY InsertAtFacts
<1>3. n \in Nat /\ i \in Nat
  OBVIOUS
<1> HIDE DEF d, g, n
<1>4. i \in 1..(Len(d) + 1)
  BY <1>1, <1>3 DEF n
<1>5. /\ l \in Seq(S) /\ Len(l) = Len(d) + 1
      /\ \A j \in 1..(Len(d) + 1) :
           l[j] = IF j < i THEN d[j] ELSE IF j = i THEN e ELSE d[j - 1]
  <2>1. d \in Seq(S)
    BY <1>1
  <2> QED BY ONLY <2>1, <1>4, e \in S, InsertAtFacts
<1>6. /\ r \in Seq(S) /\ Len(r) = Len(g) + 1
      /\ \A j \in 1..Len(g) : r[j] = g[j]
      /\ r[Len(g) + 1] = x
  BY <1>2, AppendFacts
<1>7. Len(l) = n + 2 /\ Len(r) = n + 2 /\ i <= n + 1
  BY <1>1, <1>2, <1>3, <1>5, <1>6 DEF n
<1> HIDE DEF l, r
<1>8. ASSUME NEW j \in 1..(n + 2) PROVE l[j] = r[j]
  <2>1. j \in Nat /\ j - 1 \in Int
    BY <1>3
  <2>2. CASE j = n + 2
    <3>1. l[j] = d[j - 1]
      BY <1>1, <1>3, <1>5, <1>7, <2>2
    <3>2. r[j] = x
      BY <1>2, <1>6, <2>2, <1>3
    <3>3. j - 1 = n + 1
      BY <2>2, <1>3
    <3> QED BY <3>1, <3>2, <3>3, <1>1
  <2>3. CASE j # n + 2
    <3>1. j \in 1..(n + 1) /\ j \in 1..(Len(d) + 1) /\ j \in 1..Len(g)
      BY <2>1, <2>3, <1>1, <1>2, <1>3
    <3>2. r[j] = IF j < i THEN s[j] ELSE IF j = i THEN e ELSE s[j - 1]
      BY <3>1, <1>2, <1>6
    <3>3. l[j] = IF j < i THEN d[j] ELSE IF j = i THEN e ELSE d[j - 1]
      BY <3>1, <1>5
    <3>4. CASE j < i
      <4>1. j \in 1..n
        BY <3>1, <3>4, <1>3, <1>7
      <4> QED BY <3>2, <3>3, <3>4, <4>1, <1>1
    <3>5. CASE j = i
      <4>1. ~(j < i)
        BY <3>5, <1>3
      <4> QED BY <3>2, <3>3, <3>5, <4>1
    <3>6. CASE j > i
      <4>1. j - 1 \in 1..n /\ ~(j < i) /\ j # i
        BY <3>1, <3>6, <1>3
      <4> QED BY <3>2, <3>3, <4>1, <1>1
    <3> QED BY <3>4, <3>5, <3>6, <2>1, <1>3
  <2> QED BY <2>2, <2>3
<1>9. l = r
  BY <1>5, <1>6, <1>7, <1>8, SameSequence
<1> QED BY <1>9 DEF l, r, d, g

LEMMA RemoveAtAppend ==
  ASSUME NEW S, NEW s \in Seq(S), NEW x \in S, NEW i \in 1..Len(s)
  PROVE  RemoveAt(Append(s, x), i) = Append(RemoveAt(s, i), x)
<1> DEFINE d == Append(s, x)
           g == RemoveAt(s, i)
           l == RemoveAt(d, i)
           r == Append(g, x)
           n == Len(s)
<1>1. /\ d \in Seq(S) /\ Len(d) = n + 1
      /\ \A j \in 1..n : d[j] = s[j]
      /\ d[n + 1] = x
  BY AppendFacts
<1>2. /\ g \in Seq(S) /\ Len(g) = n - 1
      /\ \A j \in 1..(n - 1) : g[j] = IF j < i THEN s[j] ELSE s[j + 1]
  BY RemoveAtFacts
<1>3. n \in Nat /\ i \in Nat /\ i <= n /\ n >= 1
  OBVIOUS
<1> HIDE DEF d, g, n
<1>4. i \in 1..Len(d)
  BY <1>1, <1>3 DEF n
<1>5. /\ l \in Seq(S) /\ Len(l) = Len(d) - 1
      /\ \A j \in 1..(Len(d) - 1) : l[j] = IF j < i THEN d[j] ELSE d[j + 1]
  BY <1>1, <1>4, RemoveAtFacts
<1>6. /\ r \in Seq(S) /\ Len(r) = Len(g) + 1
      /\ \A j \in 1..Len(g) : r[j] = g[j]
      /\ r[Len(g) + 1] = x
  BY <1>2, AppendFacts
<1>7. Len(l) = n /\ Len(r) = n
  BY <1>1, <1>2, <1>3, <1>5, <1>6
<1> HIDE DEF l, r
<1>8. ASSUME NEW j \in 1..n PROVE l[j] = r[j]
  <2>1. j \in Nat /\ j \in 1..(Len(d) - 1)
    BY <1>1, <1>3
  <2>2. l[j] = IF j < i THEN d[j] ELSE d[j + 1]
    BY <2>1, <1>5
  <2>3. CASE j = n
    <3>1. ~(j < i)
      BY <2>3, <1>3
    <3>2. r[j] = x
      BY <1>2, <1>6, <2>3, <1>3
    <3> QED BY <3>1, <3>2, <2>2, <2>3, <1>1
  <2>4. CASE j # n
    <3>1. j \in 1..(n - 1) /\ j \in 1..Len(g) /\ j + 1 \in 1..n
      BY <2>1, <2>4, <1>2, <1>3
    <3>2. r[j] = IF j < i THEN s[j] ELSE s[j + 1]
      BY <3>1, <1>2, <1>6
    <3> QED BY <2>2, <3>1, <3>2, <1>1
  <2> QED BY <2>3, <2>4
<1>9. l = r
  BY <1>5, <1>6, <1>7, <1>8, SameSequence
<1> QED BY <1>9 DEF l, r, d, g

(***************************************************************************)
(* The fragments in the DOM are those of a sequence h, then the end marker.*)
(***************************************************************************)
Marked(h) == Append(h, EndMarker)

LEMMA MarkedFacts ==
  ASSUME NEW n \in Nat, NEW h \in Seq(1..n), IsInjective(h)
  PROVE  /\ Marked(h) \in Seq(0..n)
         /\ Len(Marked(h)) = Len(h) + 1
         /\ \A i \in 1..Len(h) : Marked(h)[i] = h[i]
         /\ Marked(h)[Len(h) + 1] = EndMarker
         /\ IsInjective(Marked(h))
<1>1. h \in Seq(0..n) /\ EndMarker \in 0..n
  BY DEF EndMarker
<1>2. /\ Marked(h) \in Seq(0..n)
      /\ Len(Marked(h)) = Len(h) + 1
      /\ \A i \in 1..Len(h) : Marked(h)[i] = h[i]
      /\ Marked(h)[Len(h) + 1] = EndMarker
  BY <1>1 DEF Marked
<1>3. \A i \in 1..Len(h) : h[i] # EndMarker
  BY DEF EndMarker
<1>4. DOMAIN Marked(h) = 1..(Len(h) + 1) /\ DOMAIN h = 1..Len(h)
  BY <1>2
<1>5. IsInjective(Marked(h))
  <2>1. SUFFICES ASSUME NEW i \in 1..(Len(h) + 1), NEW j \in 1..(Len(h) + 1),
                        Marked(h)[i] = Marked(h)[j]
                 PROVE  i = j
    BY ONLY <1>4, <2>1 DEF IsInjective
  <2>2. Len(h) \in Nat
    OBVIOUS
  <2>3. CASE i \in 1..Len(h) /\ j \in 1..Len(h)
    <3>1. h[i] = h[j]
      BY ONLY <1>2, <2>1, <2>3
    <3> QED BY ONLY <1>4, <2>3, <3>1, IsInjective(h) DEF IsInjective
  <2>4. CASE i \in 1..Len(h) /\ j = Len(h) + 1
    BY ONLY <1>2, <1>3, <2>1, <2>4
  <2>5. CASE i = Len(h) + 1 /\ j \in 1..Len(h)
    BY ONLY <1>2, <1>3, <2>1, <2>5
  <2> QED BY ONLY <2>2, <2>3, <2>4, <2>5, i \in 1..(Len(h) + 1), j \in 1..(Len(h) + 1)
<1> QED BY <1>2, <1>5

LEMMA IndexOfElement ==
  ASSUME NEW S, NEW s \in Seq(S), IsInjective(s), NEW i \in 1..Len(s)
  PROVE  IndexIn(s, s[i]) = i
<1>1. DOMAIN s = 1..Len(s)
  OBVIOUS
<1> QED BY <1>1 DEF IsInjective, IndexIn


\* Inserting before the marker of position i - 1 inserts at that position.
LEMMA InsertMarked ==
  ASSUME NEW n \in Nat, NEW h \in Seq(1..n), IsInjective(h),
         NEW i \in 1..(Len(h) + 1), NEW f \in 1..n
  PROVE  InsertBefore(Marked(h), f, Marked(h)[i]) = Marked(InsertAt(h, i, f))
<1>1. h \in Seq(0..n) /\ EndMarker \in 0..n /\ f \in 0..n
  BY DEF EndMarker
<1>2. IndexIn(Marked(h), Marked(h)[i]) = i
  BY MarkedFacts, IndexOfElement
<1>3. InsertAt(Append(h, EndMarker), i, f) = Append(InsertAt(h, i, f), EndMarker)
  BY <1>1, InsertAtAppend
<1> QED BY <1>2, <1>3 DEF InsertBefore, Marked

\* Removing the fragment of position i - 1 removes what is at that position.
LEMMA RemoveMarked ==
  ASSUME NEW n \in Nat, NEW h \in Seq(1..n), IsInjective(h), NEW i \in 1..Len(h)
  PROVE  Without(Marked(h), h[i]) = Marked(RemoveAt(h, i))
<1>1. h \in Seq(0..n) /\ EndMarker \in 0..n
  BY DEF EndMarker
<1>2. h[i] = Marked(h)[i] /\ i \in 1..Len(Marked(h))
  BY MarkedFacts
<1>3. IndexIn(Marked(h), h[i]) = i
  BY <1>2, MarkedFacts, IndexOfElement
<1>4. RemoveAt(Append(h, EndMarker), i) = Append(RemoveAt(h, i), EndMarker)
  BY <1>1, RemoveAtAppend
<1> QED BY <1>3, <1>4 DEF Without, Marked

LEMMA InsertInjective ==
  ASSUME NEW S, NEW h \in Seq(S), IsInjective(h), NEW i \in 1..(Len(h) + 1),
         NEW f \in S, \A j \in 1..Len(h) : h[j] # f
  PROVE  IsInjective(InsertAt(h, i, f))
<1> DEFINE g == InsertAt(h, i, f)
<1>1. /\ g \in Seq(S) /\ Len(g) = Len(h) + 1
      /\ \A j \in 1..(Len(h) + 1) :
           g[j] = IF j < i THEN h[j] ELSE IF j = i THEN f ELSE h[j - 1]
  BY InsertAtFacts
<1>2. DOMAIN h = 1..Len(h) /\ Len(h) \in Nat /\ i \in Nat
  OBVIOUS
<1> HIDE DEF g
<1>3. DOMAIN g = 1..(Len(h) + 1)
  BY <1>1
<1>4. \A j \in 1..(Len(h) + 1) :
        /\ j < i => j \in 1..Len(h) /\ g[j] = h[j] /\ g[j] # f
        /\ j = i => g[j] = f
        /\ j > i => j - 1 \in 1..Len(h) /\ g[j] = h[j - 1] /\ g[j] # f
  BY <1>1, <1>2
<1>5. ASSUME NEW a \in 1..(Len(h) + 1), NEW b \in 1..(Len(h) + 1), g[a] = g[b]
      PROVE  a = b
  BY <1>2, <1>4, <1>5 DEF IsInjective
<1>6. IsInjective(g)
  BY <1>3, <1>5 DEF IsInjective
<1> QED BY <1>6 DEF g

LEMMA RemoveInjective ==
  ASSUME NEW S, NEW h \in Seq(S), IsInjective(h), NEW i \in 1..Len(h)
  PROVE  /\ IsInjective(RemoveAt(h, i))
         /\ \A j \in 1..(Len(h) - 1) : RemoveAt(h, i)[j] # h[i]
<1> DEFINE g == RemoveAt(h, i)
<1>1. /\ g \in Seq(S) /\ Len(g) = Len(h) - 1
      /\ \A j \in 1..(Len(h) - 1) : g[j] = IF j < i THEN h[j] ELSE h[j + 1]
  BY RemoveAtFacts
<1>2. DOMAIN h = 1..Len(h) /\ Len(h) \in Nat /\ i \in Nat
  OBVIOUS
<1> HIDE DEF g
<1>3. DOMAIN g = 1..(Len(h) - 1)
  BY <1>1
<1>4. \A j \in 1..(Len(h) - 1) :
        /\ j < i => j \in 1..Len(h) /\ g[j] = h[j]
        /\ j >= i => j + 1 \in 1..Len(h) /\ g[j] = h[j + 1]
  BY <1>1, <1>2
<1>8. \A x, y \in 1..Len(h) : h[x] = h[y] => x = y
  BY <1>2 DEF IsInjective
<1>5. ASSUME NEW a \in 1..(Len(h) - 1), NEW b \in 1..(Len(h) - 1), g[a] = g[b]
      PROVE  a = b
  <2>1. a \in Nat /\ b \in Nat
    BY <1>2
  <2>2. CASE a < i
    BY ONLY <1>2, <1>4, <1>5, <1>8, <2>1, <2>2
  <2>3. CASE a >= i
    BY ONLY <1>2, <1>4, <1>5, <1>8, <2>1, <2>3
  <2> QED BY <1>2, <2>1, <2>2, <2>3
<1>6. IsInjective(g)
  BY <1>3, <1>5 DEF IsInjective
<1>7. ASSUME NEW j \in 1..(Len(h) - 1) PROVE g[j] # h[i]
  BY <1>2, <1>4 DEF IsInjective
<1> QED BY <1>6, <1>7 DEF g

\* r has the elements of s and e; r has those of s but x.
Inserted(S, s, e, r) ==
  /\ r \in Seq(S) /\ IsInjective(r)
  /\ \E k \in 1..Len(r) : r[k] = e
  /\ \A j \in 1..Len(s) : \E k \in 1..Len(r) : r[k] = s[j]
Removed(S, s, x, r) ==
  /\ r \in Seq(S) /\ IsInjective(r)
  /\ \A j \in 1..Len(s) : s[j] = x \/ \E k \in 1..Len(r) : r[k] = s[j]

LEMMA InsertElement ==
  ASSUME NEW S, NEW s \in Seq(S), IsInjective(s), NEW i \in 1..(Len(s) + 1),
         NEW e \in S, \A j \in 1..Len(s) : s[j] # e
  PROVE  Inserted(S, s, e, InsertAt(s, i, e))
<1> DEFINE r == InsertAt(s, i, e)
<1>1. /\ r \in Seq(S) /\ Len(r) = Len(s) + 1
      /\ \A j \in 1..(Len(s) + 1) :
           r[j] = IF j < i THEN s[j] ELSE IF j = i THEN e ELSE s[j - 1]
  BY InsertAtFacts
<1>2. IsInjective(r)
  BY InsertInjective
<1>3. Len(s) \in Nat /\ i \in Nat
  OBVIOUS
<1> HIDE DEF r
<1>4. i \in 1..Len(r) /\ r[i] = e
  BY <1>1, <1>3
<1>5. ASSUME NEW j \in 1..Len(s)
      PROVE  \E k \in 1..Len(r) : r[k] = s[j]
  <2>1. /\ j \in Nat /\ j \in 1..(Len(s) + 1) /\ j + 1 \in 1..(Len(s) + 1)
        /\ (j + 1) - 1 = j
    BY <1>3
  <2>2. CASE j < i
    BY <1>1, <2>1, <2>2
  <2>3. CASE j >= i
    <3>1. r[j + 1] = s[j]
      BY ONLY <1>1, <1>3, <2>1, <2>3
    <3> QED BY <1>1, <2>1, <3>1
  <2> QED BY <1>3, <2>1, <2>2, <2>3
<1> QED BY <1>1, <1>2, <1>4, <1>5 DEF Inserted, r

LEMMA RemoveElement ==
  ASSUME NEW S, NEW s \in Seq(S), IsInjective(s), NEW i \in 1..Len(s)
  PROVE  Removed(S, s, s[i], RemoveAt(s, i))
<1> DEFINE r == RemoveAt(s, i)
<1>1. /\ r \in Seq(S) /\ Len(r) = Len(s) - 1
      /\ \A j \in 1..(Len(s) - 1) : r[j] = IF j < i THEN s[j] ELSE s[j + 1]
  BY RemoveAtFacts
<1>2. IsInjective(r)
  BY RemoveInjective
<1>3. Len(s) \in Nat /\ i \in Nat /\ i <= Len(s)
  OBVIOUS
<1> HIDE DEF r
<1>4. ASSUME NEW j \in 1..Len(s), j # i
      PROVE  \E k \in 1..Len(r) : r[k] = s[j]
  <2>1. j \in Nat /\ (j - 1) + 1 = j
    BY <1>3
  <2>2. CASE j < i
    <3>1. j \in 1..(Len(s) - 1)
      BY <1>3, <2>1, <2>2
    <3> QED BY <1>1, <2>2, <3>1
  <2>3. CASE j > i
    <3>1. j - 1 \in 1..(Len(s) - 1) /\ ~(j - 1 < i)
      BY <1>3, <2>1, <2>3
    <3>2. r[j - 1] = s[j]
      BY ONLY <1>1, <2>1, <3>1
    <3> QED BY <1>1, <3>1, <3>2
  <2> QED BY <1>3, <1>4, <2>1, <2>2, <2>3
<1> QED BY <1>1, <1>2, <1>4 DEF Removed, r

\* The two ways in which the code moves a handle come to the same: it is taken
\* out, and then it is inserted where it belongs.
LEMMA MoveDown ==
  ASSUME NEW S, NEW h \in Seq(S), NEW a \in 1..Len(h), NEW b \in 1..Len(h), b < a
  PROVE  RemoveAt(InsertAt(h, b, h[a]), a + 1) = InsertAt(RemoveAt(h, a), b, h[a])
<1> DEFINE e == h[a]
           n == Len(h)
           u == InsertAt(h, b, e)
           v == RemoveAt(h, a)
           l == RemoveAt(u, a + 1)
           r == InsertAt(v, b, e)
<1>1. /\ e \in S /\ n \in Nat /\ a \in Nat /\ b \in Nat /\ a <= n /\ b >= 1
      /\ b \in 1..(n + 1)
  OBVIOUS
<1>2. /\ u \in Seq(S) /\ Len(u) = n + 1
      /\ \A j \in 1..(n + 1) :
           u[j] = IF j < b THEN h[j] ELSE IF j = b THEN e ELSE h[j - 1]
  <2> HIDE DEF e
  <2>1. e \in S /\ b \in 1..(Len(h) + 1)
    BY ONLY <1>1 DEF n
  <2>2. ASSUME NEW i \in 1..(Len(h) + 1), NEW x \in S
        PROVE  /\ InsertAt(h, i, x) \in Seq(S)
               /\ Len(InsertAt(h, i, x)) = Len(h) + 1
               /\ \A j \in 1..(Len(h) + 1) :
                    InsertAt(h, i, x)[j] = IF j < i THEN h[j]
                                           ELSE IF j = i THEN x ELSE h[j - 1]
    BY ONLY h \in Seq(S), i \in 1..(Len(h) + 1), x \in S, InsertAtFacts
  <2> QED BY ONLY <2>1, <2>2 DEF n, u
<1>3. /\ v \in Seq(S) /\ Len(v) = n - 1
      /\ \A j \in 1..(n - 1) : v[j] = IF j < a THEN h[j] ELSE h[j + 1]
  BY ONLY h \in Seq(S), a \in 1..Len(h), RemoveAtFacts
<1> HIDE DEF e, n, u, v
<1>4. a + 1 \in 1..Len(u) /\ b \in 1..(Len(v) + 1) /\ u \in Seq(S) /\ v \in Seq(S)
      /\ e \in S
  BY <1>1, <1>2, <1>3
<1>5. /\ l \in Seq(S) /\ Len(l) = Len(u) - 1
      /\ \A j \in 1..(Len(u) - 1) : l[j] = IF j < a + 1 THEN u[j] ELSE u[j + 1]
  BY ONLY <1>4, RemoveAtFacts
<1>6. /\ r \in Seq(S) /\ Len(r) = Len(v) + 1
      /\ \A j \in 1..(Len(v) + 1) :
           r[j] = IF j < b THEN v[j] ELSE IF j = b THEN e ELSE v[j - 1]
  BY ONLY <1>4, InsertAtFacts
<1> HIDE DEF l, r
<1>7. Len(l) = n /\ Len(r) = n
  BY <1>1, <1>2, <1>3, <1>5, <1>6
<1>8. ASSUME NEW j \in 1..n PROVE l[j] = r[j]
  <2>1. j \in Nat /\ j \in 1..(Len(u) - 1) /\ j \in 1..(Len(v) + 1)
    BY <1>1, <1>2, <1>3
  <2>2. l[j] = IF j < a + 1 THEN u[j] ELSE u[j + 1]
    BY <2>1, <1>5
  <2>3. r[j] = IF j < b THEN v[j] ELSE IF j = b THEN e ELSE v[j - 1]
    BY <2>1, <1>6
  <2>4. CASE j < b
    <3>1. j \in 1..(n + 1) /\ j \in 1..(n - 1) /\ j < a + 1 /\ j < a
      BY <2>1, <2>4, <1>1
    <3>2. u[j] = h[j] /\ v[j] = h[j]
      BY <3>1, <2>4, <1>2, <1>3
    <3> QED BY <2>2, <2>3, <2>4, <3>1, <3>2
  <2>5. CASE j = b
    <3>1. j \in 1..(n + 1) /\ j < a + 1 /\ ~(j < b)
      BY <2>1, <2>5, <1>1
    <3>2. u[j] = e
      BY <3>1, <2>5, <1>2
    <3> QED BY <2>2, <2>3, <2>5, <3>1, <3>2
  <2>6. CASE j > b /\ j <= a
    <3>1. /\ j \in 1..(n + 1) /\ j < a + 1 /\ ~(j < b) /\ j # b
          /\ j - 1 \in 1..(n - 1) /\ j - 1 < a
      BY <2>1, <2>6, <1>1
    <3>2. u[j] = h[j - 1] /\ v[j - 1] = h[j - 1]
      BY <3>1, <1>2, <1>3
    <3> QED BY <2>2, <2>3, <3>1, <3>2
  <2>7. CASE j > a
    <3>1. /\ j + 1 \in 1..(n + 1) /\ ~(j < a + 1) /\ ~(j < b) /\ j # b
          /\ ~(j + 1 < b) /\ j + 1 # b /\ (j + 1) - 1 = j
          /\ j - 1 \in 1..(n - 1) /\ ~(j - 1 < a) /\ (j - 1) + 1 = j
      BY <2>1, <2>7, <1>1
    <3>2. u[j + 1] = h[j] /\ v[j - 1] = h[j]
      BY <3>1, <1>2, <1>3, SMTT(30)
    <3> QED BY <2>2, <2>3, <3>1, <3>2
  <2> QED BY <2>1, <1>1, <2>4, <2>5, <2>6, <2>7
<1>9. l = r
  BY <1>5, <1>6, <1>7, <1>8, SameSequence
<1> QED BY <1>9 DEF l, r, u, v, e

LEMMA MoveUp ==
  ASSUME NEW S, NEW h \in Seq(S), NEW a \in 1..Len(h), NEW b \in 1..Len(h), a < b
  PROVE  RemoveAt(InsertAt(h, b + 1, h[a]), a) = InsertAt(RemoveAt(h, a), b, h[a])
<1> DEFINE e == h[a]
           n == Len(h)
           c == b + 1
           u == InsertAt(h, c, e)
           v == RemoveAt(h, a)
           l == RemoveAt(u, a)
           r == InsertAt(v, b, e)
<1>1. /\ e \in S /\ n \in Nat /\ a \in Nat /\ b \in Nat /\ b <= n /\ a >= 1
      /\ c \in 1..(n + 1)
  OBVIOUS
<1>2. /\ u \in Seq(S) /\ Len(u) = n + 1
      /\ \A j \in 1..(n + 1) :
           u[j] = IF j < c THEN h[j] ELSE IF j = c THEN e ELSE h[j - 1]
  <2> HIDE DEF c, e
  <2> QED BY ONLY h \in Seq(S), <1>1, InsertAtFacts DEF n
<1>3. /\ v \in Seq(S) /\ Len(v) = n - 1
      /\ \A j \in 1..(n - 1) : v[j] = IF j < a THEN h[j] ELSE h[j + 1]
  BY ONLY h \in Seq(S), a \in 1..Len(h), RemoveAtFacts
<1>0. c = b + 1
  OBVIOUS
<1> HIDE DEF e, n, u, v, c
<1>4. a \in 1..Len(u) /\ b \in 1..(Len(v) + 1) /\ u \in Seq(S) /\ v \in Seq(S)
      /\ e \in S
  BY <1>1, <1>2, <1>3
<1>5. /\ l \in Seq(S) /\ Len(l) = Len(u) - 1
      /\ \A j \in 1..(Len(u) - 1) : l[j] = IF j < a THEN u[j] ELSE u[j + 1]
  BY ONLY <1>4, RemoveAtFacts
<1>6. /\ r \in Seq(S) /\ Len(r) = Len(v) + 1
      /\ \A j \in 1..(Len(v) + 1) :
           r[j] = IF j < b THEN v[j] ELSE IF j = b THEN e ELSE v[j - 1]
  BY ONLY <1>4, InsertAtFacts
<1> HIDE DEF l, r
<1>7. Len(l) = n /\ Len(r) = n
  BY <1>1, <1>2, <1>3, <1>5, <1>6
<1>8. ASSUME NEW j \in 1..n PROVE l[j] = r[j]
  <2>1. j \in Nat /\ j \in 1..(Len(u) - 1) /\ j \in 1..(Len(v) + 1)
    BY <1>1, <1>2, <1>3
  <2>2. l[j] = IF j < a THEN u[j] ELSE u[j + 1]
    BY <2>1, <1>5
  <2>3. r[j] = IF j < b THEN v[j] ELSE IF j = b THEN e ELSE v[j - 1]
    BY <2>1, <1>6
  <2>4. CASE j < a
    <3>1. j \in 1..(n + 1) /\ j \in 1..(n - 1) /\ j < c /\ j < b
      BY <2>1, <2>4, <1>0, <1>1
    <3>2. u[j] = h[j] /\ v[j] = h[j]
      BY <3>1, <2>4, <1>2, <1>3
    <3> QED BY <2>2, <2>3, <2>4, <3>1, <3>2
  <2>5. CASE j >= a /\ j < b
    <3>1. j + 1 \in 1..(n + 1) /\ j \in 1..(n - 1) /\ ~(j < a) /\ j + 1 < c
      BY <2>1, <2>5, <1>0, <1>1
    <3>2. u[j + 1] = h[j + 1] /\ v[j] = h[j + 1]
      BY <3>1, <1>2, <1>3
    <3> QED BY <2>2, <2>3, <2>5, <3>1, <3>2
  <2>6. CASE j = b
    <3>1. j + 1 \in 1..(n + 1) /\ ~(j < a) /\ j + 1 = c /\ ~(c < c) /\ ~(b < b)
      BY <2>1, <2>6, <1>0, <1>1
    <3>2. u[j + 1] = e
      BY <3>1, <1>2
    <3> QED BY <2>2, <2>3, <2>6, <3>1, <3>2
  <2>7. CASE j > b
    <3>1. /\ j + 1 \in 1..(n + 1) /\ ~(j < a) /\ ~(j < b) /\ j # b
          /\ ~(j + 1 < c) /\ j + 1 # c /\ (j + 1) - 1 = j
          /\ j - 1 \in 1..(n - 1) /\ ~(j - 1 < a) /\ (j - 1) + 1 = j
      BY <2>1, <2>7, <1>0, <1>1
    <3>2. u[j + 1] = h[j] /\ v[j - 1] = h[j]
      BY <3>1, <1>2, <1>3, SMTT(30)
    <3> QED BY <2>2, <2>3, <3>1, <3>2
  <2> QED BY <2>1, <1>1, <2>4, <2>5, <2>6, <2>7
<1>9. l = r
  BY <1>5, <1>6, <1>7, <1>8, SameSequence
<1> QED BY <1>9 DEF l, r, u, v, e, c

LEMMA MoveMarked ==
  ASSUME NEW n \in Nat, NEW h \in Seq(1..n), IsInjective(h),
         NEW a \in 1..Len(h), NEW b \in 1..Len(h), a # b,
         NEW target,
         target = IF a > b THEN h[b] ELSE IF b = Len(h) THEN EndMarker ELSE h[b + 1]
  PROVE  /\ InsertBefore(Without(Marked(h), h[a]), h[a], target)
              = Marked(InsertAt(RemoveAt(h, a), b, h[a]))
         /\ InsertAt(RemoveAt(h, a), b, h[a]) \in Seq(1..n)
         /\ IsInjective(InsertAt(RemoveAt(h, a), b, h[a]))
<1> DEFINE v == RemoveAt(h, a)
<1>1. /\ v \in Seq(1..n) /\ Len(v) = Len(h) - 1
      /\ \A j \in 1..(Len(h) - 1) : v[j] = IF j < a THEN h[j] ELSE h[j + 1]
  BY RemoveAtFacts
<1>2. IsInjective(v) /\ \A j \in 1..(Len(h) - 1) : v[j] # h[a]
  BY RemoveInjective
<1>3. Without(Marked(h), h[a]) = Marked(v)
  BY RemoveMarked
<1>4. h[a] \in 1..n /\ Len(h) \in Nat /\ a \in Nat /\ b \in Nat
  OBVIOUS
<1> HIDE DEF v
<1>5. b \in 1..(Len(v) + 1)
  BY <1>1, <1>4
<1>6. /\ \A j \in 1..Len(v) : Marked(v)[j] = v[j]
      /\ Marked(v)[Len(v) + 1] = EndMarker
  BY <1>1, <1>2, MarkedFacts
<1>7. target = Marked(v)[b]
  <2>1. CASE a > b
    <3>1. b \in 1..(Len(h) - 1) /\ b < a
      BY <2>1, <1>4
    <3> QED BY <3>1, <2>1, <1>1, <1>6
  <2>2. CASE ~(a > b) /\ b = Len(h)
    <3>1. b = Len(v) + 1
      BY <2>2, <1>1, <1>4
    <3> QED BY <3>1, <2>2, <1>6
  <2>3. CASE ~(a > b) /\ b # Len(h)
    <3>1. b \in 1..(Len(h) - 1) /\ ~(b < a)
      BY <2>3, <1>4
    <3> QED BY <3>1, <2>3, <1>1, <1>6
  <2> QED BY <2>1, <2>2, <2>3
<1>8. InsertBefore(Marked(v), h[a], Marked(v)[b]) = Marked(InsertAt(v, b, h[a]))
  BY <1>1, <1>2, <1>4, <1>5, InsertMarked
<1>9. InsertAt(v, b, h[a]) \in Seq(1..n)
  BY <1>1, <1>4, <1>5, InsertAtFacts
<1>10. IsInjective(InsertAt(v, b, h[a]))
  BY <1>1, <1>2, <1>4, <1>5, InsertInjective
<1> QED BY <1>3, <1>7, <1>8, <1>9, <1>10 DEF v

(***************************************************************************)
(* Type correctness.                                                       *)
(***************************************************************************)
LEMMA SeqOfTypes ==
  ASSUME NEW S, NEW T, S \subseteq T, NEW n \in Nat, NEW s \in SeqOf(S, n)
  PROVE  s \in Seq(T)
<1>1. PICK m \in 0..n : s \in [1..m -> S]
  BY DEF SeqOf
<1>2. s \in [1..m -> T] /\ m \in Nat
  BY <1>1
<1> QED BY <1>2

LEMMA HeadTail ==
  ASSUME NEW S, NEW s \in Seq(S), s # <<>>
  PROVE  Head(s) \in S /\ Tail(s) \in Seq(S)
OBVIOUS

LEMMA ModificationFields ==
  ASSUME NEW m \in Modifications
  PROVE  /\ m.kind \in {"Insertion", "Change", "Deletion", "Move"}
         /\ m.kind # "Move" => m.position \in Nat
         /\ m.kind \in {"Insertion", "Change"} => m.item \in Items
         /\ m.kind = "Move" => m.oldPosition \in Nat /\ m.newPosition \in Nat
BY DEF Modifications, ModificationsAt

LEMMA AppliedTypes ==
  ASSUME NEW s \in Seq(Items), NEW m \in Modifications, Completes(s, m)
  PROVE  Applied(s, m) \in Seq(Items)
<1>1. Len(s) \in Nat
  OBVIOUS
<1>2. CASE m.kind = "Insertion"
  <2>1. m.position + 1 \in 1..(Len(s) + 1) /\ m.item \in Items
    BY <1>1, <1>2, ModificationFields DEF Completes
  <2> QED BY <1>2, <2>1, InsertAtFacts DEF Applied
<1>3. CASE m.kind = "Change"
  <2>1. m.position + 1 \in 1..Len(s) /\ m.item \in Items
    BY <1>1, <1>3, ModificationFields DEF Completes
  <2> QED BY <1>3, <2>1 DEF Applied, ReplaceAt
<1>4. CASE m.kind = "Deletion"
  <2>1. m.position + 1 \in 1..Len(s)
    BY <1>1, <1>4, ModificationFields DEF Completes
  <2> QED BY <1>4, <2>1, RemoveAtFacts DEF Applied
<1>5. CASE m.kind = "Move" /\ m.oldPosition = m.newPosition
  BY <1>5 DEF Applied
<1>6. CASE m.kind = "Move" /\ m.oldPosition # m.newPosition
  <2> DEFINE a == m.oldPosition + 1
             b == m.newPosition + 1
  <2>1. a \in 1..Len(s) /\ b \in 1..Len(s) /\ s[a] \in Items
    BY <1>1, <1>6, ModificationFields DEF Completes
  <2>2. m.oldPosition \in Nat /\ m.newPosition \in Nat
    BY <1>6, ModificationFields
  <2>3. CASE m.oldPosition >= m.newPosition
    <3>1. b \in 1..(Len(s) + 1) /\ m.oldPosition + 2 \in 1..(Len(s) + 1)
      BY <2>1, <2>2, <1>1
    <3> HIDE DEF a, b
    <3>2. InsertAt(s, b, s[a]) \in Seq(Items) /\ Len(InsertAt(s, b, s[a])) = Len(s) + 1
      BY ONLY s \in Seq(Items), <3>1, <2>1, InsertAtFacts
    <3>3. RemoveAt(InsertAt(s, b, s[a]), m.oldPosition + 2) \in Seq(Items)
      BY <3>1, <3>2, RemoveAtFacts
    <3> QED BY <3>3, <2>3, <1>6 DEF Applied, Moved, a, b
  <2>4. CASE ~(m.oldPosition >= m.newPosition)
    <3>1. RemoveAt(s, a) \in Seq(Items) /\ Len(RemoveAt(s, a)) = Len(s) - 1
      BY <2>1, RemoveAtFacts
    <3>2. b \in 1..(Len(RemoveAt(s, a)) + 1)
      BY <3>1, <2>1, <1>1
    <3>3. InsertAt(RemoveAt(s, a), b, s[a]) \in Seq(Items)
      BY <3>1, <3>2, <2>1, InsertAtFacts
    <3> QED BY <3>3, <2>4, <1>6 DEF Applied, Moved
  <2> QED BY <2>3, <2>4
<1> QED BY <1>2, <1>3, <1>4, <1>5, <1>6, ModificationFields

LEMMA AfterFailureTypes ==
  ASSUME NEW s \in Seq(Items), NEW m \in Modifications
  PROVE  AfterFailure(s, m) \in Seq(Items)
<1>1. CASE /\ m.kind = "Move" /\ m.oldPosition < m.newPosition
           /\ m.oldPosition < Len(s)
  <2>1. m.oldPosition + 1 \in 1..Len(s)
    BY <1>1, ModificationFields
  <2> QED BY <1>1, <2>1, RemoveAtFacts DEF AfterFailure
<1>2. CASE ~(/\ m.kind = "Move" /\ m.oldPosition < m.newPosition
             /\ m.oldPosition < Len(s))
  BY <1>2 DEF AfterFailure
<1> QED BY <1>1, <1>2

(***************************************************************************)
(* A sequence d in which the elements of m occur in their order: the DOM,  *)
(* with markers nobody took out, and the fragments that are handled.       *)
(***************************************************************************)
Before(d, x, y) == \E i, j \in 1..Len(d) : i < j /\ d[i] = x /\ d[j] = y
Mirrors(d, m) ==
  /\ \A i, j \in 1..Len(d) : d[i] = d[j] => i = j
  /\ \A i \in 1..Len(m) : \E a \in 1..Len(d) : d[a] = m[i]
  /\ \A i, j \in 1..Len(m) : i < j => Before(d, m[i], m[j])

\* Inserting a new element before one that is mirrored, in the sequence that mirrors
\* and, or not, in the one that is mirrored.
InsertionMirrors(S, d, m, f, e, o) ==
  /\ e \in Seq(S) /\ Len(e) = Len(d) + 1 /\ Len(d) >= 1
  /\ e[Len(e)] = d[Len(d)]
  /\ \A a \in 1..Len(e) : e[a] = f \/ \E b \in 1..Len(d) : e[a] = d[b]
  /\ Mirrors(e, m) /\ Mirrors(e, o)

LEMMA InsertMirrors ==
  ASSUME NEW S, NEW d \in Seq(S), NEW m \in Seq(S), Mirrors(d, m),
         NEW i \in 1..Len(m), NEW f \in S, \A a \in 1..Len(d) : d[a] # f
  PROVE  InsertionMirrors(S, d, m, f, InsertBefore(d, f, m[i]), InsertAt(m, i, f))
<1> DEFINE n == Len(d)
           e == InsertBefore(d, f, m[i])
<1>1. PICK k \in 1..Len(d) : d[k] = m[i]
  BY DEF Mirrors
<1>2. IndexIn(d, m[i]) = k
  BY <1>1 DEF Mirrors, IndexIn
<1>3. n \in Nat /\ k \in Nat /\ k \in 1..n /\ k \in 1..(n + 1)
  BY <1>1
<1>4. /\ e \in Seq(S) /\ Len(e) = n + 1
      /\ \A a \in 1..(n + 1) : e[a] = IF a < k THEN d[a] ELSE IF a = k THEN f ELSE d[a - 1]
  <2>1. e = InsertAt(d, k, f)
    BY <1>2 DEF InsertBefore
  <2>2. d \in Seq(S) /\ f \in S /\ k \in 1..(Len(d) + 1)
    BY <1>3
  <2>3. InsertAt(d, k, f) \in Seq(S) /\ Len(InsertAt(d, k, f)) = Len(d) + 1
    BY ONLY <2>2, InsertAtFacts
  <2>4. \A a \in 1..(Len(d) + 1) :
          InsertAt(d, k, f)[a] = IF a < k THEN d[a] ELSE IF a = k THEN f ELSE d[a - 1]
    BY ONLY <2>2, InsertAtFacts
  <2> QED BY <2>1, <2>3, <2>4
<1> HIDE DEF e
<1>0. Len(e) = n + 1
  BY <1>4
<1>5. \A a \in 1..n : d[a] # f
  OBVIOUS
<1>6. \A a, b \in 1..n : d[a] = d[b] => a = b
  BY DEF Mirrors
<1> HIDE DEF n
<1>7. ASSUME NEW a \in 1..n
      PROVE  /\ a < k => a \in 1..(n + 1) /\ e[a] = d[a]
             /\ a >= k => a + 1 \in 1..(n + 1) /\ e[a + 1] = d[a]
  <2>1. a \in Nat /\ a \in 1..(n + 1) /\ a + 1 \in 1..(n + 1) /\ (a + 1) - 1 = a
    BY <1>3
  <2>2. a < k => e[a] = d[a]
    BY ONLY <1>4, <2>1
  <2>3. a >= k => e[a + 1] = d[a]
    BY ONLY <1>3, <1>4, <2>1
  <2> QED BY <2>1, <2>2, <2>3
<1>8. \A a \in 1..(n + 1) : /\ a < k => a \in 1..n /\ e[a] = d[a]
                            /\ a = k => e[a] = f
                            /\ a > k => a - 1 \in 1..n /\ e[a] = d[a - 1]
  BY <1>3, <1>4
<1>9. ASSUME NEW a \in 1..(n + 1), NEW b \in 1..(n + 1), e[a] = e[b]
      PROVE  a = b
  BY <1>3, <1>5, <1>6, <1>8, <1>9
<1>10. ASSUME NEW x, NEW y, Before(d, x, y)
       PROVE  Before(e, x, y)
  <2>1. PICK a \in 1..n, b \in 1..n : a < b /\ d[a] = x /\ d[b] = y
    BY <1>10 DEF Before, n
  <2>0. a \in Nat /\ b \in Nat
    BY <1>3
  <2>2. CASE b < k
    <3>1. a \in 1..Len(e) /\ b \in 1..Len(e) /\ e[a] = x /\ e[b] = y
      BY ONLY <1>0, <1>3, <1>7, <2>0, <2>1, <2>2
    <3> QED BY <2>1, <3>1 DEF Before
  <2>3. CASE a < k /\ b >= k
    <3>1. a \in 1..Len(e) /\ b + 1 \in 1..Len(e) /\ a < b + 1 /\ e[a] = x /\ e[b + 1] = y
      BY ONLY <1>0, <1>3, <1>7, <2>0, <2>1, <2>3
    <3> QED BY <3>1 DEF Before
  <2>4. CASE a >= k
    <3>1. /\ a + 1 \in 1..Len(e) /\ b + 1 \in 1..Len(e) /\ a + 1 < b + 1
          /\ e[a + 1] = x /\ e[b + 1] = y
      BY ONLY <1>0, <1>3, <1>7, <2>0, <2>1, <2>4
    <3> QED BY <3>1 DEF Before
  <2> QED BY <1>3, <2>0, <2>1, <2>2, <2>3, <2>4
<1>11. \A a \in 1..n : \E b \in 1..Len(e) : e[b] = d[a]
  <2>1. ASSUME NEW a \in 1..n PROVE \E b \in 1..Len(e) : e[b] = d[a]
    <3>1. CASE a < k
      BY <1>4, <1>7, <3>1
    <3>2. CASE a >= k
      BY <1>4, <1>7, <3>2
    <3> QED BY <1>3, <3>1, <3>2
  <2> QED BY <2>1
<1>12. Mirrors(e, m)
  <2>1. \A j \in 1..Len(m) : \E a \in 1..Len(e) : e[a] = m[j]
    <3>1. \A j \in 1..Len(m) : \E a \in 1..n : d[a] = m[j]
      BY DEF Mirrors, n
    <3> QED BY <3>1, <1>11
  <2>2. \A a, b \in 1..Len(m) : a < b => Before(e, m[a], m[b])
    BY <1>10 DEF Mirrors
  <2> QED BY <1>4, <1>9, <2>1, <2>2 DEF Mirrors
<1> DEFINE l == Len(m)
           o == InsertAt(m, i, f)
<1>13. /\ l \in Nat /\ i \in Nat /\ i \in 1..l
       /\ o \in Seq(S) /\ Len(o) = l + 1
       /\ \A a \in 1..(l + 1) : o[a] = IF a < i THEN m[a] ELSE IF a = i THEN f ELSE m[a - 1]
  <2>1. l \in Nat /\ i \in Nat /\ i \in 1..(Len(m) + 1)
    OBVIOUS
  <2> QED BY <2>1, InsertAtFacts
<1>14. \A a, b \in 1..l : a < b => Before(d, m[a], m[b])
  BY DEF Mirrors
<1>15. \A a \in 1..l : \E b \in 1..Len(e) : e[b] = m[a]
  BY <1>12 DEF Mirrors
<1> HIDE DEF l, o
<1>16. \A a \in 1..(l + 1) : /\ a < i => a \in 1..l /\ o[a] = m[a]
                             /\ a = i => o[a] = f
                             /\ a > i => a - 1 \in 1..l /\ o[a] = m[a - 1]
  BY <1>13
<1>17. k \in 1..Len(e) /\ e[k] = f
  BY <1>3, <1>4
<1>18. ASSUME NEW a \in 1..(l + 1) PROVE \E b \in 1..Len(e) : e[b] = o[a]
  <2>1. CASE a < i
    BY <1>15, <1>16, <2>1
  <2>2. CASE a = i
    BY <1>16, <1>17, <2>2
  <2>3. CASE a > i
    BY <1>15, <1>16, <2>3
  <2> QED BY <1>13, <2>1, <2>2, <2>3
\* What comes before m[i] comes before f; f comes before m[i] and what comes after it.
<1>19. \A x : Before(d, x, m[i]) => Before(e, x, f)
  <2>1. SUFFICES ASSUME NEW a \in 1..n, NEW b \in 1..n, a < b, d[b] = m[i]
                 PROVE  Before(e, d[a], f)
    BY DEF Before, n
  <2>2. b = k
    BY <1>1, <1>3, <1>6, <2>1
  <2>3. a < k /\ a \in 1..Len(e) /\ e[a] = d[a]
    BY <1>3, <1>4, <1>7, <2>1, <2>2
  <2> QED BY <1>17, <2>3 DEF Before
<1>20. ASSUME NEW y, y = m[i] \/ Before(d, m[i], y)
       PROVE  Before(e, f, y)
  <2>1. PICK b \in 1..n : b >= k /\ d[b] = y
    <3>1. CASE y = m[i]
      BY <3>1, <1>1, <1>3
    <3>2. CASE Before(d, m[i], y)
      <4>1. PICK a \in 1..n, b \in 1..n : a < b /\ d[a] = m[i] /\ d[b] = y
        BY <3>2 DEF Before, n
      <4>2. a = k
        BY <1>1, <1>3, <1>6, <4>1
      <4> QED BY <1>3, <4>1, <4>2
    <3> QED BY <3>1, <3>2, <1>20
  <2>2. b + 1 \in 1..Len(e) /\ e[b + 1] = y /\ k < b + 1
    BY ONLY <1>0, <1>3, <1>7, <2>1
  <2> QED BY <1>17, <2>2 DEF Before
<1>21. ASSUME NEW a \in 1..(l + 1), NEW b \in 1..(l + 1), a < b
       PROVE  Before(e, o[a], o[b])
  <2>1. CASE b < i
    <3>1. a \in 1..l /\ b \in 1..l /\ o[a] = m[a] /\ o[b] = m[b]
      BY <1>13, <1>16, <1>21, <2>1
    <3> QED BY <3>1, <1>10, <1>14, <1>21
  <2>2. CASE b = i
    <3>1. a \in 1..l /\ o[a] = m[a] /\ o[b] = f
      BY <1>13, <1>16, <1>21, <2>2
    <3>2. i \in 1..l /\ a < i
      BY <1>13, <1>21, <2>2
    <3>3. Before(d, m[a], m[i])
      BY ONLY <3>1, <3>2, <1>14
    <3> QED BY ONLY <3>1, <3>3, <1>19
  <2>3. CASE a < i /\ b > i
    <3>0. a \in Nat /\ b \in Nat /\ i \in Nat /\ a < b - 1
      BY <1>13, <2>3
    <3>1. a \in 1..l /\ b - 1 \in 1..l /\ a < b - 1 /\ o[a] = m[a] /\ o[b] = m[b - 1]
      BY ONLY <1>16, <2>3, <3>0, a \in 1..(l + 1), b \in 1..(l + 1)
    <3> QED BY <3>1, <1>10, <1>14
  <2>4. CASE a = i
    <3>1. b - 1 \in 1..l /\ b - 1 >= i /\ o[a] = f /\ o[b] = m[b - 1]
      BY <1>13, <1>16, <1>21, <2>4
    <3>2. m[b - 1] = m[i] \/ Before(d, m[i], m[b - 1])
      BY <3>1, <1>13, <1>14
    <3> QED BY <3>1, <3>2, <1>20
  <2>5. CASE a > i
    <3>1. /\ a - 1 \in 1..l /\ b - 1 \in 1..l /\ a - 1 < b - 1
          /\ o[a] = m[a - 1] /\ o[b] = m[b - 1]
      BY <1>13, <1>16, <1>21, <2>5
    <3> QED BY <3>1, <1>10, <1>14
  <2> QED BY <1>13, <1>21, <2>1, <2>2, <2>3, <2>4, <2>5
<1>22. Mirrors(e, o)
  <2>1. Len(e) = n + 1 /\ Len(o) = l + 1
    BY <1>4, <1>13
  <2> QED BY ONLY <2>1, <1>9, <1>18, <1>21 DEF Mirrors
<1>23. n >= 1 /\ e[Len(e)] = d[n]
  BY ONLY <1>0, <1>3, <1>7
<1>24. \A a \in 1..Len(e) : e[a] = f \/ \E b \in 1..n : e[a] = d[b]
  BY <1>3, <1>4, <1>8
<1> QED BY <1>4, <1>12, <1>22, <1>23, <1>24 DEF InsertionMirrors, n, o, e

\* Removing an element from both sequences.
RemovalMirrors(S, d, x, e, o) ==
  /\ e \in Seq(S) /\ Len(e) = Len(d) - 1
  /\ d[Len(d)] # x => Len(e) >= 1 /\ e[Len(e)] = d[Len(d)]
  /\ \A a \in 1..Len(e) : e[a] # x /\ \E b \in 1..Len(d) : e[a] = d[b]
  /\ Mirrors(e, o)

LEMMA RemoveMirrors ==
  ASSUME NEW S, NEW d \in Seq(S), NEW m \in Seq(S), Mirrors(d, m), NEW i \in 1..Len(m)
  PROVE  RemovalMirrors(S, d, m[i], Without(d, m[i]), RemoveAt(m, i))
<1> DEFINE n == Len(d)
           e == Without(d, m[i])
<1>1. PICK k \in 1..Len(d) : d[k] = m[i]
  BY DEF Mirrors
<1>2. IndexIn(d, m[i]) = k
  BY <1>1 DEF Mirrors, IndexIn
<1>3. n \in Nat /\ k \in Nat /\ k \in 1..n
  BY <1>1
<1>4. /\ e \in Seq(S) /\ Len(e) = n - 1
      /\ \A a \in 1..(n - 1) : e[a] = IF a < k THEN d[a] ELSE d[a + 1]
  <2>1. e = RemoveAt(d, k)
    BY <1>2 DEF Without
  <2> QED BY <1>3, <2>1, RemoveAtFacts
<1> HIDE DEF e
<1>0. Len(e) = n - 1
  BY <1>4
<1>6. \A a, b \in 1..n : d[a] = d[b] => a = b
  BY DEF Mirrors
<1> HIDE DEF n
<1>7. \A a \in 1..n : /\ a < k => a \in 1..(n - 1) /\ e[a] = d[a]
                      /\ a > k => a - 1 \in 1..(n - 1) /\ e[a - 1] = d[a]
  BY <1>3, <1>4
<1>8. \A a \in 1..(n - 1) : /\ a < k => a \in 1..n /\ e[a] = d[a]
                            /\ a >= k => a + 1 \in 1..n /\ e[a] = d[a + 1]
  BY <1>3, <1>4
<1>9. ASSUME NEW a \in 1..(n - 1), NEW b \in 1..(n - 1), e[a] = e[b]
      PROVE  a = b
  BY <1>3, <1>6, <1>8, <1>9
<1>10. ASSUME NEW x, NEW y, x # m[i], y # m[i], Before(d, x, y)
       PROVE  Before(e, x, y)
  <2>1. PICK a \in 1..n, b \in 1..n : a < b /\ d[a] = x /\ d[b] = y
    BY <1>10 DEF Before, n
  <2>2. a # k /\ b # k /\ a \in Nat /\ b \in Nat
    BY <1>1, <1>3, <1>10, <2>1
  <2>3. CASE b < k
    <3>1. a \in 1..Len(e) /\ b \in 1..Len(e) /\ e[a] = x /\ e[b] = y
      BY ONLY <1>0, <1>3, <1>7, <2>1, <2>2, <2>3
    <3> QED BY <3>1, <2>1 DEF Before
  <2>4. CASE a < k /\ b > k
    <3>1. a \in 1..Len(e) /\ b - 1 \in 1..Len(e) /\ a < b - 1 /\ e[a] = x /\ e[b - 1] = y
      BY ONLY <1>0, <1>3, <1>7, <2>1, <2>2, <2>4
    <3> QED BY <3>1 DEF Before
  <2>5. CASE a > k
    <3>0. b > k /\ a - 1 < b - 1
      BY ONLY <1>3, <2>1, <2>2, <2>5
    <3>2. a - 1 \in 1..Len(e) /\ e[a - 1] = x
      BY ONLY <1>0, <1>7, <2>1, <2>5
    <3>3. b - 1 \in 1..Len(e) /\ e[b - 1] = y
      BY ONLY <1>0, <1>7, <2>1, <3>0
    <3>1. /\ a - 1 \in 1..Len(e) /\ b - 1 \in 1..Len(e) /\ a - 1 < b - 1
          /\ e[a - 1] = x /\ e[b - 1] = y
      BY ONLY <3>0, <3>2, <3>3
    <3> QED BY <3>1 DEF Before
  <2> QED BY <1>3, <2>1, <2>2, <2>3, <2>4, <2>5
<1> DEFINE l == Len(m)
           o == RemoveAt(m, i)
<1>11. /\ l \in Nat /\ i \in Nat /\ i \in 1..l
       /\ o \in Seq(S) /\ Len(o) = l - 1
       /\ \A a \in 1..(l - 1) : o[a] = IF a < i THEN m[a] ELSE m[a + 1]
  BY RemoveAtFacts
<1>12. \A a, b \in 1..l : a < b => Before(d, m[a], m[b])
  BY DEF Mirrors
<1>13. \A a \in 1..l : \E b \in 1..n : d[b] = m[a]
  BY DEF Mirrors, n
<1> HIDE DEF l, o
<1>14. \A x, y : Before(d, x, y) => x # y
  BY <1>6 DEF Before, n
<1>15. \A a \in 1..l : a # i => m[a] # m[i]
  BY <1>11, <1>12, <1>14
<1>16. \A a \in 1..(l - 1) : /\ a < i => a \in 1..l /\ o[a] = m[a]
                             /\ a >= i => a + 1 \in 1..l /\ o[a] = m[a + 1]
  BY <1>11
<1>17. \A a \in 1..(l - 1) : o[a] # m[i] /\ \E b \in 1..l : o[a] = m[b]
  BY <1>11, <1>15, <1>16
<1>18. ASSUME NEW a \in 1..(l - 1) PROVE \E b \in 1..Len(e) : e[b] = o[a]
  <2>1. PICK b \in 1..n : d[b] = o[a]
    BY <1>13, <1>17
  <2>2. b # k
    BY <1>1, <1>17, <2>1
  <2> QED BY <1>3, <1>4, <1>7, <2>1, <2>2
<1>19. ASSUME NEW a \in 1..(l - 1), NEW b \in 1..(l - 1), a < b
       PROVE  Before(e, o[a], o[b])
  <2>1. Before(d, o[a], o[b])
    <3>1. CASE b < i
      BY <1>11, <1>12, <1>16, <1>19, <3>1
    <3>2. CASE a < i /\ b >= i
      <4>1. a \in 1..l /\ b + 1 \in 1..l /\ a < b + 1 /\ o[a] = m[a] /\ o[b] = m[b + 1]
        BY <1>11, <1>16, <1>19, <3>2
      <4> QED BY <4>1, <1>12
    <3>3. CASE a >= i
      <4>1. /\ a + 1 \in 1..l /\ b + 1 \in 1..l /\ a + 1 < b + 1
            /\ o[a] = m[a + 1] /\ o[b] = m[b + 1]
        BY <1>11, <1>16, <1>19, <3>3
      <4> QED BY <4>1, <1>12
    <3> QED BY <1>11, <1>19, <3>1, <3>2, <3>3
  <2> QED BY <2>1, <1>10, <1>17
<1>20. Mirrors(e, o)
  BY <1>4, <1>9, <1>11, <1>18, <1>19 DEF Mirrors
<1>21. d[n] # m[i] => Len(e) >= 1 /\ e[Len(e)] = d[n]
  BY <1>1, <1>3, <1>4
<1>22. \A a \in 1..Len(e) : e[a] # m[i] /\ \E b \in 1..n : e[a] = d[b]
  BY <1>1, <1>3, <1>4, <1>6, <1>8
<1> QED BY <1>4, <1>20, <1>21, <1>22 DEF RemovalMirrors, n, o, e

(***************************************************************************)
(* The listener keeps renderHandles like the DOM.                          *)
(***************************************************************************)
\* Besides the fragments h and the end marker, d has only fragments that show Blank.
Leftovers(d, h, g) ==
  \A a \in 1..Len(d) :
     d[a] = EndMarker \/ (\E i \in 1..Len(h) : h[i] = d[a]) \/ g[d[a]] = Blank

Follows(d, h, g) ==
  /\ Mirrors(d, Marked(h)) /\ Leftovers(d, h, g)
  /\ Len(d) >= 1 /\ d[Len(d)] = EndMarker

\* If nothing fails to be drawn there is nothing besides.
Exact == dom = Marked(renderHandles) /\ shown \in [1..fragments -> Items]

ViewInv ==
  /\ fragments \in Nat
  /\ renderHandles \in Seq(1..fragments) /\ IsInjective(renderHandles)
  /\ shown \in [1..fragments -> Items \cup {Blank}]
  /\ dom \in Seq(0..fragments)
  /\ Follows(dom, renderHandles, shown)
  /\ Unrenderable = {} => Exact

LEMMA MarkerFacts ==
  ASSUME ViewInv, NEW p \in 0..Len(renderHandles)
  PROVE  MarkerAt(p) = Marked(renderHandles)[p + 1]
<1>1. /\ \A i \in 1..Len(renderHandles) : Marked(renderHandles)[i] = renderHandles[i]
      /\ Marked(renderHandles)[Len(renderHandles) + 1] = EndMarker
  BY MarkedFacts DEF ViewInv
<1>2. Len(renderHandles) \in Nat
  BY DEF ViewInv
<1>3. CASE p = Len(renderHandles)
  BY <1>1, <1>3 DEF MarkerAt
<1>4. CASE p # Len(renderHandles)
  <2>1. p + 1 \in 1..Len(renderHandles)
    BY <1>2, <1>4
  <2> QED BY <1>1, <1>4, <2>1 DEF MarkerAt
<1> QED BY <1>3, <1>4

\* The markers of a new fragment go before those of the one at position p, whether or
\* not its handle is going to be added there.
LEMMA SpansFollow ==
  ASSUME ViewInv, NEW p \in 0..Len(renderHandles), NEW x \in Items \cup {Blank},
         InsertSpans(p, x),
         \/ renderHandles' = renderHandles /\ x = Blank
         \/ renderHandles' = InsertAt(renderHandles, p + 1, fragments')
  PROVE  /\ fragments' = fragments + 1 /\ fragments' \in Nat
         /\ dom' = InsertBefore(dom, fragments', Marked(renderHandles)[p + 1])
         /\ renderHandles' \in Seq(1..fragments') /\ IsInjective(renderHandles')
         /\ shown' \in [1..fragments' -> Items \cup {Blank}]
         /\ shown'[fragments'] = x /\ \A f \in 1..fragments : shown'[f] = shown[f]
         /\ dom' \in Seq(0..fragments')
         /\ Follows(dom', renderHandles', shown')
<1> DEFINE n == fragments + 1
           h == renderHandles
           m == Marked(h)
           i == p + 1
<1>1. /\ fragments \in Nat /\ n \in Nat /\ fragments' = n
      /\ h \in Seq(1..fragments) /\ h \in Seq(1..n) /\ h \in Seq(0..n) /\ dom \in Seq(0..n)
      /\ IsInjective(h) /\ Follows(dom, h, shown)
      /\ n \in 1..n /\ n \in 0..n /\ EndMarker \in 0..n /\ n # EndMarker
  <2>1. /\ fragments \in Nat /\ n \in Nat /\ fragments' = n
        /\ n \in 1..n /\ n \in 0..n /\ EndMarker \in 0..n /\ n # EndMarker
    BY DEF ViewInv, InsertSpans, NextFragment, EndMarker
  <2>2. h \in Seq(1..fragments) /\ dom \in Seq(0..fragments)
        /\ IsInjective(h) /\ Follows(dom, h, shown)
    BY DEF ViewInv
  <2>3. h \in Seq(1..n) /\ h \in Seq(0..n)
    BY <2>1, <2>2
  <2>4. dom \in Seq(0..n)
    BY <2>1, <2>2
  <2> QED BY <2>1, <2>2, <2>3, <2>4
<1>2. /\ \A j \in 1..Len(h) : h[j] \in 1..fragments /\ h[j] # n
      /\ \A a \in 1..Len(dom) : dom[a] \in 0..fragments /\ dom[a] # n
  <2>1. \A j \in 1..Len(h) : h[j] \in 1..fragments
    BY <1>1
  <2>2. \A a \in 1..Len(dom) : dom[a] \in 0..fragments
    BY DEF ViewInv
  <2>3. \A f \in 0..fragments : f # n
    BY <1>1
  <2>4. 1..fragments \subseteq 0..fragments
    BY <1>1
  <2> HIDE DEF n, h
  <2> QED BY ONLY <2>1, <2>2, <2>3, <2>4
<1>3. i \in 1..(Len(h) + 1) /\ Len(h) \in Nat
  BY <1>1
<1>4. /\ m \in Seq(0..n) /\ Len(m) = Len(h) + 1
      /\ \A j \in 1..Len(h) : m[j] = h[j]
      /\ m[Len(h) + 1] = EndMarker
  BY <1>1, MarkedFacts
<1>5. dom' = InsertBefore(dom, n, m[i])
  BY <1>1, MarkerFacts DEF InsertSpans
<1>6. /\ shown' \in [1..n -> Items \cup {Blank}] /\ shown'[n] = x
      /\ \A f \in 1..fragments : shown'[f] = shown[f]
  <2>1. shown' = [f \in 1..n |-> IF f = n THEN x ELSE shown[f]]
    BY <1>1 DEF InsertSpans
  <2>2. \A f \in 1..n : f # n => f \in 1..fragments
    BY <1>1
  <2>3. \A f \in 1..fragments : f \in 1..n /\ f # n
    BY <1>1
  <2> QED BY <1>1, <2>1, <2>2, <2>3 DEF ViewInv
<1>7. Mirrors(dom, m) /\ Leftovers(dom, h, shown) /\ dom[Len(dom)] = EndMarker
  BY <1>1 DEF Follows
<1>8. InsertAt(m, i, n) = Marked(InsertAt(h, i, n))
  <2> DEFINE R == 0..n
  <2>1. h \in Seq(R) /\ EndMarker \in R /\ i \in 1..(Len(h) + 1) /\ n \in R
    BY <1>1, <1>3
  <2> HIDE DEF R, n, i, h
  <2>2. InsertAt(Append(h, EndMarker), i, n) = Append(InsertAt(h, i, n), EndMarker)
    BY ONLY <2>1, InsertAtAppend
  <2> QED BY <2>2 DEF Marked
<1>9. /\ InsertAt(h, i, n) \in Seq(1..n) /\ IsInjective(InsertAt(h, i, n))
      /\ Len(InsertAt(h, i, n)) = Len(h) + 1
      /\ \A j \in 1..(Len(h) + 1) :
           InsertAt(h, i, n)[j] = IF j < i THEN h[j] ELSE IF j = i THEN n ELSE h[j - 1]
  <2> DEFINE R == 1..n
  <2> HIDE DEF h, i, n
  <2>1. h \in Seq(R) /\ n \in R /\ i \in 1..(Len(h) + 1)
    BY <1>1, <1>3
  <2> HIDE DEF R
  <2>2. InsertAt(h, i, n) \in Seq(R) /\ Len(InsertAt(h, i, n)) = Len(h) + 1
    BY ONLY <2>1, InsertAtFacts
  <2>3. \A j \in 1..(Len(h) + 1) :
          InsertAt(h, i, n)[j] = IF j < i THEN h[j] ELSE IF j = i THEN n ELSE h[j - 1]
    BY ONLY <2>1, InsertAtFacts
  <2>4. IsInjective(InsertAt(h, i, n))
    BY ONLY <1>1, <1>2, <2>1, InsertInjective
  <2> QED BY <2>2, <2>3, <2>4 DEF R
<1>10. (h' = h /\ x = Blank) \/ h' = InsertAt(h, i, n)
  BY <1>1
<1> HIDE DEF n, h, m, i
<1>11. /\ dom' \in Seq(0..n) /\ Len(dom') = Len(dom) + 1 /\ Len(dom) >= 1
       /\ dom'[Len(dom')] = dom[Len(dom)]
       /\ \A a \in 1..Len(dom') : dom'[a] = n \/ \E b \in 1..Len(dom) : dom'[a] = dom[b]
       /\ Mirrors(dom', m) /\ Mirrors(dom', InsertAt(m, i, n))
  <2> DEFINE R == 0..n
  <2>1. /\ i \in 1..Len(m) /\ m \in Seq(R) /\ dom \in Seq(R) /\ n \in R
        /\ Mirrors(dom, m) /\ \A a \in 1..Len(dom) : dom[a] # n
    BY <1>1, <1>2, <1>3, <1>4, <1>7
  <2> HIDE DEF R
  <2>2. InsertionMirrors(R, dom, m, n, InsertBefore(dom, n, m[i]), InsertAt(m, i, n))
    BY ONLY <2>1, InsertMirrors
  <2> QED BY <1>5, <2>2 DEF R, InsertionMirrors
<1>12. Mirrors(dom', Marked(h')) /\ h' \in Seq(1..n) /\ IsInjective(h')
  BY <1>1, <1>8, <1>9, <1>10, <1>11 DEF m
<1>13. /\ \A j \in 1..Len(h) : \E k \in 1..Len(h') : h'[k] = h[j]
       /\ (\E k \in 1..Len(h') : h'[k] = n) \/ shown'[n] = Blank
  <2>1. CASE h' = h /\ x = Blank
    BY <2>1, <1>6
  <2>2. CASE h' = InsertAt(h, i, n)
    <3>1. /\ i \in 1..Len(h') /\ h'[i] = n
          /\ \A j \in 1..Len(h) : /\ j < i => j \in 1..Len(h') /\ h'[j] = h[j]
                                  /\ j >= i => j + 1 \in 1..Len(h') /\ h'[j + 1] = h[j]
      BY <1>3, <1>9, <2>2
    <3> QED BY <3>1, <1>3
  <2> QED BY <1>10, <2>1, <2>2
<1>14. Leftovers(dom', h', shown')
  <2>1. SUFFICES ASSUME NEW a \in 1..Len(dom')
                 PROVE  \/ dom'[a] = EndMarker
                        \/ \E k \in 1..Len(h') : h'[k] = dom'[a]
                        \/ shown'[dom'[a]] = Blank
    BY DEF Leftovers
  <2>2. CASE dom'[a] = n
    BY <2>2, <1>13
  <2>3. ASSUME NEW b \in 1..Len(dom), dom'[a] = dom[b]
        PROVE  \/ dom'[a] = EndMarker
               \/ \E k \in 1..Len(h') : h'[k] = dom'[a]
               \/ shown'[dom'[a]] = Blank
    <3>1. \/ dom[b] = EndMarker
          \/ \E j \in 1..Len(h) : h[j] = dom[b]
          \/ shown[dom[b]] = Blank
      BY <1>7 DEF Leftovers
    <3>2. dom[b] = EndMarker \/ dom[b] \in 1..fragments
      BY <1>1, <1>2 DEF EndMarker
    <3> QED BY <3>1, <3>2, <2>3, <1>6, <1>13
  <2> QED BY <1>11, <2>2, <2>3
<1>15. Follows(dom', h', shown')
  <2>1. Len(dom') >= 1
    BY <1>1, <1>11
  <2> QED BY <1>7, <1>11, <1>12, <1>14, <2>1 DEF Follows
<1> QED BY <1>1, <1>5, <1>6, <1>11, <1>12, <1>15 DEF n, h, m, i

LEMMA InsertItemKeeps ==
  ASSUME ViewInv, NEW p \in 0..Len(renderHandles), NEW x \in Items, InsertItem(p, x)
  PROVE  ViewInv'
<1>1. InsertSpans(p, x) /\ renderHandles' = InsertAt(renderHandles, p + 1, fragments')
  BY DEF InsertItem
<1>2. /\ fragments' = fragments + 1 /\ fragments' \in Nat
      /\ dom' = InsertBefore(dom, fragments', Marked(renderHandles)[p + 1])
      /\ renderHandles' \in Seq(1..fragments') /\ IsInjective(renderHandles')
      /\ shown' \in [1..fragments' -> Items \cup {Blank}]
      /\ shown'[fragments'] = x /\ \A f \in 1..fragments : shown'[f] = shown[f]
      /\ dom' \in Seq(0..fragments')
      /\ Follows(dom', renderHandles', shown')
  BY <1>1, SpansFollow
<1>3. ASSUME Exact
      PROVE  Exact'
  <2> DEFINE n == fragments + 1
  <2>1. /\ fragments \in Nat /\ n \in Nat /\ n \in 1..n
        /\ renderHandles \in Seq(1..n) /\ IsInjective(renderHandles)
        /\ p + 1 \in 1..(Len(renderHandles) + 1)
    BY DEF ViewInv
  <2>2. dom' = InsertBefore(Marked(renderHandles), n, Marked(renderHandles)[p + 1])
    BY <1>2, <1>3 DEF Exact
  <2>3. fragments' = n
    BY <1>2
  <2> HIDE DEF n
  <2>4. dom' = Marked(renderHandles')
    BY <1>1, <2>1, <2>2, <2>3, InsertMarked
  <2>5. \A f \in 1..n : f = n \/ f \in 1..fragments
    BY <2>1 DEF n
  <2>6. shown' \in [1..n -> Items]
    BY <1>2, <1>3, <2>3, <2>5 DEF Exact
  <2> QED BY <2>3, <2>4, <2>6 DEF Exact
<1> QED BY <1>2, <1>3 DEF ViewInv

\* The markers that are left when itemRenderer throws.
LEMMA InsertFailsKeeps ==
  ASSUME ViewInv, Unrenderable # {}, NEW p \in 0..Len(renderHandles), InsertFails(p)
  PROVE  ViewInv'
<1>1. InsertSpans(p, Blank) /\ renderHandles' = renderHandles
  BY DEF InsertFails
<1> QED BY <1>1, SpansFollow DEF ViewInv

LEMMA DeleteItemKeeps ==
  ASSUME ViewInv, NEW p \in 0..(Len(renderHandles) - 1), DeleteItem(p)
  PROVE  ViewInv'
<1> DEFINE h == renderHandles
           n == fragments
           i == p + 1
           m == Marked(h)
<1>1. /\ n \in Nat /\ h \in Seq(1..n) /\ h \in Seq(0..n) /\ dom \in Seq(0..n)
      /\ IsInjective(h) /\ EndMarker \in 0..n
      /\ Mirrors(dom, m) /\ Leftovers(dom, h, shown) /\ dom[Len(dom)] = EndMarker
  BY DEF ViewInv, Follows, EndMarker
<1>2. i \in 1..Len(h) /\ Len(h) \in Nat /\ h[i] # EndMarker
  BY <1>1 DEF EndMarker
<1>3. /\ h' = RemoveAt(h, i) /\ dom' = Without(dom, h[i])
      /\ UNCHANGED <<fragments, shown>>
  BY DEF DeleteItem
<1>4. m \in Seq(0..n) /\ Len(m) = Len(h) + 1 /\ m[i] = h[i]
  BY <1>1, <1>2, MarkedFacts
<1>5. Unrenderable = {} => Exact'
  <2>1. SUFFICES ASSUME Exact PROVE Exact'
    BY DEF ViewInv
  <2>2. dom' = Marked(h')
    BY <1>1, <1>2, <1>3, <2>1, RemoveMarked DEF Exact
  <2> QED BY <1>3, <2>1, <2>2 DEF Exact
<1>6. RemoveAt(m, i) = Marked(h')
  <2> DEFINE R == 0..n
  <2>1. h \in Seq(R) /\ EndMarker \in R /\ i \in 1..Len(h)
    BY <1>1, <1>2
  <2> HIDE DEF R, i, h
  <2>2. RemoveAt(Append(h, EndMarker), i) = Append(RemoveAt(h, i), EndMarker)
    BY ONLY <2>1, RemoveAtAppend
  <2> QED BY <1>3, <2>2 DEF Marked
<1>7. Removed(1..n, h, h[i], h')
  <2> DEFINE R == 1..n
  <2>1. h \in Seq(R) /\ IsInjective(h) /\ i \in 1..Len(h)
    BY <1>1, <1>2
  <2> HIDE DEF R, i, h
  <2>2. Removed(R, h, h[i], RemoveAt(h, i))
    BY ONLY <2>1, RemoveElement
  <2> QED BY <1>3, <2>2 DEF R
<1> HIDE DEF h, n, i, m
<1>8. /\ dom' \in Seq(0..n) /\ Len(dom') >= 1 /\ dom'[Len(dom')] = EndMarker
      /\ \A a \in 1..Len(dom') : dom'[a] # h[i] /\ \E b \in 1..Len(dom) : dom'[a] = dom[b]
      /\ Mirrors(dom', Marked(h'))
  <2> DEFINE R == 0..n
  <2>1. /\ i \in 1..Len(m) /\ m \in Seq(R) /\ dom \in Seq(R) /\ Mirrors(dom, m)
        /\ dom[Len(dom)] # m[i] /\ dom' = Without(dom, m[i])
    <3>1. i \in 1..Len(m)
      BY ONLY <1>2, <1>4
    <3> QED BY ONLY <3>1, <1>1, <1>2, <1>3, <1>4
  <2> HIDE DEF R
  <2>2. RemovalMirrors(R, dom, m[i], Without(dom, m[i]), RemoveAt(m, i))
    BY ONLY <2>1, RemoveMirrors
  <2> QED BY <1>1, <1>4, <1>6, <2>1, <2>2 DEF R, RemovalMirrors
<1>9. /\ h' \in Seq(1..n) /\ IsInjective(h')
      /\ \A j \in 1..Len(h) : h[j] = h[i] \/ \E k \in 1..Len(h') : h'[k] = h[j]
  BY <1>7 DEF Removed
<1>10. Leftovers(dom', h', shown)
  <2>1. ASSUME NEW a \in 1..Len(dom')
        PROVE  \/ dom'[a] = EndMarker
               \/ \E k \in 1..Len(h') : h'[k] = dom'[a]
               \/ shown[dom'[a]] = Blank
    <3>1. PICK c \in 1..Len(dom) : dom'[a] = dom[c] /\ dom[c] # h[i]
      BY <1>8
    <3>2. \/ dom[c] = EndMarker
          \/ \E j \in 1..Len(h) : h[j] = dom[c]
          \/ shown[dom[c]] = Blank
      BY <1>1 DEF Leftovers
    <3> QED BY <3>1, <3>2, <1>9
  <2> QED BY <2>1 DEF Leftovers
<1> QED BY <1>3, <1>5, <1>8, <1>9, <1>10 DEF ViewInv, Follows, h, n

LEMMA ChangeItemKeeps ==
  ASSUME ViewInv, NEW p \in 0..(Len(renderHandles) - 1), NEW x \in Items,
         ChangeItem(p, x)
  PROVE  ViewInv'
<1> DEFINE f == renderHandles[p + 1]
           y == IF shown[f] = Blank \/ x \in Unrenderable THEN Blank ELSE x
<1>1. p + 1 \in 1..Len(renderHandles) /\ f \in 1..fragments
  BY DEF ViewInv
<1>2. shown' = [shown EXCEPT ![f] = y] /\ UNCHANGED <<renderHandles, fragments, dom>>
  BY DEF ChangeItem
<1>3. y \in Items \cup {Blank} /\ (Unrenderable = {} /\ Exact => y \in Items)
  BY <1>1, RenderEachAssumption DEF Exact
<1>4. \E i \in 1..Len(renderHandles) : renderHandles[i] = f
  BY <1>1
<1> HIDE DEF f, y
<1>5. /\ shown' \in [1..fragments -> Items \cup {Blank}]
      /\ \A g \in 1..fragments : g # f => shown'[g] = shown[g]
  BY <1>1, <1>2, <1>3 DEF ViewInv
<1>6. Leftovers(dom, renderHandles, shown')
  <2>1. \A a \in 1..Len(dom) : dom[a] = EndMarker \/ dom[a] \in 1..fragments
    BY DEF ViewInv, EndMarker
  <2>2. Leftovers(dom, renderHandles, shown)
    BY DEF ViewInv, Follows
  <2> QED BY <1>4, <1>5, <2>1, <2>2 DEF Leftovers
<1>7. Unrenderable = {} => Exact'
  <2>1. SUFFICES ASSUME Unrenderable = {}, Exact PROVE Exact'
    BY DEF ViewInv
  <2>2. shown' \in [1..fragments -> Items]
    BY <1>1, <1>2, <1>3, <2>1 DEF Exact
  <2> QED BY <1>2, <2>1, <2>2 DEF Exact
<1> QED BY <1>2, <1>5, <1>6, <1>7 DEF ViewInv, Follows

LEMMA MoveItemKeeps ==
  ASSUME ViewInv, NEW p \in 0..(Len(renderHandles) - 1),
         NEW q \in 0..(Len(renderHandles) - 1), p # q, MoveItem(p, q)
  PROVE  ViewInv'
<1> DEFINE h == renderHandles
           n == fragments
           a == p + 1
           b == q + 1
           f == h[a]
           v == RemoveAt(h, a)
           d == Without(dom, f)
           target == IF a > b THEN h[b]
                     ELSE IF b = Len(h) THEN EndMarker ELSE h[b + 1]
<1>1. /\ n \in Nat /\ h \in Seq(1..n) /\ h \in Seq(0..n) /\ dom \in Seq(0..n)
      /\ IsInjective(h) /\ EndMarker \in 0..n
      /\ Mirrors(dom, Marked(h)) /\ Leftovers(dom, h, shown) /\ dom[Len(dom)] = EndMarker
  BY DEF ViewInv, Follows, EndMarker
<1>0. \A c \in 1..Len(dom) : \/ dom[c] = EndMarker
                            \/ \E j \in 1..Len(h) : h[j] = dom[c]
                            \/ shown[dom[c]] = Blank
  BY <1>1 DEF Leftovers
<1>2. /\ a \in 1..Len(h) /\ b \in 1..Len(h) /\ a # b /\ Len(h) \in Nat
      /\ p \in Nat /\ q \in Nat /\ a \in Nat /\ b \in Nat
      /\ f \in 1..n /\ f \in 0..n /\ f # EndMarker
  <2>1. /\ a \in 1..Len(h) /\ b \in 1..Len(h) /\ a # b /\ Len(h) \in Nat
        /\ p \in Nat /\ q \in Nat /\ a \in Nat /\ b \in Nat
    BY <1>1
  <2>2. f \in 1..n
    <3> DEFINE R == 1..n
    <3>1. h \in Seq(R) /\ a \in 1..Len(h)
      BY <1>1, <2>1
    <3>2. h[a] \in R
      <4> HIDE DEF R, h, a
      <4> QED BY ONLY <3>1
    <3> QED BY <3>2
  <2>3. \A x \in 1..n : x \in 0..n /\ x # EndMarker
    BY <1>1 DEF EndMarker
  <2> QED BY <2>1, <2>2, <2>3
<1>3. Target(p, q) = target
  <2>1. CASE p > q
    BY <1>2, <2>1 DEF Target, MarkerAt
  <2>2. CASE ~(p > q)
    BY <1>2, <2>2 DEF Target, MarkerAt
  <2> QED BY <2>1, <2>2
<1>4. dom' = InsertBefore(d, f, target)
  BY <1>1, <1>3 DEF MoveItem
<1>5. h' = InsertAt(v, b, f)
  <2>1. CASE p > q
    <3>1. b < a /\ a + 1 = p + 2
      BY <1>2, <2>1
    <3>2. h' = RemoveAt(InsertAt(h, b, h[a]), a + 1)
      BY <2>1, <3>1 DEF MoveItem
    <3> HIDE DEF a, b, h
    <3> QED BY <3>1, <3>2, <1>1, <1>2, MoveDown
  <2>2. CASE ~(p > q)
    <3>1. a < b /\ b + 1 = q + 2
      BY <1>2, <2>2
    <3>2. h' = RemoveAt(InsertAt(h, b + 1, h[a]), a)
      BY <2>2, <3>1 DEF MoveItem
    <3> HIDE DEF a, b, h
    <3> QED BY <3>1, <3>2, <1>1, <1>2, MoveUp
  <2> QED BY <2>1, <2>2
<1>6. UNCHANGED <<fragments, shown>>
  BY DEF MoveItem
<1>7. target = IF a > b THEN h[b] ELSE IF b = Len(h) THEN EndMarker ELSE h[b + 1]
  OBVIOUS
<1> HIDE DEF a, b, target
<1>8. Unrenderable = {} => Exact'
  <2>1. SUFFICES ASSUME Exact PROVE Exact'
    BY DEF ViewInv
  <2>2. dom' = InsertBefore(Without(Marked(h), h[a]), h[a], target)
    BY <1>4, <2>1 DEF Exact
  <2> HIDE DEF h, n
  <2>0. /\ n \in Nat /\ h \in Seq(1..n) /\ IsInjective(h)
        /\ a \in 1..Len(h) /\ b \in 1..Len(h) /\ a # b
    BY <1>1, <1>2
  <2>3. InsertBefore(Without(Marked(h), h[a]), h[a], target)
          = Marked(InsertAt(RemoveAt(h, a), b, h[a]))
    BY ONLY <2>0, <1>7, MoveMarked, SMTT(30)
  <2>4. dom' = Marked(h')
    BY <1>5, <2>2, <2>3
  <2> QED BY <1>6, <2>1, <2>4 DEF Exact, h
<1>9. /\ v \in Seq(1..n) /\ v \in Seq(0..n) /\ Len(v) = Len(h) - 1
      /\ \A j \in 1..(Len(h) - 1) : v[j] = IF j < a THEN h[j] ELSE h[j + 1]
  BY <1>1, <1>2, RemoveAtFacts
<1>10. IsInjective(v) /\ \A j \in 1..(Len(h) - 1) : v[j] # f
  BY <1>1, <1>2, RemoveInjective
<1>11. RemoveAt(Marked(h), a) = Marked(v) /\ Removed(1..n, h, f, v)
  <2>1. RemoveAt(Marked(h), a) = Marked(v)
    BY <1>1, <1>2, RemoveAtAppend DEF Marked
  <2>2. Removed(1..n, h, f, v)
    <3> DEFINE R == 1..n
    <3>1. h \in Seq(R) /\ IsInjective(h) /\ a \in 1..Len(h)
      BY <1>1, <1>2
    <3> HIDE DEF R, h
    <3> QED BY ONLY <3>1, RemoveElement DEF R
  <2> QED BY <2>1, <2>2
<1>12. Marked(h) \in Seq(0..n) /\ Len(Marked(h)) = Len(h) + 1 /\ Marked(h)[a] = f
  BY <1>1, <1>2, MarkedFacts
<1> HIDE DEF h, n, f
\* It is taken out ...
<1>13. /\ d \in Seq(0..n) /\ Len(d) >= 1 /\ d[Len(d)] = EndMarker
       /\ \A i \in 1..Len(d) : d[i] # f /\ \E j \in 1..Len(dom) : d[i] = dom[j]
       /\ Mirrors(d, Marked(v))
  <2> DEFINE R == 0..n
             m == Marked(h)
  <2>1. /\ a \in 1..Len(m) /\ m \in Seq(R) /\ dom \in Seq(R) /\ Mirrors(dom, m)
        /\ dom[Len(dom)] # m[a] /\ d = Without(dom, m[a])
    BY <1>1, <1>2, <1>12
  <2> HIDE DEF d, R, m
  <2>2. RemovalMirrors(R, dom, m[a], Without(dom, m[a]), RemoveAt(m, a))
    BY ONLY <2>1, RemoveMirrors
  <2> QED BY <1>1, <1>11, <1>12, <2>1, <2>2 DEF R, m, RemovalMirrors
<1>14. v \in Seq(1..n) /\ IsInjective(v) /\ b \in 1..(Len(v) + 1) /\ Len(v) \in Nat
  BY <1>2, <1>9, <1>10
<1> HIDE DEF d, v
<1>15. /\ Marked(v) \in Seq(0..n) /\ Len(Marked(v)) = Len(v) + 1
       /\ \A j \in 1..Len(v) : Marked(v)[j] = v[j]
       /\ Marked(v)[Len(v) + 1] = EndMarker
  BY <1>1, <1>14, MarkedFacts
<1>16. target = Marked(v)[b]
  <2>1. CASE a > b
    <3>1. b \in 1..(Len(h) - 1) /\ b < a
      BY <2>1, <1>2
    <3> QED BY <3>1, <2>1, <1>7, <1>9, <1>15
  <2>2. CASE ~(a > b) /\ b = Len(h)
    <3>1. b = Len(v) + 1
      BY <2>2, <1>2, <1>9
    <3> QED BY <3>1, <2>2, <1>7, <1>15
  <2>3. CASE ~(a > b) /\ b # Len(h)
    <3>1. b \in 1..(Len(h) - 1) /\ ~(b < a)
      BY <2>3, <1>2
    <3> QED BY <3>1, <2>3, <1>7, <1>9, <1>15
  <2> QED BY <2>1, <2>2, <2>3
\* ... and put in before the target.
<1>17. InsertAt(Marked(v), b, f) = Marked(h')
  <2> DEFINE R == 0..n
  <2>1. v \in Seq(R) /\ EndMarker \in R /\ b \in 1..(Len(v) + 1) /\ f \in R
    BY <1>1, <1>2, <1>9, <1>14
  <2> HIDE DEF R
  <2>2. InsertAt(Append(v, EndMarker), b, f) = Append(InsertAt(v, b, f), EndMarker)
    BY ONLY <2>1, InsertAtAppend
  <2> QED BY <1>5, <2>2 DEF Marked
<1>18. Inserted(1..n, v, f, h')
  <2> DEFINE R == 1..n
  <2>1. /\ v \in Seq(R) /\ IsInjective(v) /\ b \in 1..(Len(v) + 1) /\ f \in R
        /\ \A j \in 1..Len(v) : v[j] # f
    BY <1>2, <1>9, <1>10, <1>14
  <2> HIDE DEF R
  <2>2. Inserted(R, v, f, InsertAt(v, b, f))
    BY ONLY <2>1, InsertElement
  <2> QED BY <1>5, <2>2 DEF R
<1>19. /\ dom' \in Seq(0..n) /\ Len(dom') >= 1 /\ dom'[Len(dom')] = EndMarker
       /\ \A i \in 1..Len(dom') : dom'[i] = f \/ \E j \in 1..Len(d) : dom'[i] = d[j]
       /\ Mirrors(dom', Marked(h'))
  <2> DEFINE R == 0..n
             m == Marked(v)
  <2>1. /\ b \in 1..Len(m) /\ m \in Seq(R) /\ d \in Seq(R) /\ f \in R /\ Mirrors(d, m)
        /\ dom' = InsertBefore(d, f, m[b])
    BY <1>2, <1>4, <1>13, <1>14, <1>15, <1>16
  <2>2. \A i \in 1..Len(d) : d[i] # f
    BY <1>13
  <2> HIDE DEF R, m
  <2>3. InsertionMirrors(R, d, m, f, InsertBefore(d, f, m[b]), InsertAt(m, b, f))
    BY ONLY <2>1, <2>2, InsertMirrors
  <2>4. Len(dom') = Len(d) + 1 /\ Len(d) \in Nat
    BY <1>13, <2>1, <2>3 DEF InsertionMirrors
  <2>5. Len(dom') >= 1
    BY <1>13, <2>4
  <2> QED BY <1>13, <1>17, <2>1, <2>3, <2>5 DEF R, m, InsertionMirrors
<1>20. \A j \in 1..Len(h) : \E k \in 1..Len(h') : h'[k] = h[j]
  <2>1. \A j \in 1..Len(h) : h[j] = f \/ \E i \in 1..Len(v) : v[i] = h[j]
    BY <1>11 DEF Removed
  <2> QED BY <2>1, <1>18 DEF Inserted
<1>21. Leftovers(dom', h', shown)
  <2>1. \E k \in 1..Len(h') : h'[k] = f
    BY <1>18 DEF Inserted
  <2>2. \A c \in 1..Len(dom) : \/ dom[c] = EndMarker
                                \/ \E k \in 1..Len(h') : h'[k] = dom[c]
                                \/ shown[dom[c]] = Blank
    BY <1>0, <1>20
  <2>3. ASSUME NEW c \in 1..Len(dom')
        PROVE  dom'[c] = f \/ \E j \in 1..Len(dom) : dom'[c] = dom[j]
    BY <1>13, <1>19
  <2> QED BY <2>1, <2>2, <2>3 DEF Leftovers
<1>22. h' \in Seq(1..n) /\ IsInjective(h')
  BY <1>18 DEF Inserted
<1> QED BY <1>6, <1>8, <1>19, <1>21, <1>22 DEF ViewInv, Follows, h, n

\* The steps that leave the view alone.
LEMMA ViewUnchanged ==
  ASSUME ViewInv, UNCHANGED <<renderHandles, fragments, shown, dom>>
  PROVE  ViewInv'
BY DEF ViewInv, Exact

LEMMA RenderKeeps ==
  ASSUME ViewInv, NEW m \in Modifications, Completes(renderHandles, m), Render(m)
  PROVE  ViewInv'
<1>1. Len(renderHandles) \in Nat
  BY DEF ViewInv
<1>2. CASE m.kind = "Insertion" /\ InsertItem(m.position, m.item)
  <2>1. m.position \in 0..Len(renderHandles) /\ m.item \in Items
    BY <1>1, <1>2, ModificationFields DEF Completes
  <2> QED BY <1>2, <2>1, InsertItemKeeps
<1>3. CASE m.kind = "Change" /\ ChangeItem(m.position, m.item)
  <2>1. m.position \in 0..(Len(renderHandles) - 1) /\ m.item \in Items
    BY <1>1, <1>3, ModificationFields DEF Completes
  <2> QED BY <1>3, <2>1, ChangeItemKeeps
<1>4. CASE m.kind = "Deletion" /\ DeleteItem(m.position)
  <2>1. m.position \in 0..(Len(renderHandles) - 1)
    BY <1>1, <1>4, ModificationFields DEF Completes
  <2> QED BY <1>4, <2>1, DeleteItemKeeps
<1>5. CASE /\ m.kind = "Move" /\ m.oldPosition # m.newPosition
           /\ MoveItem(m.oldPosition, m.newPosition)
  <2>1. /\ m.oldPosition \in 0..(Len(renderHandles) - 1)
        /\ m.newPosition \in 0..(Len(renderHandles) - 1)
    BY <1>1, <1>5, ModificationFields DEF Completes
  <2> QED BY <1>5, <2>1, MoveItemKeeps
<1>6. CASE UNCHANGED <<renderHandles, fragments, shown, dom>>
  BY <1>6, ViewUnchanged
<1> QED BY <1>2, <1>3, <1>4, <1>5, <1>6 DEF Render

(***************************************************************************)
(* The inductive invariant: the types of the list and of the calls, and    *)
(* ViewInv.                                                                *)
(***************************************************************************)
CallTypes ==
  /\ items \in Seq(Items)
  /\ closed \in BOOLEAN
  /\ itemsLock \in Threads \cup {NoThread}
  /\ pc \in [Threads -> {"idle", "apply", "notify"}]
  /\ toAdd \in [Threads -> Seq(Items)]
  /\ modifications \in [Threads -> Seq(Modifications)]
  /\ todo \in [Threads -> Seq(Modifications)]
  /\ calls \in 0..MaxCalls
  /\ rendering \in {"start", "drawn", "failed", "listening", "cleaned"}
  /\ handlesLock \in Threads \cup {NoThread}

ListInv == CallTypes /\ ViewInv

LEMMA ListInvTypes ==
  ASSUME ListInv
  PROVE  TypeOK /\ HandlesMatchDom
<1> DEFINE m == Append(renderHandles, EndMarker)
<1>1. /\ fragments \in Nat /\ dom \in Seq(0..fragments) /\ DOMAIN dom = 1..Len(dom)
      /\ m \in Seq(0..fragments) /\ DOMAIN m = 1..Len(m) /\ Len(m) = Len(renderHandles) + 1
      /\ \A i \in 1..Len(renderHandles) : m[i] = renderHandles[i]
      /\ Len(renderHandles) \in Nat
  BY MarkedFacts DEF ListInv, ViewInv, Marked
<1>2. /\ Mirrors(dom, m) /\ Leftovers(dom, renderHandles, shown)
      /\ Len(dom) >= 1 /\ dom[Len(dom)] = EndMarker
  BY DEF ListInv, ViewInv, Follows, Marked
<1>3. m[Len(m)] = EndMarker
  BY MarkedFacts DEF ListInv, ViewInv, Marked
<1>4. 0..fragments = {EndMarker} \cup 1..fragments
  BY <1>1 DEF EndMarker
<1>5. TypeOK
  BY <1>1, <1>4 DEF ListInv, CallTypes, ViewInv, TypeOK
<1> HIDE DEF m
<1>6. IsInjective(dom) /\ Last(dom) = EndMarker
  BY <1>1, <1>2 DEF Mirrors, IsInjective, Last
<1>7. ASSUME NEW i \in DOMAIN m, NEW j \in DOMAIN m, i < j
      PROVE  Precedes(m[i], m[j])
  <2>1. Before(dom, m[i], m[j])
    BY <1>1, <1>2, <1>7 DEF Mirrors
  <2> QED BY <2>1, <1>1 DEF Before, Precedes
<1>8. ASSUME NEW f \in ToSet(dom) \ ToSet(m)
      PROVE  shown[f] = Blank
  <2>1. PICK a \in 1..Len(dom) : dom[a] = f
    BY <1>1 DEF ToSet
  <2>2. \A i \in 1..Len(m) : m[i] # f
    BY <1>1 DEF ToSet
  <2>3. Len(m) \in 1..Len(m) /\ \A i \in 1..Len(renderHandles) : i \in 1..Len(m)
    BY <1>1
  <2>4. f # EndMarker /\ \A i \in 1..Len(renderHandles) : renderHandles[i] # f
    BY <1>1, <1>3, <2>2, <2>3
  <2> QED BY <1>2, <2>1, <2>4 DEF Leftovers
<1> QED BY <1>5, <1>6, <1>7, <1>8 DEF HandlesMatchDom, m

LEMMA ListInvInit ==
  ASSUME Init
  PROVE  ListInv
<1>1. items \in Seq(Items)
  BY SeqOfTypes DEF Init
<1>2. CallTypes
  <2>1. /\ <<>> \in Seq(Items) /\ <<>> \in Seq(Modifications)
        /\ 0 \in 0..MaxCalls
    BY RenderEachAssumption
  <2> HIDE DEF Modifications
  <2>2. /\ pc \in [Threads -> {"idle", "apply", "notify"}]
        /\ toAdd \in [Threads -> Seq(Items)]
        /\ modifications \in [Threads -> Seq(Modifications)]
        /\ todo \in [Threads -> Seq(Modifications)]
    BY <2>1, Zenon DEF Init
  <2> QED BY <1>1, <2>1, <2>2 DEF Init, CallTypes
<1>3. ViewInv
  <2>1. IsInjective(<<>>)
    BY DEF IsInjective
  <2>2. <<EndMarker>> = Append(<<>>, EndMarker)
    OBVIOUS
  <2>3. <<>> \in Seq(1..0) /\ <<>> \in [1..0 -> Items] /\ <<>> \in [1..0 -> Items \cup {Blank}]
    OBVIOUS
  <2>4. <<EndMarker>> \in Seq(0..0)
    BY DEF EndMarker
  <2>5. Mirrors(<<EndMarker>>, <<EndMarker>>)
    BY DEF Mirrors, Before
  <2>6. Leftovers(<<EndMarker>>, <<>>, <<>>)
    BY DEF Leftovers
  <2>7. Follows(<<EndMarker>>, <<>>, <<>>)
    BY <2>2, <2>5, <2>6 DEF Follows, Marked
  <2> QED BY <2>1, <2>2, <2>3, <2>4, <2>7 DEF Init, ViewInv, Exact, Marked
<1> QED BY <1>2, <1>3 DEF ListInv

LEMMA ModifyTypes ==
  ASSUME CallTypes, NEW t \in Threads,
         NEW ms \in SeqOf(ModificationsAt(0..MaxLength), MaxBatch), Modify(t, ms)
  PROVE  CallTypes'
<1>1. MaxLength \in Nat /\ MaxBatch \in Nat /\ MaxCalls \in Nat
  BY RenderEachAssumption
<1>2. ModificationsAt(0..MaxLength) \subseteq Modifications
  BY <1>1 DEF Modifications, ModificationsAt
<1>3. ms \in Seq(Modifications)
  BY ONLY <1>1, <1>2, ms \in SeqOf(ModificationsAt(0..MaxLength), MaxBatch), SeqOfTypes
<1>4. /\ calls + Len(ms) <= MaxCalls /\ calls' = calls + Len(ms)
      /\ modifications' = [modifications EXCEPT ![t] = ms]
      /\ todo' = [todo EXCEPT ![t] = ms]
      /\ pc' = [pc EXCEPT ![t] = "apply"]
      /\ UNCHANGED <<items, closed, itemsLock, toAdd, rendering, handlesLock>>
  BY DEF Modify, ApplyModifications, listVars, viewVars
<1>5. Len(ms) \in Nat
  BY <1>3
<1>6. calls' \in 0..MaxCalls
  BY <1>1, <1>4, <1>5 DEF CallTypes
<1> QED BY <1>3, <1>4, <1>6 DEF CallTypes

LEMMA ToAddTypes ==
  ASSUME CallTypes, NEW t \in Threads, NEW xs \in SeqOf(Items, 2),
         AddAll(t, xs) \/ RetainOnly(t, xs)
  PROVE  CallTypes'
<1>1. xs \in Seq(Items)
  BY SeqOfTypes
<1>2. calls' \in 0..MaxCalls
  BY RenderEachAssumption, SMTT(30) DEF CallTypes, AddAll, RetainOnly
<1>3. CASE AddAll(t, xs)
  BY <1>1, <1>2, <1>3 DEF CallTypes, AddAll, listVars, viewVars
<1>4. CASE RetainOnly(t, xs)
  BY <1>1, <1>2, <1>4, SMTT(30) DEF CallTypes, RetainOnly, viewVars
<1> QED BY <1>3, <1>4

LEMMA AddNextTypes ==
  ASSUME CallTypes, NEW t \in Threads, AddNext(t)
  PROVE  CallTypes'
<1>1. Len(items) \in Nat /\ Head(toAdd[t]) \in Items /\ Tail(toAdd[t]) \in Seq(Items)
  BY HeadTail DEF CallTypes, AddNext
<1>2. Insertion(Len(items), Head(toAdd[t])) \in Modifications
  BY <1>1 DEF Insertion, Modifications, ModificationsAt
<1>3. <<Insertion(Len(items), Head(toAdd[t]))>> \in Seq(Modifications)
  BY <1>2
<1>4. UNCHANGED <<items, closed, itemsLock, calls, rendering, handlesLock>>
  BY DEF AddNext, listVars, viewVars
<1>5. CASE closed
  <2>1. /\ toAdd' = [toAdd EXCEPT ![t] = <<>>]
        /\ pc' = pc /\ modifications' = modifications /\ todo' = todo
    BY <1>5 DEF AddNext
  <2>2. toAdd' \in [Threads -> Seq(Items)]
    BY <2>1 DEF CallTypes
  <2> QED BY <1>4, <2>1, <2>2 DEF CallTypes
<1>6. CASE ~closed
  BY <1>1, <1>3, <1>4, <1>6, ZenonT(40) DEF CallTypes, AddNext, ApplyModifications
<1> QED BY <1>5, <1>6

LEMMA ApplyTypes ==
  ASSUME CallTypes, NEW t \in Threads, Apply(t)
  PROVE  CallTypes'
<1> DEFINE m == Head(todo[t])
<1>1. m \in Modifications /\ Tail(todo[t]) \in Seq(Modifications)
  BY HeadTail DEF CallTypes, Apply
<1>2. UNCHANGED <<closed, calls, rendering, handlesLock>>
  BY DEF Apply, viewVars
<1>3. items \in Seq(Items)
  BY DEF CallTypes
<1>4. CASE Completes(items, m)
  <2>1. Applied(items, m) \in Seq(Items)
    BY ONLY <1>1, <1>3, <1>4, AppliedTypes
  <2> QED BY <2>1, <1>1, <1>2, <1>4 DEF CallTypes, Apply
<1>5. CASE ~Completes(items, m)
  <2>1. AfterFailure(items, m) \in Seq(Items)
    BY ONLY <1>1, <1>3, AfterFailureTypes
  <2>2. /\ items' = AfterFailure(items, m)
        /\ itemsLock' = NoThread
        /\ todo' = [todo EXCEPT ![t] = <<>>]
        /\ toAdd' = [toAdd EXCEPT ![t] = <<>>]
        /\ pc' = [pc EXCEPT ![t] = "idle"]
        /\ modifications' = [modifications EXCEPT ![t] = <<>>]
    BY <1>5 DEF Apply
  <2> HIDE DEF m, Modifications
  <2>3. todo' \in [Threads -> Seq(Modifications)]
        /\ modifications' \in [Threads -> Seq(Modifications)]
    BY <2>2 DEF CallTypes
  <2>4. toAdd' \in [Threads -> Seq(Items)]
    BY <2>2 DEF CallTypes
  <2>5. pc' \in [Threads -> {"idle", "apply", "notify"}]
    BY <2>2 DEF CallTypes
  <2> QED BY <2>1, <2>2, <2>3, <2>4, <2>5, <1>2 DEF CallTypes
<1> QED BY <1>4, <1>5

\* The listener: what it renders keeps ViewInv, and so does a failure.
LEMMA NotifyKeeps ==
  ASSUME ListInv, NEW t \in Threads, Notify(t)
  PROVE  ListInv'
<1> DEFINE m == Head(todo[t])
           fine == Completes(renderHandles, m) /\ ~RendererThrows(m)
<1>1. m \in Modifications /\ Tail(todo[t]) \in Seq(Modifications)
  BY HeadTail DEF ListInv, CallTypes, Notify
<1>2. UNCHANGED <<items, closed, itemsLock, modifications, calls, rendering>>
  BY DEF Notify, listVars
<1>3. CallTypes /\ ViewInv
  BY DEF ListInv
<1>4. CASE fine
  <2>1. Render(m)
    BY <1>4 DEF Notify
  <2>2. ViewInv'
    BY ONLY <1>1, <1>3, <1>4, <2>1, RenderKeeps
  <2>3. CallTypes'
    BY <1>1, <1>2, <1>3, <1>4 DEF CallTypes, Notify
  <2> QED BY <2>2, <2>3 DEF ListInv
<1>5. CASE ~fine
  <2>1. ViewInv'
    <3>1. RenderFails(m)
      BY <1>5 DEF Notify
    <3>2. CASE Completes(renderHandles, m)
      <4>1. m.kind = "Insertion" /\ Unrenderable # {} /\ InsertFails(m.position)
        <5>1. RendererThrows(m)
          BY <1>5, <3>2
        <5>2. InsertFails(m.position)
          BY <3>1, <3>2 DEF RenderFails
        <5> QED BY <5>1, <5>2 DEF RendererThrows
      <4>2. m.position \in 0..Len(renderHandles)
        <5>1. m.position \in Nat /\ m.position <= Len(renderHandles)
          BY <1>1, <3>2, <4>1, ModificationFields DEF Completes
        <5>2. Len(renderHandles) \in Nat
          BY <1>3 DEF ViewInv
        <5> QED BY <5>1, <5>2
      <4> QED BY ONLY <1>3, <4>1, <4>2, InsertFailsKeeps
    <3>3. CASE ~Completes(renderHandles, m)
      BY <1>3, <3>1, <3>3, ViewUnchanged DEF RenderFails
    <3> QED BY <3>2, <3>3
  <2>2. CallTypes'
    <3>1. /\ handlesLock' = NoThread
          /\ todo' = [todo EXCEPT ![t] = <<>>]
          /\ toAdd' = [toAdd EXCEPT ![t] = <<>>]
          /\ pc' = [pc EXCEPT ![t] = "idle"]
      BY <1>5 DEF Notify
    <3> HIDE DEF m, fine, Modifications
    <3>2. todo' \in [Threads -> Seq(Modifications)]
      BY <3>1, <1>3 DEF CallTypes
    <3>3. toAdd' \in [Threads -> Seq(Items)]
      BY <3>1, <1>3 DEF CallTypes
    <3>4. pc' \in [Threads -> {"idle", "apply", "notify"}]
      BY <3>1, <1>3 DEF CallTypes
    <3> QED BY <3>1, <3>2, <3>3, <3>4, <1>2, <1>3 DEF CallTypes
  <2> QED BY <2>1, <2>2 DEF ListInv
<1> QED BY <1>4, <1>5

\* renderEach draws the items of the list under the markers 1, 2, ..., all of them or
\* up to the first on which itemRenderer throws.
LEMMA RenderItemsKeeps ==
  ASSUME ListInv, RenderItems
  PROVE  ListInv'
<1>1. items \in Seq(Items) /\ Len(items) \in Nat
  BY DEF ListInv, CallTypes
<1>2. PICK n \in 0..Len(items) :
        /\ \/ n = Len(items) /\ fragments' = n /\ rendering' = "drawn"
           \/ n < Len(items) /\ items[n + 1] \in Unrenderable /\ fragments' = n + 1
                /\ rendering' = "failed"
        /\ renderHandles' = [f \in 1..n |-> f]
        /\ shown' = [f \in 1..fragments' |-> IF f <= n THEN items[f] ELSE Blank]
  BY DEF RenderItems
<1> DEFINE k == fragments'
           h == [f \in 1..n |-> f]
           c == [f \in 1..k |-> f]
           d == Append(c, EndMarker)
           g == shown'
<1>3. n \in Nat /\ k \in Nat /\ (k = n \/ k = n + 1)
  BY <1>1, <1>2
<1>4. /\ h \in Seq(1..k) /\ Len(h) = n /\ IsInjective(h)
      /\ \A i \in 1..n : h[i] = i
  BY <1>3 DEF IsInjective
<1>5. c \in Seq(1..k) /\ Len(c) = k /\ IsInjective(c) /\ \A i \in 1..k : c[i] = i
  BY <1>3 DEF IsInjective
<1>6. g \in [1..k -> Items \cup {Blank}] /\ \A f \in 1..k : ~(f <= n) => g[f] = Blank
  <2>1. \A f \in 1..k : f <= n => items[f] \in Items
    BY <1>1, <1>2, <1>3
  <2> QED BY <1>2, <2>1
<1>7. dom' = d /\ renderHandles' = h
  BY <1>2 DEF RenderItems
<1> HIDE DEF c, h, k, g
<1>8. /\ d \in Seq(0..k) /\ Len(d) = k + 1 /\ d[k + 1] = EndMarker
      /\ \A i \in 1..k : d[i] = i
  BY ONLY <1>3, <1>5, MarkedFacts DEF Marked
<1>9. /\ Marked(h) \in Seq(0..k) /\ Len(Marked(h)) = n + 1 /\ Marked(h)[n + 1] = EndMarker
      /\ \A i \in 1..n : Marked(h)[i] = i
  BY ONLY <1>3, <1>4, MarkedFacts
<1> DEFINE m == Marked(h)
<1> HIDE DEF d, m
<1>10. \A i \in 1..(k + 1) : (i \in 1..k /\ d[i] = i) \/ (i = k + 1 /\ d[i] = EndMarker)
  BY <1>3, <1>8
<1>11. \A i \in 1..(n + 1) : (i \in 1..n /\ m[i] = i) \/ (i = n + 1 /\ m[i] = EndMarker)
  BY <1>3, <1>9 DEF m
<1>12. Mirrors(d, m)
  <2>1. Len(d) = k + 1 /\ Len(m) = n + 1 /\ k + 1 \in 1..(k + 1)
        /\ \A i \in 1..n : i \in 1..k /\ i \in 1..(k + 1) /\ i < k + 1
    BY <1>3, <1>8, <1>9 DEF m
  <2>2. \A i, j \in 1..(k + 1) : d[i] = d[j] => i = j
    BY <1>3, <1>10 DEF EndMarker
  <2>3. \A i \in 1..(n + 1) : \E a \in 1..(k + 1) : d[a] = m[i]
    BY <1>8, <1>11, <2>1
  <2>4. ASSUME NEW i \in 1..(n + 1), NEW j \in 1..(n + 1), i < j
        PROVE  Before(d, m[i], m[j])
    <3>1. i \in 1..n /\ m[i] = i
      BY <1>3, <1>11, <2>4
    <3>2. d[i] = m[i] /\ i \in 1..Len(d)
      BY <1>8, <2>1, <3>1
    <3>3. CASE j = n + 1
      BY <1>8, <1>11, <2>1, <3>1, <3>2, <3>3 DEF Before
    <3>4. CASE j \in 1..n
      <4>1. d[j] = m[j] /\ j \in 1..Len(d)
        BY <1>3, <1>8, <1>11, <2>1, <3>4
      <4> QED BY <2>4, <3>2, <4>1 DEF Before
    <3> QED BY <1>3, <3>3, <3>4
  <2> QED BY ONLY <2>1, <2>2, <2>3, <2>4 DEF Mirrors
<1>13. Leftovers(d, h, g)
  <2>1. ASSUME NEW a \in 1..(k + 1)
        PROVE  d[a] = EndMarker \/ (\E i \in 1..n : h[i] = d[a]) \/ g[d[a]] = Blank
    BY <1>3, <1>4, <1>6, <1>10
  <2> QED BY ONLY <1>4, <1>8, <2>1 DEF Leftovers
<1>14. Follows(d, h, g)
  BY <1>3, <1>8, <1>12, <1>13 DEF Follows, m
<1>15. Unrenderable = {} => Exact'
  <2>1. SUFFICES ASSUME Unrenderable = {} PROVE Exact'
    OBVIOUS
  <2>2. k = n /\ n = Len(items)
    BY <1>2, <2>1 DEF k
  <2>3. d = Marked(h)
    BY <2>2 DEF d, c, h, Marked
  <2>4. g \in [1..k -> Items]
    BY <1>1, <1>2, <2>2 DEF g, k
  <2> QED BY <1>7, <2>3, <2>4 DEF Exact, k, g
<1>16. ViewInv'
  BY <1>3, <1>4, <1>6, <1>7, <1>8, <1>14, <1>15 DEF ViewInv, k, g
<1>17. CallTypes'
  BY <1>2 DEF ListInv, CallTypes, RenderItems, listVars, callVars
<1> QED BY <1>16, <1>17 DEF ListInv

LEMMA ListInvStep ==
  ASSUME ListInv, [Next]_vars
  PROVE  ListInv'
<1> USE DEF ListInv
<1>1. ASSUME NEW t \in Threads, AddNext(t)
      PROVE  ListInv'
  BY <1>1, AddNextTypes, ViewUnchanged DEF AddNext, viewVars
<1>2. ASSUME NEW t \in Threads, Apply(t)
      PROVE  ListInv'
  BY <1>2, ApplyTypes, ViewUnchanged DEF Apply, viewVars
<1>3. ASSUME NEW t \in Threads, Applies(t)
      PROVE  ListInv'
  <2>1. ViewInv'
    BY <1>3, ViewUnchanged DEF Applies, viewVars
  <2>2. CallTypes'
    BY <1>3 DEF CallTypes, Applies, viewVars
  <2> QED BY <2>1, <2>2
<1>4. ASSUME NEW t \in Threads, Notify(t)
      PROVE  ListInv'
  BY <1>4, NotifyKeeps
<1>5. ASSUME NEW t \in Threads, Notified(t)
      PROVE  ListInv'
  <2>1. ViewInv'
    BY <1>5, ViewUnchanged DEF Notified
  <2>2. CallTypes'
    BY <1>5 DEF CallTypes, Notified, listVars, callVars
  <2> QED BY <2>1, <2>2
<1>6. ASSUME NEW t \in Threads, Close(t)
      PROVE  ListInv'
  <2>1. ViewInv'
    BY <1>6, ViewUnchanged DEF Close, viewVars
  <2>2. CallTypes'
    BY <1>6 DEF CallTypes, Close, callVars, viewVars
  <2> QED BY <2>1, <2>2
<1>7. ASSUME NEW t \in Threads,
             NEW ms \in SeqOf(ModificationsAt(0..MaxLength), MaxBatch), Modify(t, ms)
      PROVE  ListInv'
  <2>1. CallTypes'
    BY <1>7, ModifyTypes
  <2>2. UNCHANGED viewVars
    BY <1>7 DEF Modify
  <2> QED BY <2>1, <2>2, ViewUnchanged DEF viewVars
<1>8. ASSUME NEW t \in Threads, NEW xs \in SeqOf(Items, 2),
             AddAll(t, xs) \/ RetainOnly(t, xs)
      PROVE  ListInv'
  <2>1. CallTypes'
    BY <1>8, ToAddTypes
  <2>2. UNCHANGED viewVars
    BY <1>8 DEF AddAll, RetainOnly
  <2> QED BY <2>1, <2>2, ViewUnchanged DEF viewVars
<1>9. CASE RenderItems
  BY <1>9, RenderItemsKeeps
<1>10. CASE AddListener \/ CleanUp
  <2>1. ViewInv'
    BY <1>10, ViewUnchanged DEF AddListener, CleanUp, viewVars
  <2>2. CallTypes'
    BY <1>10 DEF CallTypes, AddListener, CleanUp, listVars, callVars, viewVars
  <2> QED BY <2>1, <2>2
<1>11. CASE UNCHANGED vars
  <2>1. ViewInv'
    BY <1>11, ViewUnchanged DEF vars, viewVars
  <2>2. CallTypes'
    BY <1>11 DEF CallTypes, vars, listVars, callVars, viewVars
  <2> QED BY <2>1, <2>2
<1> HIDE DEF ListInv
<1> QED BY <1>1, <1>2, <1>3, <1>4, <1>5, <1>6, <1>7, <1>8, <1>9, <1>10, <1>11
        DEF Next, Proceed

LEMMA ListInvariant == Spec => []ListInv
<1>1. QED
  BY ListInvInit, ListInvStep, PTL DEF Spec

\* Type correctness, for any items, threads and bounds: positions out of bounds
\* and exceptions in mid-call included.
THEOREM TypeCorrect == Spec => []TypeOK
<1>1. QED
  BY ListInvariant, ListInvTypes, PTL

\* However calls of the list interleave, and whether positions are out of bounds or
\* itemRenderer throws, the fragments that renderHandles names are in the DOM, each once
\* and in their order: the JavaScript the listener of renderEach sends never refers to a
\* marker that is gone or misplaced.  What is there besides shows nothing.
THEOREM HandlesAreMirrored == Spec => []HandlesMatchDom
<1>1. QED
  BY ListInvariant, ListInvTypes, PTL

-----------------------------------------------------------------------------
(***************************************************************************)
(* What the browser shows, when threads take turns.                        *)
(***************************************************************************)
\* The items the fragments r show.
Image(g, r) == [i \in DOMAIN r |-> g[r[i]]]
View == Image(shown, renderHandles)

\* What the fragments S may show.
Showing(S) == [S -> Items]

LEMMA ImageFacts ==
  ASSUME NEW S, NEW g \in Showing(S), NEW r \in Seq(S)
  PROVE  /\ Image(g, r) \in Seq(Items) /\ Len(Image(g, r)) = Len(r)
         /\ \A i \in 1..Len(r) : Image(g, r)[i] = g[r[i]]
BY DEF Image, Showing

LEMMA ImageInsert ==
  ASSUME NEW S, NEW g \in Showing(S), NEW r \in Seq(S),
         NEW i \in 1..(Len(r) + 1), NEW f \in S
  PROVE  Image(g, InsertAt(r, i, f)) = InsertAt(Image(g, r), i, g[f])
<1> DEFINE l == Image(g, InsertAt(r, i, f))
           m == Image(g, r)
           k == InsertAt(m, i, g[f])
<1>1. /\ m \in Seq(Items) /\ Len(m) = Len(r) /\ Len(r) \in Nat /\ i \in Nat /\ g[f] \in Items
      /\ \A j \in 1..Len(r) : m[j] = g[r[j]]
  <2>1. g[f] \in Items /\ Len(r) \in Nat /\ i \in Nat
    BY DEF Showing
  <2> QED BY <2>1, ImageFacts
<1>2. /\ InsertAt(r, i, f) \in Seq(S) /\ Len(InsertAt(r, i, f)) = Len(r) + 1
      /\ \A j \in 1..(Len(r) + 1) :
           InsertAt(r, i, f)[j] = IF j < i THEN r[j] ELSE IF j = i THEN f ELSE r[j - 1]
  <2>1. r \in Seq(S) /\ i \in 1..(Len(r) + 1) /\ f \in S
    OBVIOUS
  <2>2. InsertAt(r, i, f) \in Seq(S) /\ Len(InsertAt(r, i, f)) = Len(r) + 1
    BY ONLY <2>1, InsertAtFacts
  <2>3. \A j \in 1..(Len(r) + 1) :
          InsertAt(r, i, f)[j] = IF j < i THEN r[j] ELSE IF j = i THEN f ELSE r[j - 1]
    BY ONLY <2>1, InsertAtFacts
  <2> QED BY ONLY <2>2, <2>3
<1>3. /\ l \in Seq(Items) /\ Len(l) = Len(r) + 1
      /\ \A j \in 1..(Len(r) + 1) : l[j] = g[InsertAt(r, i, f)[j]]
  <2> DEFINE t == InsertAt(r, i, f)
  <2>1. t \in Seq(S) /\ Len(t) = Len(r) + 1
    BY <1>2
  <2> HIDE DEF t
  <2>2. Image(g, t) \in Seq(Items) /\ Len(Image(g, t)) = Len(t)
        /\ \A j \in 1..Len(t) : Image(g, t)[j] = g[t[j]]
    BY ONLY <2>1, g \in Showing(S), ImageFacts
  <2> QED BY <2>1, <2>2 DEF t
<1> HIDE DEF l, m
<1>4. /\ k \in Seq(Items) /\ Len(k) = Len(r) + 1
      /\ \A j \in 1..(Len(r) + 1) :
           k[j] = IF j < i THEN m[j] ELSE IF j = i THEN g[f] ELSE m[j - 1]
  <2> DEFINE e == g[f]
  <2>1. m \in Seq(Items) /\ i \in 1..(Len(m) + 1) /\ e \in Items
    BY <1>1
  <2>2. k = InsertAt(m, i, e)
    OBVIOUS
  <2> HIDE DEF e, k
  <2>3. InsertAt(m, i, e) \in Seq(Items) /\ Len(InsertAt(m, i, e)) = Len(m) + 1
    BY ONLY <2>1, InsertAtFacts
  <2>4. \A j \in 1..(Len(m) + 1) :
          InsertAt(m, i, e)[j] = IF j < i THEN m[j] ELSE IF j = i THEN e ELSE m[j - 1]
    BY ONLY <2>1, InsertAtFacts
  <2>5. Len(m) = Len(r)
    BY <1>1
  <2> QED BY ONLY <2>2, <2>3, <2>4, <2>5 DEF e
<1> HIDE DEF k
<1>5. ASSUME NEW j \in 1..(Len(r) + 1) PROVE l[j] = k[j]
  <2>1. l[j] = g[InsertAt(r, i, f)[j]]
    BY <1>3
  <2>2. CASE j < i
    <3>1. j \in 1..Len(r)
      BY <1>1, <2>2
    <3>2. InsertAt(r, i, f)[j] = r[j] /\ k[j] = m[j]
      BY <2>2, <1>2, <1>4
    <3> QED BY <3>1, <3>2, <2>1, <1>1
  <2>3. CASE j = i
    <3>1. InsertAt(r, i, f)[j] = f /\ k[j] = g[f]
      BY <2>3, <1>1, <1>2, <1>4
    <3> QED BY <3>1, <2>1
  <2>4. CASE j > i
    <3>1. j - 1 \in 1..Len(r)
      BY <1>1, <2>4
    <3>2. InsertAt(r, i, f)[j] = r[j - 1] /\ k[j] = m[j - 1]
      BY <2>4, <1>1, <1>2, <1>4
    <3> QED BY <3>1, <3>2, <2>1, <1>1
  <2> QED BY <2>2, <2>3, <2>4, <1>1
<1>6. l = k
  BY ONLY <1>1, <1>3, <1>4, <1>5, SameSequence
<1> QED BY <1>6 DEF l, k, m

LEMMA ImageRemove ==
  ASSUME NEW S, NEW g \in Showing(S), NEW r \in Seq(S), NEW i \in 1..Len(r)
  PROVE  Image(g, RemoveAt(r, i)) = RemoveAt(Image(g, r), i)
<1> DEFINE l == Image(g, RemoveAt(r, i))
           m == Image(g, r)
           k == RemoveAt(m, i)
<1>1. /\ m \in Seq(Items) /\ Len(m) = Len(r) /\ Len(r) \in Nat /\ i \in Nat
      /\ \A j \in 1..Len(r) : m[j] = g[r[j]]
  <2>1. Len(r) \in Nat /\ i \in Nat
    OBVIOUS
  <2> QED BY <2>1, ImageFacts
<1>2. /\ RemoveAt(r, i) \in Seq(S) /\ Len(RemoveAt(r, i)) = Len(r) - 1
      /\ \A j \in 1..(Len(r) - 1) : RemoveAt(r, i)[j] = IF j < i THEN r[j] ELSE r[j + 1]
  BY RemoveAtFacts
<1>3. /\ l \in Seq(Items) /\ Len(l) = Len(r) - 1
      /\ \A j \in 1..(Len(r) - 1) : l[j] = g[RemoveAt(r, i)[j]]
  BY ONLY <1>2, g \in Showing(S), ImageFacts
<1> HIDE DEF l, m
<1>4. /\ k \in Seq(Items) /\ Len(k) = Len(r) - 1
      /\ \A j \in 1..(Len(r) - 1) : k[j] = IF j < i THEN m[j] ELSE m[j + 1]
  BY <1>1, RemoveAtFacts
<1> HIDE DEF k
<1>5. ASSUME NEW j \in 1..(Len(r) - 1) PROVE l[j] = k[j]
  <2>1. l[j] = g[RemoveAt(r, i)[j]]
    BY <1>3
  <2>2. j \in 1..Len(r) /\ j + 1 \in 1..Len(r)
    BY <1>1
  <2> QED BY <2>1, <2>2, <1>1, <1>2, <1>4
<1>6. l = k
  BY ONLY <1>1, <1>3, <1>4, <1>5, SameSequence
<1> QED BY <1>6 DEF l, k, m

\* Moving an element, in the two ways of the code.
LEMMA ImageMoveDown ==
  ASSUME NEW S, NEW g \in Showing(S), NEW r \in Seq(S),
         NEW a \in 1..Len(r), NEW b \in 1..Len(r)
  PROVE  Image(g, RemoveAt(InsertAt(r, b, r[a]), a + 1))
           = RemoveAt(InsertAt(Image(g, r), b, Image(g, r)[a]), a + 1)
<1>1. r[a] \in S /\ b \in 1..(Len(r) + 1) /\ a + 1 \in 1..(Len(r) + 1)
  OBVIOUS
<1>2. InsertAt(r, b, r[a]) \in Seq(S) /\ Len(InsertAt(r, b, r[a])) = Len(r) + 1
  BY ONLY <1>1, r \in Seq(S), InsertAtFacts
<1>3. a + 1 \in 1..Len(InsertAt(r, b, r[a]))
  BY ONLY <1>1, <1>2
<1>4. Image(g, r)[a] = g[r[a]]
  BY ONLY r \in Seq(S), g \in Showing(S), a \in 1..Len(r), ImageFacts
<1>5. Image(g, InsertAt(r, b, r[a])) = InsertAt(Image(g, r), b, g[r[a]])
  BY ONLY <1>1, r \in Seq(S), g \in Showing(S), ImageInsert
<1>6. Image(g, RemoveAt(InsertAt(r, b, r[a]), a + 1))
        = RemoveAt(Image(g, InsertAt(r, b, r[a])), a + 1)
  BY ONLY <1>2, <1>3, g \in Showing(S), ImageRemove
<1> QED BY <1>4, <1>5, <1>6

LEMMA ImageMoveUp ==
  ASSUME NEW S, NEW g \in Showing(S), NEW r \in Seq(S),
         NEW a \in 1..Len(r), NEW b \in 1..Len(r), a < b
  PROVE  Image(g, RemoveAt(InsertAt(r, b + 1, r[a]), a))
           = InsertAt(RemoveAt(Image(g, r), a), b, Image(g, r)[a])
<1> DEFINE m == Image(g, r)
           c == b + 1
           e == r[a]
           u == InsertAt(r, c, e)
<1>1. e \in S /\ c \in 1..(Len(r) + 1) /\ a \in 1..(Len(r) + 1)
  OBVIOUS
<1>2. m \in Seq(Items) /\ Len(m) = Len(r) /\ m[a] = g[e]
  BY ONLY r \in Seq(S), g \in Showing(S), a \in 1..Len(r), ImageFacts
<1> HIDE DEF c, e
<1>3. u \in Seq(S) /\ Len(u) = Len(r) + 1
  BY ONLY <1>1, r \in Seq(S), InsertAtFacts
<1>4. Image(g, u) = InsertAt(m, c, g[e])
  BY ONLY <1>1, r \in Seq(S), g \in Showing(S), ImageInsert
<1> HIDE DEF m, u
<1>5. a \in 1..Len(u)
  BY ONLY <1>1, <1>3
<1>6. Image(g, RemoveAt(u, a)) = RemoveAt(Image(g, u), a)
  BY ONLY <1>3, <1>5, g \in Showing(S), ImageRemove
<1>7. RemoveAt(InsertAt(m, b + 1, m[a]), a) = InsertAt(RemoveAt(m, a), b, m[a])
  <2>1. m \in Seq(Items) /\ a \in 1..Len(m) /\ b \in 1..Len(m)
    BY <1>2
  <2> QED BY ONLY <2>1, a < b, MoveUp
<1> QED BY <1>2, <1>4, <1>6, <1>7 DEF m, u, c, e

Fragments == 1..fragments

LEMMA ViewFacts ==
  ASSUME ViewInv, Unrenderable = {}
  PROVE  /\ shown \in Showing(Fragments) /\ renderHandles \in Seq(Fragments)
         /\ View \in Seq(Items) /\ Len(View) = Len(renderHandles)
         /\ Len(renderHandles) \in Nat
<1>1. shown \in Showing(Fragments) /\ renderHandles \in Seq(Fragments)
  BY DEF ViewInv, Exact, Showing, Fragments
<1>2. Len(renderHandles) \in Nat
  BY <1>1
<1> QED BY <1>1, <1>2, ImageFacts DEF View

\* What the listener does to the fragments is what the list does to its items.
LEMMA InsertItemShows ==
  ASSUME ViewInv, Unrenderable = {}, NEW p \in 0..Len(renderHandles), NEW x \in Items, InsertItem(p, x)
  PROVE  View' = InsertAt(View, p + 1, x)
<1> DEFINE n == fragments + 1
           g == [f \in 1..n |-> IF f = n THEN x ELSE shown[f]]
           h == renderHandles
           S == 1..n
<1>1. /\ n \in Nat /\ fragments' = n /\ shown' = g
      /\ h' = InsertAt(h, p + 1, n)
      /\ h \in Seq(1..fragments) /\ h \in Seq(S) /\ p + 1 \in 1..(Len(h) + 1)
      /\ shown \in [1..fragments -> Items] /\ fragments \in Nat
  BY DEF ViewInv, Exact, InsertItem, InsertSpans, NextFragment
<1>2. \A f \in 1..fragments : f \in 1..n /\ f # n
  BY <1>1
<1>3. g \in Showing(S) /\ g[n] = x /\ n \in S /\ \A f \in 1..fragments : g[f] = shown[f]
  BY <1>1 DEF Showing
<1>4. Image(g, h) = Image(shown, h)
  <2>1. \A i \in DOMAIN h : h[i] \in 1..fragments
    BY <1>1
  <2> QED BY <2>1, <1>3 DEF Image
<1>6. View' = Image(g, InsertAt(h, p + 1, n)) /\ View = Image(shown, h)
  BY <1>1 DEF View
<1> HIDE DEF g, n, h, S
<1>5. Image(g, InsertAt(h, p + 1, n)) = InsertAt(Image(g, h), p + 1, g[n])
  BY ONLY <1>1, <1>3, ImageInsert
<1> QED BY <1>3, <1>4, <1>5, <1>6

LEMMA ChangeItemShows ==
  ASSUME ViewInv, Unrenderable = {}, NEW p \in 0..(Len(renderHandles) - 1), NEW x \in Items,
         ChangeItem(p, x)
  PROVE  View' = ReplaceAt(View, p + 1, x)
<1> DEFINE h == renderHandles
           a == p + 1
<1>0. /\ h \in Seq(Fragments) /\ a \in 1..Len(h) /\ h[a] \in Fragments
      /\ shown \in [Fragments -> Items] /\ IsInjective(h)
  BY DEF ViewInv, Exact, Fragments
<1>1. /\ shown' = [shown EXCEPT ![h[a]] = x] /\ h' = h
      /\ h \in Seq(Fragments) /\ a \in 1..Len(h)
      /\ shown \in [Fragments -> Items] /\ IsInjective(h)
  <2>1. shown[h[a]] # Blank
    BY <1>0, RenderEachAssumption
  <2> QED BY <1>0, <2>1 DEF ChangeItem
<1>2. /\ View' = [i \in 1..Len(h) |-> shown'[h[i]]]
      /\ View = [i \in 1..Len(h) |-> shown[h[i]]]
  BY <1>1 DEF View, Image
<1> HIDE DEF h, a
<1>3. ASSUME NEW i \in 1..Len(h)
      PROVE  shown'[h[i]] = IF i = a THEN x ELSE shown[h[i]]
  <2>1. h[i] \in Fragments /\ h[a] \in Fragments
    BY <1>1
  <2>2. i # a => h[i] # h[a]
    <3>1. DOMAIN h = 1..Len(h)
      BY <1>1
    <3> QED BY <3>1, <1>1 DEF IsInjective
  <2> QED BY <2>1, <2>2, <1>1
<1>4. ReplaceAt(View, a, x) = [i \in 1..Len(h) |-> IF i = a THEN x ELSE shown[h[i]]]
  BY <1>1, <1>2 DEF ReplaceAt
<1> QED BY <1>2, <1>3, <1>4 DEF a

LEMMA DeleteItemShows ==
  ASSUME ViewInv, Unrenderable = {}, NEW p \in 0..(Len(renderHandles) - 1), DeleteItem(p)
  PROVE  View' = RemoveAt(View, p + 1)
<1>1. p + 1 \in 1..Len(renderHandles)
  BY ViewFacts
<1>2. View' = Image(shown, RemoveAt(renderHandles, p + 1))
  BY DEF View, DeleteItem
<1> QED BY <1>1, <1>2, ViewFacts, ImageRemove DEF View

LEMMA MoveItemShows ==
  ASSUME ViewInv, Unrenderable = {}, NEW p \in 0..(Len(renderHandles) - 1),
         NEW q \in 0..(Len(renderHandles) - 1), p # q, MoveItem(p, q)
  PROVE  View' = Moved(View, p, q)
<1> DEFINE h == renderHandles
           a == p + 1
           b == q + 1
<1>1. /\ h \in Seq(Fragments) /\ shown \in Showing(Fragments) /\ shown' = shown
      /\ a \in 1..Len(h) /\ b \in 1..Len(h) /\ a # b /\ p \in Nat /\ q \in Nat
  BY ViewFacts DEF MoveItem
<1>2. View' = Image(shown, h') /\ View = Image(shown, h)
  BY <1>1 DEF View
<1>3. CASE p > q
  <2>1. h' = RemoveAt(InsertAt(h, b, h[a]), a + 1) /\ b < a /\ a + 1 = p + 2 /\ p >= q
    BY <1>1, <1>3 DEF MoveItem
  <2>2. Moved(View, p, q) = RemoveAt(InsertAt(View, b, View[a]), p + 2)
    BY <2>1 DEF Moved
  <2> HIDE DEF h, a, b
  <2>3. Image(shown, RemoveAt(InsertAt(h, b, h[a]), a + 1))
          = RemoveAt(InsertAt(Image(shown, h), b, Image(shown, h)[a]), a + 1)
    BY ONLY <1>1, ImageMoveDown
  <2> QED BY <2>1, <2>2, <2>3, <1>2
<1>4. CASE ~(p > q)
  <2>1. h' = RemoveAt(InsertAt(h, b + 1, h[a]), a) /\ a < b /\ b + 1 = q + 2 /\ ~(p >= q)
    BY <1>1, <1>4 DEF MoveItem
  <2>2. Moved(View, p, q) = InsertAt(RemoveAt(View, a), b, View[a])
    BY <2>1 DEF Moved
  <2> HIDE DEF h, a, b
  <2>3. Image(shown, RemoveAt(InsertAt(h, b + 1, h[a]), a))
          = InsertAt(RemoveAt(Image(shown, h), a), b, Image(shown, h)[a])
    BY ONLY <1>1, <2>1, ImageMoveUp
  <2> QED BY <2>1, <2>2, <2>3, <1>2
<1> QED BY <1>3, <1>4

LEMMA RenderShows ==
  ASSUME ViewInv, Unrenderable = {}, NEW m \in Modifications, Completes(renderHandles, m),
         Render(m)
  PROVE  View' = Applied(View, m)
<1>1. Len(renderHandles) \in Nat
  BY DEF ViewInv
<1>2. CASE m.kind = "Insertion"
  <2>1. m.position \in 0..Len(renderHandles) /\ m.item \in Items
    BY <1>1, <1>2, ModificationFields DEF Completes
  <2>2. InsertItem(m.position, m.item)
    BY <1>2 DEF Render
  <2> QED BY <1>2, <2>1, <2>2, InsertItemShows DEF Applied
<1>3. CASE m.kind = "Change"
  <2>1. m.position \in 0..(Len(renderHandles) - 1) /\ m.item \in Items
    BY <1>1, <1>3, ModificationFields DEF Completes
  <2>2. ChangeItem(m.position, m.item)
    BY <1>3 DEF Render
  <2> QED BY <1>3, <2>1, <2>2, ChangeItemShows DEF Applied
<1>4. CASE m.kind = "Deletion"
  <2>1. m.position \in 0..(Len(renderHandles) - 1)
    BY <1>1, <1>4, ModificationFields DEF Completes
  <2>2. DeleteItem(m.position)
    BY <1>4 DEF Render
  <2> QED BY <1>4, <2>1, <2>2, DeleteItemShows DEF Applied
<1>5. CASE m.kind = "Move" /\ m.oldPosition # m.newPosition
  <2>1. /\ m.oldPosition \in 0..(Len(renderHandles) - 1)
        /\ m.newPosition \in 0..(Len(renderHandles) - 1)
    BY <1>1, <1>5, ModificationFields DEF Completes
  <2>2. MoveItem(m.oldPosition, m.newPosition)
    BY <1>5 DEF Render
  <2> QED BY <1>5, <2>1, <2>2, MoveItemShows DEF Applied
<1>6. CASE m.kind = "Move" /\ m.oldPosition = m.newPosition
  <2>1. UNCHANGED <<renderHandles, shown>>
    BY <1>6 DEF Render
  <2> QED BY <1>6, <2>1 DEF View, Applied
<1> QED BY <1>2, <1>3, <1>4, <1>5, <1>6, ModificationFields

\* What is true of 0 and passes from each number to the next is true of all.
LEMMA StepByStep ==
  ASSUME NEW S, 0 \in S, \A k \in Nat : k \in S => k + 1 \in S
  PROVE  \A k \in Nat : k \in S
<1> DEFINE T == {k \in Nat : k \notin S}
<1>1. SUFFICES T = {}
  OBVIOUS
<1>2. SUFFICES ASSUME T # {} PROVE FALSE
  OBVIOUS
<1>3. IsWellFoundedOn(OpToRel(<, Nat), Nat)
  BY NatLessThanWellFounded, Zenon
<1>4. T \subseteq Nat
  OBVIOUS
<1>5. PICK k \in T : \A m \in T : <<m, k>> \notin OpToRel(<, Nat)
  BY ONLY <1>2, <1>3, <1>4, WFMin, Zenon
<1>6. k \in Nat /\ k # 0
  BY <1>5
<1>7. k - 1 \in Nat /\ k - 1 < k /\ (k - 1) + 1 = k
  BY ONLY <1>6
<1>8. k - 1 \in S
  BY <1>5, <1>6, <1>7, Zenon DEF OpToRel
<1>9. QED
  BY <1>5, <1>7, <1>8, Zenon

LEMMA LargestIndex ==
  ASSUME NEW n \in Nat, NEW S, S \subseteq 1..n, n \in S
  PROVE  Max(S) = n
<1>1. n \in S /\ \A i \in S : n >= i
  OBVIOUS
<1>2. Max(S) \in S /\ \A i \in S : Max(S) >= i
  BY <1>1 DEF Max
<1>3. PICK k \in S : k = Max(S) /\ k >= n
  BY ONLY <1>1, <1>2
<1>4. k \in 1..n
  BY ONLY <1>3, S \subseteq 1..n
<1>5. QED
  BY ONLY <1>3, <1>4, n \in Nat

\* A function of sets of indices as FoldLeft has it.
Folds(f, s0, ms, n) ==
  f = [s \in SUBSET (1..n) |->
         IF s = {} THEN s0 ELSE Applied(f[s \ {Max(s)}], ms[Max(s)])]

LEMMA FoldIs ==
  ASSUME NEW s0, NEW ms \in Seq(Modifications), NEW g, Folds(g, s0, ms, Len(ms))
  PROVE  \E f : Folds(f, s0, ms, Len(ms)) /\ FoldLeft(Applied, s0, ms) = f[1..Len(ms)]
<1>1. DOMAIN ms = 1..Len(ms)
  OBVIOUS
<1>2. QED
  BY <1>1, Zenon DEF FoldLeft, MapThenFoldSet, Folds

LEMMA FoldExtends ==
  ASSUME NEW s0, NEW ms \in Seq(Modifications), NEW n \in Nat, NEW f, Folds(f, s0, ms, n)
  PROVE  \E g : Folds(g, s0, ms, n + 1)
<1> DEFINE D == SUBSET (1..n)
           E == SUBSET (1..(n + 1))
           g == [s \in E |-> IF n + 1 \in s THEN Applied(f[s \ {n + 1}], ms[n + 1]) ELSE f[s]]
           h == [s \in E |-> IF s = {} THEN s0 ELSE Applied(g[s \ {Max(s)}], ms[Max(s)])]
<1>1. \A s \in E : s \ {n + 1} \in D /\ (n + 1 \notin s => s \in D)
  <2>1. 1..(n + 1) = (1..n) \cup {n + 1}
    OBVIOUS
  <2>2. QED
    BY <2>1
<1>2. \A s \in D : f[s] = IF s = {} THEN s0 ELSE Applied(f[s \ {Max(s)}], ms[Max(s)])
  BY DEF Folds
<1>3. ASSUME NEW s \in E PROVE g[s] = h[s]
  <2>1. CASE s = {}
    BY <1>1, <1>2, <2>1
  <2>2. CASE n + 1 \in s
    <3>1. Max(s) = n + 1
      <4>1. n + 1 \in Nat /\ s \subseteq 1..(n + 1)
        OBVIOUS
      <4>2. QED
        BY <2>2, <4>1, LargestIndex
    <3>2. s \ {n + 1} \in E /\ n + 1 \notin s \ {n + 1}
      OBVIOUS
    <3>3. g[s \ {n + 1}] = f[s \ {n + 1}]
      BY <3>2
    <3>4. QED
      BY <2>2, <3>1, <3>3
  <2>3. CASE s # {} /\ n + 1 \notin s
    <3>1. s \in D
      BY <1>1, <2>3
    <3>2. s \ {Max(s)} \in D /\ s \ {Max(s)} \in E /\ n + 1 \notin s \ {Max(s)}
      BY <2>3, <3>1
    <3>3. g[s \ {Max(s)}] = f[s \ {Max(s)}]
      BY <3>2
    <3>4. f[s] = Applied(f[s \ {Max(s)}], ms[Max(s)])
      BY <1>2, <2>3, <3>1
    <3>5. g[s] = f[s] /\ h[s] = Applied(g[s \ {Max(s)}], ms[Max(s)])
      BY <2>3
    <3>6. QED
      BY <3>3, <3>4, <3>5
  <2>4. QED
    BY <2>1, <2>2, <2>3
<1>4. g = h
  BY <1>3
<1>5. QED
  BY <1>4 DEF Folds

LEMMA FoldExists ==
  ASSUME NEW s0, NEW ms \in Seq(Modifications)
  PROVE  \A n \in Nat : \E g : Folds(g, s0, ms, n)
<1> DEFINE S == {n \in Nat : \E g : Folds(g, s0, ms, n)}
<1>1. 0 \in S
  <2> DEFINE g == [s \in {{}} |-> s0]
             h == [s \in {{}} |-> IF s = {} THEN s0 ELSE Applied(g[s \ {Max(s)}], ms[Max(s)])]
  <2>1. SUBSET (1..0) = {{}}
    OBVIOUS
  <2>2. g = h
    OBVIOUS
  <2>3. Folds(g, s0, ms, 0)
    BY <2>1, <2>2 DEF Folds
  <2>4. QED
    BY <2>3
<1>2. ASSUME NEW n \in Nat, n \in S PROVE n + 1 \in S
  <2>1. PICK f : Folds(f, s0, ms, n)
    BY <1>2
  <2>2. \E g : Folds(g, s0, ms, n + 1)
    BY <2>1, FoldExtends
  <2>3. QED
    BY <2>2
<1> HIDE DEF S
<1>3. \A n \in Nat : n \in S
  BY <1>1, <1>2, StepByStep
<1>4. QED
  BY <1>3 DEF S

\* h is what becomes of the list s, one modification of ms after the other.
Path(h, s, ms) ==
  /\ h \in [0..Len(ms) -> Seq(Items)] /\ h[0] = s
  /\ \A n \in 0..(Len(ms) - 1) : Completes(h[n], ms[n + 1]) /\ h[n + 1] = Applied(h[n], ms[n + 1])

\* What modifications make of a list.
Outcome(s, ms) == FoldLeft(Applied, s, ms)

\* h is what the modifications ms make of s, as far as each of them: from s to the outcome.
Steps(h, s, ms) ==
  /\ h[0] = s /\ h[Len(ms)] = Outcome(s, ms)
  /\ \A n \in 0..(Len(ms) - 1) : h[n + 1] = Applied(h[n], ms[n + 1])

LEMMA FoldSteps ==
  ASSUME NEW s, NEW ms \in Seq(Modifications)
  PROVE  \E h : Steps(h, s, ms)
<1> DEFINE l == Len(ms)
<1>1. l \in Nat
  OBVIOUS
<1>2. PICK g : Folds(g, s, ms, l)
  BY <1>1, FoldExists
<1>3. PICK f : Folds(f, s, ms, l) /\ FoldLeft(Applied, s, ms) = f[1..l]
  BY <1>2, FoldIs
<1> DEFINE h == [n \in 0..l |-> f[1..n]]
<1> HIDE DEF l
<1>4. \A x \in SUBSET (1..l) :
        f[x] = IF x = {} THEN s ELSE Applied(f[x \ {Max(x)}], ms[Max(x)])
  BY <1>3 DEF Folds
<1>5. h[0] = s
  <2>1. 1..0 = {} /\ h[0] = f[1..0]
    BY <1>1
  <2>2. QED
    BY <1>4, <2>1
<1>6. ASSUME NEW n \in 0..(l - 1) PROVE h[n + 1] = Applied(h[n], ms[n + 1])
  <2>1. /\ n \in Nat /\ n + 1 \in 1..(n + 1) /\ 1..(n + 1) \in SUBSET (1..l)
        /\ (1..(n + 1)) \ {n + 1} = 1..n /\ n \in 0..l /\ n + 1 \in 0..l
    BY <1>1
  <2>2. Max(1..(n + 1)) = n + 1
    <3>1. n + 1 \in Nat /\ 1..(n + 1) \subseteq 1..(n + 1)
      BY <2>1
    <3>2. QED
      BY <2>1, <3>1, LargestIndex
  <2>3. f[1..(n + 1)] = Applied(f[1..n], ms[n + 1])
    BY <1>4, <2>1, <2>2
  <2>4. h[n] = f[1..n] /\ h[n + 1] = f[1..(n + 1)]
    BY <2>1
  <2>5. QED
    BY <2>3, <2>4
<1>7. h[l] = f[1..l]
  BY <1>1
<1>8. QED
  BY <1>3, <1>5, <1>6, <1>7 DEF l, Outcome, Steps

LEMMA PrefixFacts ==
  ASSUME NEW ms \in Seq(Modifications), NEW n \in 0..Len(ms)
  PROVE  /\ SubSeq(ms, 1, n) \in Seq(Modifications) /\ Len(SubSeq(ms, 1, n)) = n
         /\ \A i \in 1..n : SubSeq(ms, 1, n)[i] = ms[i]
<1> HIDE DEF Modifications
<1> QED OBVIOUS

\* A fold over the first so many modifications is the fold over one less, and one step.
LEMMA FoldPrefix ==
  ASSUME NEW s, NEW ms \in Seq(Modifications), NEW n \in 0..(Len(ms) - 1)
  PROVE  Outcome(s, SubSeq(ms, 1, n + 1))
           = Applied(Outcome(s, SubSeq(ms, 1, n)), ms[n + 1])
<1> DEFINE p == SubSeq(ms, 1, n)
           q == SubSeq(ms, 1, n + 1)
<1>1. n \in 0..Len(ms) /\ n + 1 \in 0..Len(ms) /\ n \in Nat
  OBVIOUS
<1>2. p \in Seq(Modifications) /\ Len(p) = n /\ \A i \in 1..n : p[i] = ms[i]
  BY <1>1, PrefixFacts
<1>3. q \in Seq(Modifications) /\ Len(q) = n + 1 /\ \A i \in 1..(n + 1) : q[i] = ms[i]
  BY <1>1, PrefixFacts
<1> HIDE DEF p, q
<1>4. PICK g : /\ g[0] = s /\ g[n] = Outcome(s, p)
               /\ \A i \in 0..(n - 1) : g[i + 1] = Applied(g[i], p[i + 1])
  <2>1. PICK g : Steps(g, s, p)
    BY <1>2, FoldSteps
  <2> QED BY <2>1, <1>2 DEF Steps
<1>5. PICK h : /\ h[0] = s /\ h[n + 1] = Outcome(s, q)
               /\ \A i \in 0..n : h[i + 1] = Applied(h[i], q[i + 1])
  <2>1. PICK h : Steps(h, s, q)
    BY <1>3, FoldSteps
  <2>2. Len(q) = n + 1 /\ Len(q) - 1 = n
    BY <1>1, <1>3
  <2> QED BY ONLY <2>1, <2>2, Zenon DEF Steps
<1> DEFINE S == {i \in Nat : i <= n => g[i] = h[i]}
<1>6. 0 \in S
  BY <1>4, <1>5
<1>7. ASSUME NEW i \in Nat, i \in S PROVE i + 1 \in S
  <2>1. SUFFICES ASSUME i + 1 <= n PROVE g[i + 1] = h[i + 1]
    OBVIOUS
  <2>2. i \in 0..(n - 1) /\ i \in 0..n /\ i + 1 \in 1..n /\ i + 1 \in 1..(n + 1) /\ g[i] = h[i]
    BY <2>1, <1>1, <1>7
  <2> QED BY <2>2, <1>2, <1>3, <1>4, <1>5
<1> HIDE DEF S
<1>8. \A i \in Nat : i \in S
  BY <1>6, <1>7, StepByStep
<1>9. g[n] = h[n]
  BY <1>1, <1>8 DEF S
<1>10. h[n + 1] = Applied(h[n], q[n + 1]) /\ q[n + 1] = ms[n + 1]
  BY <1>1, <1>3, <1>5
<1> QED BY <1>4, <1>5, <1>9, <1>10 DEF p, q

LEMMA FoldNothing ==
  ASSUME NEW s, NEW ms \in Seq(Modifications)
  PROVE  Outcome(s, SubSeq(ms, 1, 0)) = s
<1> DEFINE p == SubSeq(ms, 1, 0)
<1>1. 0 \in 0..Len(ms)
  OBVIOUS
<1>2. p \in Seq(Modifications) /\ Len(p) = 0
  BY <1>1, PrefixFacts
<1> HIDE DEF p
<1>3. PICK h : /\ h[0] = s /\ h[Len(p)] = Outcome(s, p)
               /\ \A n \in 0..(Len(p) - 1) : h[n + 1] = Applied(h[n], p[n + 1])
  <2>1. p \in Seq(Modifications)
    BY <1>2
  <2>2. PICK h : Steps(h, s, p)
    BY ONLY <2>1, FoldSteps
  <2> QED BY ONLY <2>2, Zenon DEF Steps
<1>4. Outcome(s, p) = s
  BY ONLY <1>2, <1>3
<1> QED BY <1>4 DEF p

\* What a careful call makes of the list.
LEMMA CarefulPath ==
  ASSUME items \in Seq(Items), NEW ms \in Seq(Modifications), Careful(ms)
  PROVE  \E h : Path(h, items, ms)
<1> DEFINE h == [n \in 0..Len(ms) |-> Outcome(items, SubSeq(ms, 1, n))]
           l == Len(ms)
<1>1. l \in Nat /\ DOMAIN ms = 1..l
  OBVIOUS
<1>2. h[0] = items
  BY <1>1, FoldNothing
<1>3. ASSUME NEW n \in 0..(l - 1)
      PROVE  Completes(h[n], ms[n + 1]) /\ h[n + 1] = Applied(h[n], ms[n + 1])
  <2>1. n \in 0..l /\ n + 1 \in 0..l /\ n + 1 \in 1..l /\ (n + 1) - 1 = n
    BY <1>1
  <2>2. h[n] = Outcome(items, SubSeq(ms, 1, n))
        /\ h[n + 1] = Outcome(items, SubSeq(ms, 1, n + 1))
    BY <2>1
  <2>3. Completes(Outcome(items, SubSeq(ms, 1, (n + 1) - 1)), ms[n + 1])
    BY <1>1, <2>1 DEF Careful, Outcome
  <2> QED BY <2>1, <2>2, <2>3, FoldPrefix
<1> HIDE DEF h
<1> DEFINE S == {n \in Nat : n <= l => h[n] \in Seq(Items)}
<1>4. 0 \in S
  BY <1>2
<1>5. ASSUME NEW n \in Nat, n \in S PROVE n + 1 \in S
  <2>1. SUFFICES ASSUME n + 1 <= l PROVE h[n + 1] \in Seq(Items)
    OBVIOUS
  <2>2. n \in 0..(l - 1) /\ n + 1 \in 1..l /\ h[n] \in Seq(Items)
    BY <2>1, <1>1, <1>5
  <2>3. ms[n + 1] \in Modifications
    <3> HIDE DEF Modifications
    <3> QED BY <2>2
  <2> QED BY <2>2, <2>3, <1>3, AppliedTypes
<1> HIDE DEF S
<1>6. \A n \in Nat : n \in S
  BY <1>4, <1>5, StepByStep
<1>7. h \in [0..l -> Seq(Items)]
  <2>1. \A n \in 0..l : h[n] \in Seq(Items)
    BY <1>1, <1>6 DEF S
  <2>2. h = [n \in 0..l |-> h[n]]
    BY DEF h
  <2> QED BY <2>1, <2>2
<1>8. Path(h, items, ms)
  BY <1>2, <1>3, <1>7 DEF Path, l
<1> QED BY <1>8

(***************************************************************************)
(* The inductive invariant of DomShowsItems.                               *)
(***************************************************************************)
\* What is left of ms after k of them.
Rest(rest, ms, k) == Len(rest) = Len(ms) - k /\ \A n \in 1..Len(rest) : rest[n] = ms[k + n]

\* The modifications of thread t lead from the list as it was, which is what the
\* browser shows, over the list as it is.
Applying(t) ==
  \E h : /\ Path(h, h[0], modifications[t])
         /\ rendering = "listening" => h[0] = View
         /\ \E k \in 0..Len(modifications[t]) :
              Rest(todo[t], modifications[t], k) /\ items = h[k]

\* Those it has yet to tell the listener lead from what the browser shows to the list.
Notifying(t) == \E h : Path(h, View, todo[t]) /\ h[Len(todo[t])] = items

OthersQuiet(t) == \A u \in Threads \ {t} : pc[u] = "idle" /\ toAdd[u] = <<>>
Turns == \A t \in Threads : pc[t] # "idle" \/ toAdd[t] # <<>> => OthersQuiet(t)
Early == rendering \in {"start", "drawn"} => Quiet
Calm ==
  rendering \in {"drawn", "listening"} /\ (\A t \in Threads : pc[t] = "idle") => View = items
Doing(t) ==
  (pc[t] = "apply" => Applying(t)) /\ (pc[t] = "notify" => Notifying(t))

ShowInv == Turns /\ Early /\ Calm /\ \A t \in Threads : Doing(t)

\* When one thread acts, and the others are quiet before and after, it is enough to look
\* at what that thread does.
LEMMA OneActs ==
  ASSUME NEW t \in Threads, OthersQuiet(t), Early', Calm', Doing(t)',
         \A u \in Threads \ {t} : pc'[u] = pc[u] /\ toAdd'[u] = toAdd[u]
  PROVE  ShowInv'
<1>1. \A u \in Threads \ {t} : pc'[u] = "idle" /\ toAdd'[u] = <<>>
  BY DEF OthersQuiet
<1>2. Turns'
  BY <1>1 DEF Turns, OthersQuiet
<1>3. \A u \in Threads : Doing(u)'
  <2>1. ASSUME NEW u \in Threads, u # t PROVE Doing(u)'
    BY <1>1, <2>1 DEF Doing
  <2> QED BY <2>1
<1> QED BY <1>2, <1>3 DEF ShowInv

\* A thread that goes on is the only one; renderEach has returned.
LEMMA GoesOn ==
  ASSUME ShowInv, NEW t \in Threads, pc[t] # "idle" \/ toAdd[t] # <<>>
  PROVE  OthersQuiet(t) /\ rendering \notin {"start", "drawn"}
<1>1. ~Quiet
  BY DEF Quiet
<1> QED BY <1>1 DEF ShowInv, Turns, Early

LEMMA MayCallFacts ==
  ASSUME ~Concurrent, ~EarlyCalls, NEW t \in Threads, MayCall(t)
  PROVE  OthersQuiet(t) /\ rendering \notin {"start", "drawn"} /\ pc[t] = "idle"
BY DEF MayCall, OthersQuiet

\* applyModifications begins: all of the call is still to be done.
LEMMA Begins ==
  ASSUME ListInv, ShowInv, NEW t \in Threads, NEW ms \in Seq(Modifications),
         NEW h, Path(h, items, ms), OthersQuiet(t), pc[t] = "idle",
         rendering \notin {"start", "drawn"},
         ApplyModifications(t, ms), UNCHANGED <<items, rendering, viewVars>>,
         \A u \in Threads \ {t} : toAdd'[u] = toAdd[u]
  PROVE  ShowInv'
<1>1. /\ modifications'[t] = ms /\ todo'[t] = ms /\ pc'[t] = "apply"
      /\ \A u \in Threads \ {t} : pc'[u] = pc[u]
  BY DEF ApplyModifications, ListInv, CallTypes
<1>2. View' = View
  BY DEF viewVars, View
<1>3. rendering = "listening" => View = items
  BY DEF ShowInv, Calm, OthersQuiet
<1>4. h[0] = items
  BY DEF Path
<1>5. Len(ms) \in Nat
  OBVIOUS
<1>6. 0 \in 0..Len(ms) /\ Rest(ms, ms, 0)
  BY <1>5 DEF Rest
<1>7. Applying(t)'
  BY <1>1, <1>2, <1>3, <1>4, <1>6 DEF Applying
<1>8. Doing(t)' /\ Early' /\ Calm'
  BY <1>1, <1>7 DEF Doing, Early, Calm
<1> QED BY <1>1, <1>8, OneActs

LEMMA ModifyShows ==
  ASSUME ~Concurrent, ~EarlyCalls, ~Careless, ListInv, ShowInv, NEW t \in Threads,
         NEW ms \in SeqOf(ModificationsAt(0..MaxLength), MaxBatch), Modify(t, ms)
  PROVE  ShowInv'
<1>1. MaxLength \in Nat /\ MaxBatch \in Nat
  BY RenderEachAssumption
<1>2. ModificationsAt(0..MaxLength) \subseteq Modifications
  BY <1>1 DEF Modifications, ModificationsAt
<1>3. ms \in Seq(Modifications)
  BY ONLY <1>1, <1>2, ms \in SeqOf(ModificationsAt(0..MaxLength), MaxBatch), SeqOfTypes
<1>4. /\ MayCall(t) /\ Careful(ms) /\ ApplyModifications(t, ms)
      /\ UNCHANGED <<items, rendering, viewVars, toAdd>>
  BY DEF Modify, listVars
<1>5. items \in Seq(Items)
  BY DEF ListInv, CallTypes
<1>6. PICK h : Path(h, items, ms)
  BY ONLY <1>3, <1>4, <1>5, CarefulPath
<1>7. OthersQuiet(t) /\ rendering \notin {"start", "drawn"} /\ pc[t] = "idle"
  BY <1>4, MayCallFacts
<1> QED BY <1>3, <1>4, <1>6, <1>7, Begins

LEMMA AddNextShows ==
  ASSUME ListInv, ShowInv, NEW t \in Threads, AddNext(t)
  PROVE  ShowInv'
<1>1. OthersQuiet(t) /\ rendering \notin {"start", "drawn"} /\ pc[t] = "idle"
  BY GoesOn DEF AddNext
<1>2. UNCHANGED <<items, closed, rendering, viewVars>>
  BY DEF AddNext, listVars
<1>3. toAdd \in [Threads -> Seq(Items)] /\ pc \in [Threads -> {"idle", "apply", "notify"}]
      /\ items \in Seq(Items) /\ Len(items) \in Nat
  BY DEF ListInv, CallTypes
<1>4. \A u \in Threads \ {t} : toAdd'[u] = toAdd[u]
  BY <1>3 DEF AddNext
<1>5. CASE closed
  <2>1. pc' = pc /\ View' = View
    BY <1>2, <1>5 DEF AddNext, viewVars, View
  <2>2. Doing(t)' /\ Early' /\ Calm'
    BY <1>1, <1>2, <2>1 DEF Doing, Early, Calm, ShowInv
  <2> QED BY <1>1, <1>4, <2>1, <2>2, OneActs
<1>6. CASE ~closed
  <2> DEFINE m == Insertion(Len(items), Head(toAdd[t]))
             h == [n \in 0..1 |-> IF n = 0 THEN items ELSE Applied(items, m)]
  <2>1. m \in Modifications
    BY <1>3, HeadTail DEF AddNext, Insertion, Modifications, ModificationsAt
  <2>2. Completes(items, m)
    BY <1>3 DEF Completes, Insertion
  <2>3. ApplyModifications(t, <<m>>)
    BY <1>6 DEF AddNext
  <2> HIDE DEF m
  <2>4. Applied(items, m) \in Seq(Items)
    BY <1>3, <2>1, <2>2, AppliedTypes
  <2>5. h \in [0..1 -> Seq(Items)] /\ h[0] = items /\ h[1] = Applied(items, m)
    BY <1>3, <2>4
  <2>6. <<m>> \in Seq(Modifications) /\ Len(<<m>>) = 1 /\ <<m>>[1] = m
    BY <2>1
  <2> HIDE DEF h
  <2>7. Path(h, items, <<m>>)
    <3>1. \A n \in 0..(1 - 1) : n = 0 /\ n + 1 = 1
      OBVIOUS
    <3> QED BY <2>2, <2>5, <2>6, <3>1 DEF Path
  <2> QED BY <1>1, <1>2, <1>4, <2>3, <2>6, <2>7, Begins
<1> QED BY <1>5, <1>6

LEMMA PathElement ==
  ASSUME NEW s, NEW ms \in Seq(Modifications), NEW h, Path(h, s, ms), NEW n \in 0..Len(ms)
  PROVE  h[n] \in Seq(Items)
BY DEF Path

LEMMA ApplyShows ==
  ASSUME ListInv, ShowInv, NEW t \in Threads, Apply(t)
  PROVE  ShowInv'
<1> DEFINE ms == modifications[t]
           rest == todo[t]
           m == Head(rest)
<1>1. OthersQuiet(t) /\ rendering \notin {"start", "drawn"} /\ pc[t] = "apply"
  BY GoesOn DEF Apply
<1>2. ms \in Seq(Modifications) /\ rest \in Seq(Modifications) /\ rest # <<>>
  BY DEF ListInv, CallTypes, Apply
<1>3. PICK h : /\ Path(h, h[0], ms)
               /\ rendering = "listening" => h[0] = View
               /\ \E k \in 0..Len(ms) : Rest(rest, ms, k) /\ items = h[k]
  BY <1>1 DEF ShowInv, Doing, Applying
<1>4. PICK k \in 0..Len(ms) : Rest(rest, ms, k) /\ items = h[k]
  BY <1>3
<1>5. /\ Len(ms) \in Nat /\ Len(rest) \in Nat /\ Len(rest) >= 1
      /\ Tail(rest) \in Seq(Modifications) /\ Len(Tail(rest)) = Len(rest) - 1
      /\ \A n \in 1..(Len(rest) - 1) : Tail(rest)[n] = rest[n + 1]
      /\ m = rest[1]
  <2> HIDE DEF ms, rest
  <2> QED BY <1>2 DEF m
<1>6. todo \in [Threads -> Seq(Modifications)]
  BY DEF ListInv, CallTypes
<1> HIDE DEF ms, rest, m
<1>7. /\ k \in Nat /\ k + 1 \in 0..Len(ms) /\ k \in 0..(Len(ms) - 1)
      /\ m = ms[k + 1]
  BY <1>4, <1>5 DEF Rest
<1>8. Completes(items, m) /\ Applied(items, m) = h[k + 1]
  BY <1>3, <1>4, <1>7 DEF Path
<1>9. /\ items' = h[k + 1] /\ todo' = [todo EXCEPT ![t] = Tail(rest)]
      /\ UNCHANGED <<pc, toAdd, modifications, rendering, viewVars>>
  BY <1>8 DEF Apply, m, rest
<1>10. Rest(Tail(rest), ms, k + 1)
  <2>1. Len(Tail(rest)) = Len(ms) - (k + 1)
    BY <1>4, <1>5, <1>7 DEF Rest
  <2>2. ASSUME NEW n \in 1..Len(Tail(rest)) PROVE Tail(rest)[n] = ms[(k + 1) + n]
    <3>1. n + 1 \in 1..Len(rest) /\ n \in 1..(Len(rest) - 1) /\ k + (n + 1) = (k + 1) + n
      BY <1>5, <1>7
    <3> QED BY <3>1, <1>4, <1>5 DEF Rest
  <2> QED BY <2>1, <2>2 DEF Rest
<1>11. /\ modifications'[t] = ms /\ todo'[t] = Tail(rest) /\ View' = View /\ pc' = pc
       /\ rendering' = rendering /\ toAdd' = toAdd
  BY <1>6, <1>9 DEF View, viewVars, ms
<1>12. Applying(t)'
  BY <1>3, <1>7, <1>9, <1>10, <1>11 DEF Applying
<1>13. Doing(t)' /\ Early' /\ Calm'
  BY <1>1, <1>11, <1>12 DEF Doing, Early, Calm
<1> QED BY <1>1, <1>11, <1>13, OneActs

LEMMA AppliesShows ==
  ASSUME ListInv, ShowInv, NEW t \in Threads, Applies(t)
  PROVE  ShowInv'
<1> DEFINE ms == modifications[t]
<1>1. OthersQuiet(t) /\ rendering \notin {"start", "drawn"} /\ pc[t] = "apply" /\ todo[t] = <<>>
  BY GoesOn DEF Applies
<1>2. ms \in Seq(Modifications) /\ pc \in [Threads -> {"idle", "apply", "notify"}]
      /\ todo \in [Threads -> Seq(Modifications)]
  BY DEF ListInv, CallTypes
<1>3. PICK h : /\ Path(h, h[0], ms)
               /\ rendering = "listening" => h[0] = View
               /\ \E k \in 0..Len(ms) : Rest(todo[t], ms, k) /\ items = h[k]
  BY <1>1 DEF ShowInv, Doing, Applying
<1>4. items = h[Len(ms)]
  <2>1. PICK k \in 0..Len(ms) : Rest(todo[t], ms, k) /\ items = h[k]
    BY <1>3
  <2>2. Len(ms) = k
    <3>1. Len(<<>>) = 0 /\ Len(ms) \in Nat
      BY <1>2
    <3> HIDE DEF ms
    <3> QED BY <1>1, <2>1, <3>1 DEF Rest
  <2> QED BY <2>1, <2>2
<1>5. UNCHANGED <<items, toAdd, rendering, viewVars>>
  BY DEF Applies
<1>6. View' = View
  BY <1>5 DEF View, viewVars
<1>7. CASE rendering = "listening"
  <2>1. pc' = [pc EXCEPT ![t] = "notify"] /\ todo' = [todo EXCEPT ![t] = ms]
    BY <1>7 DEF Applies
  <2>2. pc'[t] = "notify" /\ todo'[t] = ms
    BY <1>2, <2>1
  <2>3. Notifying(t)'
    <3> HIDE DEF ms
    <3> QED BY <1>3, <1>4, <1>5, <1>6, <1>7, <2>2 DEF Notifying
  <2>4. Doing(t)' /\ Early' /\ Calm'
    BY <1>1, <1>5, <2>2, <2>3 DEF Doing, Early, Calm
  <2> QED BY <1>1, <1>2, <1>5, <2>1, <2>4, OneActs
<1>8. CASE rendering # "listening"
  <2>1. pc' = [pc EXCEPT ![t] = "idle"]
    BY <1>8 DEF Applies
  <2>2. Doing(t)' /\ Early' /\ Calm'
    BY <1>1, <1>2, <1>5, <1>8, <2>1 DEF Doing, Early, Calm
  <2> QED BY <1>1, <1>2, <1>5, <2>1, <2>2, OneActs
<1> QED BY <1>7, <1>8

LEMMA NotifyShows ==
  ASSUME Unrenderable = {}, ListInv, ShowInv, NEW t \in Threads, Notify(t)
  PROVE  ShowInv'
<1> DEFINE rest == todo[t]
           m == Head(rest)
<1>1. OthersQuiet(t) /\ rendering \notin {"start", "drawn"} /\ pc[t] = "notify"
  BY GoesOn DEF Notify
<1>2. rest \in Seq(Modifications) /\ rest # <<>> /\ todo \in [Threads -> Seq(Modifications)]
  BY DEF ListInv, CallTypes, Notify
<1>3. PICK h : Path(h, View, rest) /\ h[Len(rest)] = items
  BY <1>1 DEF ShowInv, Doing, Notifying
<1>4. /\ Len(rest) \in Nat /\ Len(rest) >= 1
      /\ Tail(rest) \in Seq(Modifications) /\ Len(Tail(rest)) = Len(rest) - 1
      /\ \A n \in 1..(Len(rest) - 1) : Tail(rest)[n] = rest[n + 1]
      /\ m = rest[1] /\ m \in Modifications
  <2> HIDE DEF rest
  <2> QED BY <1>2 DEF m
<1> HIDE DEF rest, m
<1>5. Completes(View, m) /\ h[1] = Applied(View, m)
  <2>1. 0 \in 0..(Len(rest) - 1) /\ 0 + 1 = 1
    BY <1>4
  <2> QED BY <2>1, <1>3, <1>4 DEF Path
<1>6. ViewInv /\ Len(View) = Len(renderHandles)
  BY ViewFacts DEF ListInv
<1>7. Completes(renderHandles, m) /\ ~RendererThrows(m)
  BY <1>5, <1>6 DEF Completes, RendererThrows
<1>8. /\ Render(m) /\ todo' = [todo EXCEPT ![t] = Tail(rest)]
      /\ UNCHANGED <<pc, toAdd, items, rendering>>
  BY <1>7 DEF Notify, listVars, m, rest
<1>9. View' = h[1]
  BY <1>4, <1>5, <1>6, <1>7, <1>8, RenderShows
<1> DEFINE l == Len(rest) - 1
           g == [n \in 0..l |-> h[n + 1]]
<1>10. /\ l \in Nat /\ 0 \in 0..l /\ Len(Tail(rest)) = l
       /\ \A n \in 0..l : n + 1 \in 0..Len(rest)
       /\ \A n \in 0..(l - 1) : /\ n + 1 \in 0..(Len(rest) - 1) /\ n + 1 \in 0..l
                                /\ n \in 0..l /\ n + 1 \in 1..(Len(rest) - 1)
  BY <1>4
<1>11. /\ h \in [0..Len(rest) -> Seq(Items)]
       /\ \A n \in 0..(Len(rest) - 1) :
            Completes(h[n], rest[n + 1]) /\ h[n + 1] = Applied(h[n], rest[n + 1])
  BY <1>3 DEF Path
<1>12. \A n \in 0..(l - 1) : Tail(rest)[n + 1] = rest[(n + 1) + 1]
  BY <1>4, <1>10
<1> HIDE DEF l
<1>13. g \in [0..l -> Seq(Items)] /\ g[0] = h[1] /\ \A n \in 0..l : g[n] = h[n + 1]
  BY <1>10, <1>11
<1> HIDE DEF g
<1>14. ASSUME NEW n \in 0..(l - 1)
       PROVE  Completes(g[n], Tail(rest)[n + 1]) /\ g[n + 1] = Applied(g[n], Tail(rest)[n + 1])
  <2>1. /\ n + 1 \in 0..(Len(rest) - 1) /\ g[n] = h[n + 1] /\ g[n + 1] = h[(n + 1) + 1]
        /\ Tail(rest)[n + 1] = rest[(n + 1) + 1]
    BY <1>10, <1>12, <1>13
  <2>2. Completes(h[n + 1], rest[(n + 1) + 1])
        /\ h[(n + 1) + 1] = Applied(h[n + 1], rest[(n + 1) + 1])
    BY <1>11, <2>1
  <2> QED BY <2>1, <2>2
<1>15. Path(g, View', Tail(rest))
  BY <1>9, <1>10, <1>13, <1>14 DEF Path
<1>16. g[Len(Tail(rest))] = items
  <2>1. l \in 0..l /\ l + 1 = Len(rest)
    BY <1>4, <1>10 DEF l
  <2> QED BY <2>1, <1>3, <1>10, <1>13
<1>17. pc' = pc /\ todo'[t] = Tail(rest) /\ items' = items /\ rendering' = rendering /\ toAdd' = toAdd
  BY <1>2, <1>8
<1>18. Notifying(t)'
  BY <1>15, <1>16, <1>17 DEF Notifying
<1>19. Doing(t)' /\ Early' /\ Calm'
  BY <1>1, <1>17, <1>18 DEF Doing, Early, Calm
<1> QED BY <1>1, <1>17, <1>19, OneActs

LEMMA NotifiedShows ==
  ASSUME ListInv, ShowInv, NEW t \in Threads, Notified(t)
  PROVE  ShowInv'
<1>1. OthersQuiet(t) /\ rendering \notin {"start", "drawn"} /\ pc[t] = "notify" /\ todo[t] = <<>>
  BY GoesOn DEF Notified
<1>2. View = items
  <2>1. Notifying(t)
    BY <1>1 DEF ShowInv, Doing
  <2>2. Len(<<>>) = 0
    OBVIOUS
  <2> QED BY <1>1, <2>1, <2>2 DEF Notifying, Path
<1>3. /\ pc' = [pc EXCEPT ![t] = "idle"]
      /\ UNCHANGED <<items, toAdd, rendering, renderHandles, shown>>
  BY DEF Notified, listVars, callVars
<1>4. View' = View
  BY <1>3 DEF View
<1>5. pc \in [Threads -> {"idle", "apply", "notify"}]
  BY DEF ListInv, CallTypes
<1>6. Doing(t)' /\ Early' /\ Calm'
  BY <1>1, <1>2, <1>3, <1>4, <1>5 DEF Doing, Early, Calm
<1> QED BY <1>1, <1>3, <1>5, <1>6, OneActs

LEMMA AddAllShows ==
  ASSUME ~Concurrent, ~EarlyCalls, ListInv, ShowInv, NEW t \in Threads, NEW xs, AddAll(t, xs)
  PROVE  ShowInv'
<1>1. OthersQuiet(t) /\ rendering \notin {"start", "drawn"} /\ pc[t] = "idle"
  BY MayCallFacts DEF AddAll
<1>2. /\ toAdd' = [toAdd EXCEPT ![t] = xs]
      /\ UNCHANGED <<items, pc, rendering, renderHandles, shown>>
  BY DEF AddAll, listVars, viewVars
<1>3. View' = View /\ toAdd \in [Threads -> Seq(Items)]
  BY <1>2 DEF View, ListInv, CallTypes
<1>4. Doing(t)' /\ Early' /\ Calm'
  BY <1>1, <1>2, <1>3 DEF Doing, Early, Calm, ShowInv
<1> QED BY <1>1, <1>2, <1>3, <1>4, OneActs

\* renderEach draws a copy of the list while nobody modifies it.
LEMMA RenderItemsShows ==
  ASSUME Unrenderable = {}, ListInv, ShowInv, RenderItems
  PROVE  ShowInv'
<1>1. Quiet
  BY DEF ShowInv, Early, RenderItems
<1>3. items \in Seq(Items)
  BY DEF ListInv, CallTypes
<1>2. /\ shown' = items /\ renderHandles' = [i \in 1..Len(items) |-> i]
      /\ UNCHANGED <<items, pc, toAdd>>
  <2>1. /\ fragments' = Len(items) /\ renderHandles' = [i \in 1..Len(items) |-> i]
        /\ shown' = [f \in 1..Len(items) |-> IF f <= Len(items) THEN items[f] ELSE Blank]
        /\ UNCHANGED <<items, pc, toAdd>>
    BY DEF RenderItems, listVars, callVars
  <2>2. shown' = [f \in 1..Len(items) |-> items[f]]
    BY <2>1
  <2> QED BY <1>3, <2>1, <2>2
<1>4. View' = items
  <2>1. View' = [i \in 1..Len(items) |-> items[i]]
    BY <1>2 DEF View, Image
  <2> QED BY <1>3, <2>1
<1>5. Quiet'
  BY <1>1, <1>2 DEF Quiet
<1>6. \A t \in Threads : pc'[t] = "idle" /\ toAdd'[t] = <<>>
  BY <1>5 DEF Quiet
<1>7. Turns' /\ \A t \in Threads : Doing(t)'
  BY <1>6 DEF Turns, OthersQuiet, Doing
<1> QED BY <1>2, <1>4, <1>5, <1>7 DEF ShowInv, Early, Calm

\* Nothing else changes what is shown, and a call that is under way when the cleaner
\* runs goes on.
LEMMA RestShows ==
  ASSUME ShowInv,
         \/ \E t \in Threads : Close(t)
         \/ AddListener \/ CleanUp \/ UNCHANGED vars
  PROVE  ShowInv'
<1>1. UNCHANGED <<items, pc, toAdd, modifications, todo, renderHandles, shown>>
  BY DEF Close, AddListener, CleanUp, vars, listVars, callVars, viewVars
<1>2. rendering' = rendering \/ (rendering = "drawn" /\ rendering' = "listening")
        \/ rendering' = "cleaned"
  BY DEF Close, AddListener, CleanUp, vars
<1>3. View' = View
  BY <1>1 DEF View
<1>4. Turns' /\ Quiet' = Quiet
  BY <1>1 DEF Turns, OthersQuiet, Quiet, ShowInv
<1>5. Early' /\ Calm'
  BY <1>1, <1>2, <1>3, <1>4 DEF Early, Calm, ShowInv
<1>6. ASSUME NEW t \in Threads PROVE Doing(t)'
  <2>1. pc'[t] = "notify" => Notifying(t)'
    BY <1>1, <1>3 DEF ShowInv, Doing, Notifying
  <2>2. pc'[t] = "apply" => Applying(t)'
    <3>1. SUFFICES ASSUME pc[t] = "apply" PROVE Applying(t)'
      BY <1>1
    <3>2. rendering # "drawn" /\ Applying(t)
      BY <3>1 DEF ShowInv, Doing, Early, Quiet
    <3>3. rendering' = "listening" => rendering = "listening"
      BY <1>2, <3>2
    <3> QED BY <1>1, <1>3, <3>2, <3>3 DEF Applying
  <2> QED BY <2>1, <2>2 DEF Doing
<1> QED BY <1>4, <1>5, <1>6 DEF ShowInv

LEMMA ShowInvStep ==
  ASSUME ~Concurrent, ~EarlyCalls, ~RetainAll, ~Careless, Unrenderable = {},
         ListInv, ShowInv, [Next]_vars
  PROVE  ShowInv'
<1>1. CASE UNCHANGED vars \/ AddListener \/ CleanUp \/ \E t \in Threads : Close(t)
  BY <1>1, RestShows
<1>2. CASE RenderItems
  BY <1>2, RenderItemsShows
<1>3. ASSUME NEW t \in Threads, Proceed(t)
      PROVE  ShowInv'
  BY <1>3, AddNextShows, ApplyShows, AppliesShows, NotifyShows, NotifiedShows DEF Proceed
<1>4. ASSUME NEW t \in Threads,
             NEW ms \in SeqOf(ModificationsAt(0..MaxLength), MaxBatch), Modify(t, ms)
      PROVE  ShowInv'
  BY <1>4, ModifyShows
<1>5. ASSUME NEW t \in Threads, NEW xs \in SeqOf(Items, 2), AddAll(t, xs) \/ RetainOnly(t, xs)
      PROVE  ShowInv'
  <2>1. AddAll(t, xs)
    BY <1>5 DEF RetainOnly
  <2> QED BY <2>1, AddAllShows
<1> QED BY <1>1, <1>2, <1>3, <1>4, <1>5 DEF Next

\* Whenever no call is in progress the browser shows the list, for lists of any length,
\* calls of any number of modifications and any number of threads, if the threads take
\* turns and wait for renderEach, no position is out of bounds, itemRenderer never throws
\* and retainAll is not used: the listener does to the DOM what the list did to its items.
THEOREM ListIsShown ==
  ASSUME ~Concurrent, ~EarlyCalls, ~RetainAll, ~Careless, Unrenderable = {}
  PROVE  Spec => []DomShowsItems
<1>1. Init => ShowInv
  BY DEF Init, ShowInv, Turns, OthersQuiet, Early, Quiet, Calm, Doing
<1>2. ListInv /\ ShowInv /\ [Next]_vars => ShowInv'
  BY ShowInvStep
<1>3. ListInv /\ ShowInv => DomShowsItems
  BY DEF ListInv, ViewInv, Exact, Marked, ShowInv, Calm, Quiet, DomShowsItems, View, Image
<1> QED BY <1>1, <1>2, <1>3, ListInvariant, PTL DEF Spec

=============================================================================
