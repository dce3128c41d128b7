--------------------------- MODULE InputSync_proofs ---------------------------
(***************************************************************************)
(* Proofs about InputSync, for any alphabet, texts of any length and any   *)
(* number of events and writes on their way.                               *)
(***************************************************************************)
EXTENDS InputSync, SequenceTheorems, WellFoundedInduction, TLAPS

(***************************************************************************)
(* The difference of two texts.                                            *)
(***************************************************************************)
\* The loops of get_diff_changes end at the longest match they count up to.
LEMMA LongestIn ==
  ASSUME NEW k \in Nat, NEW S \in SUBSET (0..k), 0 \in S
  PROVE  Longest(S) \in S
<1> DEFINE T == {k - n : n \in S}
           R == OpToRel(<, Nat)
<1>1. T \subseteq Nat /\ k \in T
  <2>1. \A n \in S : k - n \in Nat
    OBVIOUS
  <2>2. k = k - 0
    OBVIOUS
  <2> QED BY <2>1, <2>2
<1>2. IsWellFoundedOn(R, Nat)
  BY NatLessThanWellFounded
<1> HIDE DEF T, R
<1>3. PICK x \in T : \A y \in T : <<y, x>> \notin R
  BY <1>1, <1>2, WFMin
<1>4. PICK n \in S : x = k - n
  BY <1>3 DEF T
<1>5. ASSUME NEW m \in S PROVE m <= n
  <2>1. k - m \in T /\ k - m \in Nat /\ x \in Nat
    BY <1>1, <1>3 DEF T
  <2>2. ~(k - m < x)
    BY <2>1, <1>3 DEF R, OpToRel
  <2> QED BY <2>1, <2>2, <1>4
<1> QED BY <1>4, <1>5 DEF Longest

\* What get_diff_changes counts: a prefix and a postfix that match and that do
\* not overlap in the shorter text.
LEMMA CommonEnds ==
  ASSUME NEW old \in Seq(Letters), NEW new \in Seq(Letters)
  PROVE  LET p == CommonPrefixEnd(old, new)
             q == CommonPostfixOffset(old, new)
         IN  /\ p \in Nat /\ p <= Len(old) /\ p <= Len(new)
             /\ \A i \in 1..p : old[i] = new[i]
             /\ q = -1 \/ q \in Nat \ {0}
             /\ p + q <= Len(old) /\ p + q <= Len(new)
             /\ \A i \in 0..q-1 : old[Len(old) - i] = new[Len(new) - i]
<1> DEFINE p == CommonPrefixEnd(old, new)
           s == Shorter(old, new)
           n == Longest(CommonPostfixes(old, new, s - p))
<1>1. s \in Nat /\ s <= Len(old) /\ s <= Len(new)
  BY DEF Shorter
<1>2. p \in CommonPrefixes(old, new)
  <2>1. CommonPrefixes(old, new) \in SUBSET (0..s) /\ 0 \in CommonPrefixes(old, new)
    BY <1>1 DEF CommonPrefixes
  <2> QED BY <2>1, <1>1, LongestIn DEF CommonPrefixEnd
<1>3. p \in 0..s /\ \A i \in 1..p : old[i] = new[i]
  BY <1>2 DEF CommonPrefixes
<1> HIDE DEF p, s
<1>4. s - p \in Nat
  BY <1>1, <1>3
<1>5. n \in CommonPostfixes(old, new, s - p)
  <2>1. /\ CommonPostfixes(old, new, s - p) \in SUBSET (0..(s - p))
        /\ 0 \in CommonPostfixes(old, new, s - p)
    BY <1>4 DEF CommonPostfixes
  <2> QED BY <2>1, <1>4, LongestIn
<1>6. n \in 0..(s - p) /\ \A i \in 0..n-1 : old[Len(old) - i] = new[Len(new) - i]
  BY <1>5 DEF CommonPostfixes
<1>7. CommonPostfixOffset(old, new) = IF n = 0 THEN -1 ELSE n
  BY DEF CommonPostfixOffset, p, s
<1> HIDE DEF n
<1>8. \A i \in 0..((IF n = 0 THEN -1 ELSE n) - 1) :
         old[Len(old) - i] = new[Len(new) - i]
  BY <1>6
<1> QED BY <1>1, <1>3, <1>6, <1>7, <1>8 DEF p

\* The first difference of an element is the whole text.
LEMMA WholeText ==
  ASSUME NEW base \in Seq(Letters), NEW new \in Seq(Letters)
  PROVE  LET d == GetDiffChanges(Undefined, new)
         IN  d \in Diffs /\ Applicable(base, d) /\ ApplyDiff(base, d) = new
<1> DEFINE d == DiffPatchData(0, 0, new)
<1>1. GetDiffChanges(Undefined, new) = d
  BY DEF GetDiffChanges
<1>2. d \in Diffs /\ Applicable(base, d)
  BY DEF DiffPatchData, Diffs, Applicable
<1>3. ApplyDiff(base, d) = SubSeq(base, 1, 0) \o new \o SubSeq(base, Len(base) + 1, Len(base))
  BY DEF DiffPatchData, ApplyDiff
<1>4. SubSeq(base, 1, 0) = <<>> /\ SubSeq(base, Len(base) + 1, Len(base)) = <<>>
  OBVIOUS
<1>5. <<>> \o new = new /\ new \o <<>> = new
  OBVIOUS
<1> QED BY <1>1, <1>2, <1>3, <1>4, <1>5

\* applyDiff undoes get_diff_changes: applied to the text it was taken from, a
\* difference gives the new text.
LEMMA RoundTrip ==
  ASSUME NEW old \in Seq(Letters), NEW new \in Seq(Letters)
  PROVE  LET d == GetDiffChanges(old, new)
         IN  d \in Diffs /\ Applicable(old, d) /\ ApplyDiff(old, d) = new
<1> DEFINE p == CommonPrefixEnd(old, new)
           q == CommonPostfixOffset(old, new)
           e == IF Len(new) - q > Len(new) THEN Len(new) ELSE Len(new) - q
           m == SubSeq(new, p + 1, e)
           d == DiffPatchData(p, q, m)
<1>1. GetDiffChanges(old, new) = d
  BY InputAssumption DEF GetDiffChanges, Substring
<1>2. /\ p \in Nat /\ p <= Len(old) /\ p <= Len(new)
      /\ \A i \in 1..p : old[i] = new[i]
      /\ q = -1 \/ q \in Nat \ {0}
      /\ p + q <= Len(old) /\ p + q <= Len(new)
      /\ \A i \in 0..q-1 : old[Len(old) - i] = new[Len(new) - i]
  BY CommonEnds
<1> HIDE DEF p, q
<1>3. e \in Nat /\ p <= e /\ e <= Len(new)
  BY <1>2
<1>4. /\ m \in Seq(Letters) /\ Len(m) = e - p
      /\ \A i \in 1..(e - p) : m[i] = new[p + i]
  <2> HIDE DEF e
  <2>1. e \in Int /\ p + 1 \in Int /\ \A i \in (p + 1)..e : new[i] \in Letters
    BY <1>2, <1>3
  <2>2. Len(m) = e - p /\ m \in Seq(Letters)
    BY <2>1, <1>2, <1>3, SubSeqProperties
  <2>3. \A i \in 1..(e - p) : m[i] = new[(p + 1) + i - 1]
    BY <2>1, <1>2, <1>3, SubSeqProperties
  <2> QED BY <2>2, <2>3, <1>2, <1>3
<1> HIDE DEF m
<1>5. d \in Diffs /\ Applicable(old, d)
  BY <1>2, <1>4 DEF DiffPatchData, Diffs, Applicable
<1> DEFINE a == SubSeq(old, 1, p)
           z == SubSeq(old, Len(old) - q + 1, Len(old))
<1>6. a \in Seq(Letters) /\ Len(a) = p /\ \A i \in 1..p : a[i] = new[i]
  <2>1. a \in Seq(Letters) /\ Len(a) = p /\ \A i \in 1..p : a[i] = old[i]
    BY <1>2
  <2> QED BY <2>1, <1>2
<1>7. CASE q = -1
  <2>1. ApplyDiff(old, d) = a \o m
    BY <1>7 DEF ApplyDiff, DiffPatchData
  <2>2. e = Len(new)
    BY <1>7
  <2> HIDE DEF e, a
  <2>3. a \o m \in Seq(Letters) /\ Len(a \o m) = Len(new)
    BY <1>2, <1>4, <1>6, <2>2
  <2>4. ASSUME NEW i \in 1..Len(new) PROVE (a \o m)[i] = new[i]
    <3>1. CASE i <= p
      BY <3>1, <1>2, <1>4, <1>6, <2>2, ConcatProperties
    <3>2. CASE ~(i <= p)
      <4>1. (a \o m)[i] = m[i - p]
        BY <3>2, <1>2, <1>4, <1>6, <2>2, ConcatProperties
      <4>2. i - p \in 1..(e - p) /\ p + (i - p) = i
        BY <3>2, <1>2, <2>2
      <4> QED BY <4>1, <4>2, <1>4
    <3> QED BY <3>1, <3>2
  <2>5. a \o m = new
    BY <2>3, <2>4, SeqEqual
  <2> QED BY <1>1, <1>5, <2>1, <2>5
<1>8. CASE q \in Nat \ {0}
  <2>1. ApplyDiff(old, d) = a \o m \o z
    <3>1. q # -1
      BY <1>8
    <3> QED BY <3>1 DEF ApplyDiff, DiffPatchData
  <2>2. e = Len(new) - q
    BY <1>8
  <2>3. /\ z \in Seq(Letters) /\ Len(z) = q
        /\ \A i \in 1..q : z[i] = old[Len(old) - q + i]
    BY <1>2, <1>8
  <2>4. ASSUME NEW i \in 1..q PROVE z[i] = new[Len(new) - q + i]
    <3>1. q - i \in 0..q-1 /\ Len(old) - (q - i) = Len(old) - q + i
           /\ Len(new) - (q - i) = Len(new) - q + i
      BY <1>8
    <3> QED BY <3>1, <2>3, <1>2
  <2> HIDE DEF e, a, z
  <2> DEFINE h == a \o m
  <2>5. h \in Seq(Letters) /\ Len(h) = e /\ \A i \in 1..e : h[i] = new[i]
    <3>1. h \in Seq(Letters) /\ Len(h) = e
      BY <1>2, <1>3, <1>4, <1>6
    <3>2. ASSUME NEW i \in 1..e PROVE h[i] = new[i]
      <4>1. CASE i <= p
        BY <4>1, <1>2, <1>3, <1>4, <1>6
      <4>2. CASE ~(i <= p)
        <5>1. h[i] = m[i - p]
          BY <4>2, <1>2, <1>3, <1>4, <1>6, ConcatProperties
        <5>2. i - p \in 1..(e - p) /\ p + (i - p) = i
          BY <4>2, <1>2, <1>3
        <5> QED BY <5>1, <5>2, <1>4
      <4> QED BY <4>1, <4>2
    <3> QED BY <3>1, <3>2
  <2> HIDE DEF h
  <2>6. h \o z \in Seq(Letters) /\ Len(h \o z) = Len(new)
    BY <1>3, <2>2, <2>3, <2>5, <1>8
  <2>7. ASSUME NEW i \in 1..Len(new) PROVE (h \o z)[i] = new[i]
    <3>1. CASE i <= e
      BY <3>1, <1>3, <2>3, <2>5
    <3>2. CASE ~(i <= e)
      <4>1. (h \o z)[i] = z[i - e]
        <5>1. i \in 1..Len(h) + Len(z) /\ Len(h) = e
          BY <1>3, <1>8, <2>2, <2>3, <2>5
        <5> QED BY <5>1, <3>2, <2>3, <2>5, ConcatProperties
      <4>2. i - e \in 1..q /\ Len(new) - q + (i - e) = i
        BY <3>2, <1>3, <1>8, <2>2
      <4> QED BY <4>1, <4>2, <2>4
    <3> QED BY <3>1, <3>2
  <2>8. h \o z = new
    BY <2>6, <2>7, SeqEqual
  <2> QED BY <1>1, <1>5, <2>1, <2>8 DEF h
<1> QED BY <1>2, <1>7, <1>8

(***************************************************************************)
(* Types.                                                                  *)
(***************************************************************************)
\* A difference the browser may take, of the text reported last.
LEMMA EventTyped ==
  ASSUME NEW old \in Seq(Letters) \cup {Undefined}, NEW new \in Seq(Letters)
  PROVE  GetDiffChanges(old, new) \in Diffs
<1>1. CASE old \in Seq(Letters)
  BY <1>1, RoundTrip
<1>2. CASE old = Undefined
  BY <1>2, WholeText
<1> QED BY <1>1, <1>2

\* applyDiff gives a text if it does not throw.
LEMMA AppliedTyped ==
  ASSUME NEW old \in Seq(Letters), NEW d \in Diffs, Applicable(old, d)
  PROVE  ApplyDiff(old, d) \in Seq(Letters)
<1>1. d.prefixEndIndex \in Nat /\ d.prefixEndIndex <= Len(old)
      /\ d.diffString \in Seq(Letters)
      /\ d.postfixOffset \in Nat \cup {-1} /\ d.postfixOffset <= Len(old)
  BY DEF Diffs, Applicable
<1>2. SubSeq(old, 1, d.prefixEndIndex) \in Seq(Letters)
  BY <1>1
<1>3. CASE d.postfixOffset = -1
  BY <1>1, <1>2, <1>3 DEF ApplyDiff
<1>4. CASE d.postfixOffset \in Nat
  <2> DEFINE k == d.postfixOffset
             z == SubSeq(old, Len(old) - k + 1, Len(old))
             h == SubSeq(old, 1, d.prefixEndIndex) \o d.diffString
  <2>1. z \in Seq(Letters)
    <3>1. k \in Nat /\ k <= Len(old)
      BY <1>1, <1>4
    <3> HIDE DEF k
    <3> QED BY <3>1
  <2>2. h \in Seq(Letters)
    <3> DEFINE s == SubSeq(old, 1, d.prefixEndIndex)
               t == d.diffString
    <3>1. s \in Seq(Letters) /\ t \in Seq(Letters) /\ h = s \o t
      BY <1>1, <1>2
    <3> HIDE DEF s, t, h
    <3>2. s \o t \in Seq(Letters)
      BY <3>1, ConcatProperties
    <3> QED BY <3>1, <3>2
  <2>3. ApplyDiff(old, d) = h \o z
    <3>1. d.postfixOffset # -1
      BY <1>4
    <3> QED BY <3>1, Zenon DEF ApplyDiff
  <2> HIDE DEF h, z
  <2>4. h \o z \in Seq(Letters)
    BY <2>1, <2>2, ConcatProperties
  <2> QED BY <2>3, <2>4
<1> QED BY <1>1, <1>3, <1>4

\* The types of all variables; that there is a text for each difference on its
\* way; and that the two KVars of the element hold the same text.
THEOREM TypeCorrect == Spec => []TypeOK
<1> USE InputAssumption
<1>1. Init => TypeOK
  <2> SUFFICES ASSUME Init PROVE TypeOK
    OBVIOUS
  <2>1. elementValue \in Seq(Letters) /\ stringKvar \in Seq(Letters)
    BY DEF Init
  <2>2. writes \in Seq(Seq(Letters))
    <3> DEFINE T == Seq(Letters)
    <3>1. stringKvar \in T /\ writes \in {<<>>, <<stringKvar>>}
      BY <2>1 DEF Init
    <3> HIDE DEF T
    <3>2. <<>> \in Seq(T)
      OBVIOUS
    <3>3. <<stringKvar>> \in Seq(T)
      BY <3>1
    <3>4. writes \in Seq(T)
      BY <3>1, <3>2, <3>3
    <3> QED BY <3>4 DEF T
  <2>3. valueKvar \in Values /\ valueKvar.value = stringKvar
    BY <2>1 DEF Init, Value, Values
  <2>4. events \in Seq(Diffs) /\ typed \in Seq(Texts) /\ Len(typed) = Len(events)
    BY DEF Init
  <2> QED BY <2>1, <2>2, <2>3, <2>4 DEF Init, TypeOK
<1>2. TypeOK /\ [Next]_vars => TypeOK'
  <2> SUFFICES ASSUME TypeOK, [Next]_vars PROVE TypeOK'
    OBVIOUS
  <2>1. ASSUME NEW text \in Texts, Type(text) PROVE TypeOK'
    <3>1. text \in Seq(Letters)
      OBVIOUS
    <3>2. GetDiffChanges(previousInput, text) \in Diffs
      BY <3>1, EventTyped DEF TypeOK
    <3> DEFINE d == GetDiffChanges(previousInput, text)
    <3>4. events' = Append(events, d) /\ typed' = Append(typed, text) /\ d \in Diffs
      BY <2>1, <3>2 DEF Type
    <3> HIDE DEF d
    <3>3. events' \in Seq(Diffs) /\ typed' \in Seq(Texts) /\ Len(typed') = Len(events')
      <4>1. events \in Seq(Diffs) /\ typed \in Seq(Texts) /\ Len(typed) = Len(events)
        BY DEF TypeOK
      <4>2. Append(events, d) \in Seq(Diffs) /\ Len(Append(events, d)) = Len(events) + 1
        BY <4>1, <3>4, AppendProperties
      <4>3. /\ Append(typed, text) \in Seq(Texts)
            /\ Len(Append(typed, text)) = Len(typed) + 1
        BY <4>1, AppendProperties
      <4> QED BY <4>1, <4>2, <4>3, <3>4
    <3> QED BY <2>1, <3>1, <3>3 DEF Type, TypeOK, serverVars
  <2>2. ASSUME NEW text \in Texts, SetString(text) PROVE TypeOK'
    <3>1. text \in Seq(Letters)
      OBVIOUS
    <3>2. SetValueFor(ComesBack(text)) = <<text>>
      BY DEF SetValueFor, ComesBack, Value
    <3>3. writes' \in Seq(Seq(Letters))
      BY <2>2, <3>1, <3>2 DEF SetString, TypeOK
    <3> QED BY <2>2, <3>1, <3>3
            DEF SetString, TypeOK, browserVars, ComesBack, Value, Values
  <2>3. CASE ReceiveWrite
    BY <2>3 DEF ReceiveWrite, TypeOK, serverVars, Forgotten
  <2>4. CASE ReceiveEvent
    <3> DEFINE d == Head(events)
               text == ApplyDiff(valueKvar.value, d)
               v == Value(text, "Browser")
    <3>1. events' \in Seq(Diffs) /\ typed' \in Seq(Texts) /\ Len(typed') = Len(events')
      BY <2>4 DEF ReceiveEvent, TypeOK
    <3>2. CASE ~Applicable(valueKvar.value, d)
      BY <2>4, <3>1, <3>2 DEF ReceiveEvent, TypeOK, browserVars
    <3>3. CASE Applicable(valueKvar.value, d)
      <4>1. d \in Diffs
        BY <2>4 DEF ReceiveEvent, TypeOK
      <4>2. text \in Seq(Letters)
        BY <4>1, <3>3, AppliedTyped DEF TypeOK
      <4> HIDE DEF text
      <4>3. ToBind(v) /\ UNCHANGED <<browserVars, written>>
        BY <2>4, <3>3 DEF ReceiveEvent, text
      <4>4. /\ v \in Values /\ v.value = text /\ SetValueFor(v) = <<>>
            /\ ComesBack(text) \in Values /\ ComesBack(text).value = text
            /\ SetValueFor(ComesBack(text)) = <<text>>
        BY <4>2 DEF Value, Values, SetValueFor, ComesBack
      <4> HIDE DEF v
      <4>5. writes' \in Seq(Seq(Letters))
        <5>1. writes' \in {writes \o <<>>, writes \o <<>> \o <<text>>}
          BY <4>3, <4>4 DEF ToBind
        <5> DEFINE T == Seq(Letters)
        <5>2. text \in T /\ writes \in Seq(T)
          BY <4>2 DEF TypeOK
        <5> HIDE DEF T
        <5>3. writes \o <<>> = writes /\ writes \o <<text>> \in Seq(T)
          BY <5>2
        <5>4. writes' \in Seq(T)
          BY <5>1, <5>2, <5>3
        <5> QED BY <5>4 DEF T
      <4>6. stringKvar' \in Seq(Letters) /\ valueKvar' \in Values
             /\ valueKvar'.value = stringKvar'
        <5>1. CASE text = stringKvar
          <6>1. valueKvar' = v /\ stringKvar' = stringKvar
            BY <5>1, <4>3, <4>4 DEF ToBind
          <6> QED BY <6>1, <5>1, <4>2, <4>4
        <5>2. CASE text # stringKvar
          <6>1. valueKvar' = ComesBack(text) /\ stringKvar' = text
            BY <5>2, <4>3, <4>4 DEF ToBind
          <6> QED BY <6>1, <4>2, <4>4
        <5> QED BY <5>1, <5>2
      <4> QED BY <3>1, <4>3, <4>5, <4>6 DEF TypeOK, browserVars
    <3> QED BY <3>2, <3>3
  <2>5. CASE UNCHANGED vars
    BY <2>5 DEF vars, browserVars, serverVars, TypeOK
  <2> QED BY <2>1, <2>2, <2>3, <2>4, <2>5 DEF Next
<1> QED BY <1>1, <1>2, PTL DEF Spec

(***************************************************************************)
(* Agreement.  The last write on its way is the text of the KVar.  Without *)
(* one, an element that shows another text has an event on its way that    *)
(* will change the KVar, and so be answered by a write.                    *)
(***************************************************************************)
LastWriteTells == writes # <<>> => writes[Len(writes)] = stringKvar

PreviousIsShown == previousInput \in {Undefined, elementValue}

Changes(text, d) == Applicable(text, d) /\ ApplyDiff(text, d) # text

SomeEventTells ==
  writes = <<>> /\ elementValue # stringKvar =>
    \E i \in 1..Len(events) : Changes(stringKvar, events[i])

InSync == LastWriteTells /\ PreviousIsShown /\ SomeEventTells

LEMMA InSyncInductive == TypeOK /\ InSync /\ [Next]_vars => InSync'
<1> USE InputAssumption
<1> SUFFICES ASSUME TypeOK, InSync, [Next]_vars PROVE InSync'
  OBVIOUS
<1>1. ASSUME NEW text \in Texts, Type(text) PROVE InSync'
  <2> DEFINE d == GetDiffChanges(previousInput, text)
  <2>1. text \in Seq(Letters) /\ d \in Diffs
    BY EventTyped DEF TypeOK
  <2>2. LastWriteTells' /\ PreviousIsShown'
    BY <1>1 DEF Type, serverVars, InSync, LastWriteTells, PreviousIsShown
  <2>3. ASSUME writes' = <<>>, elementValue' # stringKvar'
        PROVE  \E i \in 1..Len(events') : Changes(stringKvar', events'[i])
    <3>1. events' = Append(events, d) /\ stringKvar' = stringKvar /\ writes = <<>>
           /\ text # stringKvar
      BY <1>1, <2>3 DEF Type, serverVars
    <3> HIDE DEF d
    <3>2. /\ Len(events') = Len(events) + 1 /\ events'[Len(events) + 1] = d
          /\ \A i \in 1..Len(events) : events'[i] = events[i]
          /\ Len(events) \in Nat
      BY <2>1, <3>1 DEF TypeOK
    <3>3. CASE elementValue # stringKvar
      <4>1. PICK i \in 1..Len(events) : Changes(stringKvar, events[i])
        BY <3>1, <3>3 DEF InSync, SomeEventTells
      <4> QED BY <4>1, <3>1, <3>2
    <3>4. CASE elementValue = stringKvar
      <4>0. stringKvar \in Seq(Letters)
        BY DEF TypeOK
      <4>3. ASSUME Applicable(stringKvar, d), ApplyDiff(stringKvar, d) = text
            PROVE  \E i \in 1..Len(events') : Changes(stringKvar', events'[i])
        <5>1. Changes(stringKvar', events'[Len(events) + 1])
          BY <4>3, <3>1, <3>2 DEF Changes
        <5> QED BY <5>1, <3>2
      <4>1. CASE previousInput = Undefined
        <5>1. Applicable(stringKvar, d) /\ ApplyDiff(stringKvar, d) = text
          BY <4>0, <4>1, <2>1, WholeText DEF d
        <5> QED BY <5>1, <4>3
      <4>2. CASE previousInput = stringKvar
        <5>1. Applicable(stringKvar, d) /\ ApplyDiff(stringKvar, d) = text
          BY <4>0, <4>2, <2>1, RoundTrip DEF d
        <5> QED BY <5>1, <4>3
      <4> QED BY <4>1, <4>2, <3>4 DEF InSync, PreviousIsShown
    <3> QED BY <3>3, <3>4
  <2> QED BY <2>2, <2>3 DEF InSync, SomeEventTells
<1>2. ASSUME NEW text \in Texts, SetString(text) PROVE InSync'
  <2>1. SetValueFor(ComesBack(text)) = <<text>> /\ text \in Seq(Letters)
    BY DEF SetValueFor, ComesBack, Value
  <2>2. writes' = writes \o <<text>> /\ stringKvar' = text
         /\ UNCHANGED <<previousInput, elementValue>>
    BY <1>2, <2>1 DEF SetString, browserVars
  <2>3. writes' # <<>> /\ writes'[Len(writes')] = text
    BY <2>1, <2>2 DEF TypeOK
  <2> QED BY <2>2, <2>3 DEF InSync, LastWriteTells, PreviousIsShown, SomeEventTells
<1>3. CASE ReceiveWrite
  <2>1. writes # <<>> /\ writes' = Tail(writes) /\ elementValue' = Head(writes)
         /\ previousInput' = Undefined /\ stringKvar' = stringKvar
    BY <1>3 DEF ReceiveWrite, serverVars, Forgotten
  <2>2. writes[Len(writes)] = stringKvar /\ Len(writes) \in Nat \ {0}
    BY <2>1 DEF InSync, LastWriteTells, TypeOK
  <2>3. LastWriteTells'
    <3>1. ASSUME writes' # <<>> PROVE writes'[Len(writes')] = writes[Len(writes)]
      <4>1. writes \in Seq(Seq(Letters)) /\ writes # <<>>
        BY <2>1 DEF TypeOK
      <4>2. Len(writes') = Len(writes) - 1 /\ writes' \in Seq(Seq(Letters))
        BY <4>1, <2>1
      <4>3. Len(writes') \in 1..Len(writes) - 1
        BY <4>2, <3>1, <2>2
      <4> QED BY <4>1, <4>2, <4>3, <2>1, HeadTailProperties
    <3> QED BY <3>1, <2>1, <2>2 DEF LastWriteTells
  <2>4. ASSUME writes' = <<>> PROVE elementValue' = stringKvar'
    <3>1. writes \in Seq(Seq(Letters)) /\ writes # <<>>
      BY <2>1 DEF TypeOK
    <3>2. Len(writes') = Len(writes) - 1
      BY <3>1, <2>1, HeadTailProperties
    <3>3. Len(writes) = 1 /\ Head(writes) = writes[1]
      BY <3>1, <3>2, <2>2, <2>4
    <3> QED BY <3>3, <2>1, <2>2
  <2> QED BY <2>1, <2>3, <2>4 DEF InSync, PreviousIsShown, SomeEventTells
<1>4. CASE ReceiveEvent
  <2> DEFINE d == Head(events)
             text == ApplyDiff(stringKvar, d)
             v == Value(text, "Browser")
  <2>1. /\ events # <<>> /\ events' = Tail(events)
        /\ UNCHANGED <<previousInput, elementValue>>
    BY <1>4 DEF ReceiveEvent, browserVars
  <2>2. events[1] = d /\ Len(events) \in Nat \ {0} /\ Len(events') = Len(events) - 1
         /\ \A i \in 1..Len(events') : events'[i] = events[i + 1]
    BY <2>1 DEF TypeOK
  <2>3. PreviousIsShown'
    BY <2>1 DEF InSync, PreviousIsShown
  <2>4. CASE Changes(stringKvar, d)
    <3>1. ToBind(v) /\ text # stringKvar /\ d \in Diffs /\ text \in Seq(Letters)
      BY <1>4, <2>1, <2>4, AppliedTyped DEF ReceiveEvent, Changes, TypeOK
    <3> HIDE DEF text
    <3>2. v.value = text /\ SetValueFor(v) = <<>>
           /\ SetValueFor(ComesBack(text)) = <<text>>
      BY DEF Value, SetValueFor, ComesBack
    <3> HIDE DEF v
    <3>3. stringKvar' = text /\ writes' = writes \o <<>> \o <<text>>
      BY <3>1, <3>2 DEF ToBind
    <3>4. writes \o <<>> = writes
      BY DEF TypeOK
    <3>5. writes' # <<>> /\ writes'[Len(writes')] = text
      BY <3>1, <3>3, <3>4 DEF TypeOK
    <3> QED BY <2>3, <3>3, <3>5 DEF InSync, LastWriteTells, SomeEventTells
  <2>5. CASE ~Changes(stringKvar, d)
    <3>1. writes' = writes /\ stringKvar' = stringKvar
      <4>1. CASE ~Applicable(stringKvar, d)
        BY <4>1, <1>4 DEF ReceiveEvent, TypeOK
      <4>2. CASE Applicable(stringKvar, d)
        <5>1. ToBind(v) /\ text = stringKvar
          BY <4>2, <2>5, <1>4 DEF ReceiveEvent, Changes, TypeOK
        <5>2. v.value = stringKvar /\ SetValueFor(v) = <<>>
          BY <5>1 DEF Value, SetValueFor
        <5> HIDE DEF v
        <5>3. writes' = writes \o <<>> /\ stringKvar' = stringKvar
          BY <5>1, <5>2 DEF ToBind
        <5> QED BY <5>3 DEF TypeOK
      <4> QED BY <4>1, <4>2
    <3>2. ASSUME writes = <<>>, elementValue # stringKvar
          PROVE  \E i \in 1..Len(events') : Changes(stringKvar, events'[i])
      <4>1. PICK i \in 1..Len(events) : Changes(stringKvar, events[i])
        BY <3>2 DEF InSync, SomeEventTells
      <4>2. i # 1
        BY <4>1, <2>2, <2>5
      <4>3. i - 1 \in 1..Len(events') /\ events'[i - 1] = events[i]
        BY <4>2, <2>2
      <4> QED BY <4>1, <4>3
    <3> QED BY <2>1, <2>3, <3>1, <3>2 DEF InSync, LastWriteTells, SomeEventTells
  <2> QED BY <2>4, <2>5
<1>5. CASE UNCHANGED vars
  BY <1>5 DEF vars, browserVars, serverVars, InSync, LastWriteTells,
              PreviousIsShown, SomeEventTells, Changes
<1> QED BY <1>1, <1>2, <1>3, <1>4, <1>5 DEF Next

\* Whatever crossed on the way, the element shows the text of the KVar once
\* nothing is on its way any more.
THEOREM TextsAgree == Spec => []Agrees
<1>1. Init => InSync
  <2> SUFFICES ASSUME Init PROVE InSync
    OBVIOUS
  <2>1. CASE stringKvar = elementValue /\ writes = <<>>
    BY <2>1 DEF Init, InSync, LastWriteTells, PreviousIsShown, SomeEventTells
  <2>2. CASE writes = <<stringKvar>>
    <3>1. writes # <<>> /\ writes[Len(writes)] = stringKvar
      BY <2>2
    <3> QED BY <3>1 DEF Init, InSync, LastWriteTells, PreviousIsShown, SomeEventTells
  <2> QED BY <2>1, <2>2 DEF Init
<1>2. TypeOK /\ InSync /\ [Next]_vars => InSync'
  BY InSyncInductive
<1>3. TypeOK /\ InSync => Agrees
  BY DEF TypeOK, InSync, SomeEventTells, Agrees, Quiet
<1> QED BY <1>1, <1>2, <1>3, TypeCorrect, PTL DEF Spec

(***************************************************************************)
(* Keystrokes.  Without writes of the application the differences on their *)
(* way are a chain from the text of the KVar to the text typed last.       *)
(***************************************************************************)
Before(kvar, texts, i) == IF i = 1 THEN kvar ELSE texts[i - 1]

Chained ==
  written = 0 =>
    /\ \A i \in 1..Len(events) :
         \E old \in {Undefined, Before(stringKvar, typed, i)} :
           events[i] = GetDiffChanges(old, typed[i])
    /\ previousInput \in {Undefined, Before(stringKvar, typed, Len(typed) + 1)}

\* Then the event that arrives carries the text that was typed.
LEMMA ChainArrives ==
  ASSUME TypeOK, Chained, written = 0, events # <<>>
  PROVE  /\ Applicable(stringKvar, Head(events))
         /\ ApplyDiff(stringKvar, Head(events)) = Head(typed)
<1> USE InputAssumption
<1>1. Len(typed) = Len(events) /\ Len(events) \in Nat \ {0}
       /\ Head(typed) = typed[1] /\ Head(events) = events[1]
       /\ typed[1] \in Seq(Letters) /\ stringKvar \in Seq(Letters)
  BY DEF TypeOK
<1>2. PICK old \in {Undefined, stringKvar} : events[1] = GetDiffChanges(old, typed[1])
  BY <1>1 DEF Chained, Before
<1> QED BY <1>1, <1>2, RoundTrip, WholeText

LEMMA ChainedStep ==
  TypeOK /\ Chained /\ [Next]_vars =>
    Chained' /\ (ReceiveEvent /\ written = 0 => stringKvar' = Head(typed))
<1> USE InputAssumption
<1> SUFFICES ASSUME TypeOK, Chained, [Next]_vars
             PROVE  /\ Chained'
                    /\ ReceiveEvent /\ written = 0 => stringKvar' = Head(typed)
  OBVIOUS
<1>1. ASSUME NEW text \in Texts, Type(text) PROVE Chained' /\ ~ReceiveEvent
  <2>1. ~ReceiveEvent
    BY <1>1 DEF Type, ReceiveEvent, browserVars, TypeOK
  <2>2. ASSUME written' = 0
        PROVE  /\ \A i \in 1..Len(events') :
                    \E old \in {Undefined, Before(stringKvar', typed', i)} :
                      events'[i] = GetDiffChanges(old, typed'[i])
               /\ previousInput' = Before(stringKvar', typed', Len(typed') + 1)
    <3> DEFINE d == GetDiffChanges(previousInput, text)
    <3>1. /\ typed' = Append(typed, text) /\ previousInput' = text
          /\ events' = Append(events, d)
          /\ stringKvar' = stringKvar /\ written = 0
      BY <1>1, <2>2 DEF Type, serverVars
    <3>2. d \in Diffs
      BY EventTyped DEF TypeOK
    <3>3. d = GetDiffChanges(previousInput, text)
      OBVIOUS
    <3> HIDE DEF d
    <3>4. /\ Len(typed) = Len(events) /\ Len(events) \in Nat
          /\ Len(events') = Len(events) + 1 /\ Len(typed') = Len(typed) + 1
          /\ \A i \in 1..Len(events) : events'[i] = events[i] /\ typed'[i] = typed[i]
          /\ events'[Len(events) + 1] = d /\ typed'[Len(events) + 1] = text
      BY <3>1, <3>2 DEF TypeOK
    <3>5. ASSUME NEW i \in 1..Len(events) + 1
          PROVE  Before(stringKvar', typed', i) = Before(stringKvar, typed, i)
      <4>1. CASE i = 1
        BY <4>1, <3>1 DEF Before
      <4>2. CASE i # 1
        <5>1. i - 1 \in 1..Len(events)
          BY <4>2, <3>4
        <5> QED BY <5>1, <4>2, <3>4 DEF Before
      <4> QED BY <4>1, <4>2
    <3>6. ASSUME NEW i \in 1..Len(events')
          PROVE  \E old \in {Undefined, Before(stringKvar', typed', i)} :
                   events'[i] = GetDiffChanges(old, typed'[i])
      <4>1. CASE i \in 1..Len(events)
        <5>1. PICK old \in {Undefined, Before(stringKvar, typed, i)} :
                events[i] = GetDiffChanges(old, typed[i])
          BY <3>1, <4>1 DEF Chained
        <5>2. i \in 1..Len(events) + 1
          BY <3>4
        <5> QED BY <5>1, <5>2, <4>1, <3>4, <3>5
      <4>2. CASE i = Len(events) + 1
        <5>1. previousInput \in {Undefined, Before(stringKvar, typed, i)}
          BY <4>2, <3>1, <3>4 DEF Chained
        <5>2. Before(stringKvar', typed', i) = Before(stringKvar, typed, i)
          BY <3>4, <3>5
        <5>3. events'[i] = GetDiffChanges(previousInput, typed'[i])
          BY <4>2, <3>3, <3>4
        <5> QED BY <5>1, <5>2, <5>3
      <4> QED BY <4>1, <4>2, <3>4
    <3>7. previousInput' = Before(stringKvar', typed', Len(typed') + 1)
      BY <3>1, <3>4 DEF Before
    <3> QED BY <3>6, <3>7
  <2> QED BY <2>1, <2>2 DEF Chained
<1>2. ASSUME NEW text \in Texts, SetString(text) PROVE Chained' /\ ~ReceiveEvent
  BY <1>2 DEF SetString, ReceiveEvent, TypeOK, Chained
<1>3. CASE ReceiveWrite
  <2>1. ~ReceiveEvent
    BY <1>3 DEF ReceiveWrite, ReceiveEvent, TypeOK
  <2>2. previousInput' = Undefined /\ UNCHANGED <<events, typed, serverVars>>
    BY <1>3 DEF ReceiveWrite, Forgotten
  <2> QED BY <2>1, <2>2 DEF Chained, Before, serverVars
<1>4. CASE ReceiveEvent
  <2>1. /\ events # <<>> /\ events' = Tail(events) /\ typed' = Tail(typed)
        /\ previousInput' = previousInput /\ written' = written
    BY <1>4 DEF ReceiveEvent, browserVars
  <2>2. ASSUME written = 0 PROVE stringKvar' = Head(typed)
    <3>1. /\ Applicable(stringKvar, Head(events))
          /\ ApplyDiff(stringKvar, Head(events)) = Head(typed)
      BY <2>1, <2>2, ChainArrives
    <3>2. ToBind(Value(Head(typed), "Browser"))
      BY <1>4, <3>1 DEF ReceiveEvent, TypeOK
    <3> QED BY <3>2 DEF ToBind, Value
  <2>3. ASSUME written' = 0
        PROVE  /\ \A i \in 1..Len(events') :
                    \E old \in {Undefined, Before(stringKvar', typed', i)} :
                      events'[i] = GetDiffChanges(old, typed'[i])
               /\ previousInput' \in
                    {Undefined, Before(stringKvar', typed', Len(typed') + 1)}
    <3>1. /\ Len(typed) = Len(events) /\ Len(events) \in Nat \ {0}
          /\ Len(events') = Len(events) - 1 /\ Len(typed') = Len(typed) - 1
          /\ \A i \in 1..Len(events') : events'[i] = events[i + 1] /\ typed'[i] = typed[i + 1]
          /\ Head(typed) = typed[1]
      BY <2>1 DEF TypeOK
    <3>2. stringKvar' = typed[1] /\ written = 0
      BY <2>1, <2>2, <2>3, <3>1
    <3>3. ASSUME NEW i \in 1..Len(events)
          PROVE  Before(stringKvar', typed', i) = Before(stringKvar, typed, i + 1)
      <4>1. CASE i = 1
        BY <4>1, <3>2 DEF Before
      <4>2. CASE i # 1
        <5>1. i - 1 \in 1..Len(events') /\ (i - 1) + 1 = i /\ (i + 1) - 1 = i /\ i + 1 # 1
          BY <4>2, <3>1
        <5> QED BY <5>1, <4>2, <3>1 DEF Before
      <4> QED BY <4>1, <4>2
    <3>4. ASSUME NEW i \in 1..Len(events')
          PROVE  \E old \in {Undefined, Before(stringKvar', typed', i)} :
                   events'[i] = GetDiffChanges(old, typed'[i])
      <4>1. i \in 1..Len(events) /\ i + 1 \in 1..Len(events)
        BY <3>1
      <4>2. PICK old \in {Undefined, Before(stringKvar, typed, i + 1)} :
              events[i + 1] = GetDiffChanges(old, typed[i + 1])
        BY <3>2, <4>1 DEF Chained
      <4> QED BY <4>1, <4>2, <3>1, <3>3
    <3>5. previousInput' \in
            {Undefined, Before(stringKvar', typed', Len(typed') + 1)}
      <4>1. previousInput \in {Undefined, Before(stringKvar, typed, Len(typed) + 1)}
        BY <3>2 DEF Chained
      <4>2. Len(typed') + 1 = Len(typed) /\ Len(typed) \in 1..Len(events)
        BY <3>1
      <4>3. Before(stringKvar', typed', Len(typed)) =
              Before(stringKvar, typed, Len(typed) + 1)
        BY <4>2, <3>3
      <4> QED BY <4>1, <4>2, <4>3, <2>1
    <3> QED BY <3>4, <3>5
  <2> QED BY <2>2, <2>3 DEF Chained
<1>5. CASE UNCHANGED vars
  <2>1. ~ReceiveEvent
    BY <1>5 DEF vars, ReceiveEvent, TypeOK
  <2> QED BY <1>5, <2>1 DEF vars, browserVars, serverVars, Chained, Before
<1> QED BY <1>1, <1>2, <1>3, <1>4, <1>5 DEF Next

\* As long as the application writes nothing, what is typed is what the KVar
\* takes, text by text: the difference is inverse to its application.
THEOREM KeystrokesReachKVar == Spec => KeystrokesArrive
<1>1. Init => Chained
  BY DEF Init, Chained
<1>2. TypeOK /\ Chained /\ [Next]_vars =>
        Chained' /\ (ReceiveEvent /\ written = 0 => stringKvar' = Head(typed))
  BY ChainedStep
<1>3. TypeOK /\ Chained /\ [Next]_vars =>
        [ReceiveEvent /\ written = 0 => stringKvar' = Head(typed)]_vars
  BY <1>2
<1> QED BY <1>1, <1>2, <1>3, TypeCorrect, PTL DEF Spec, KeystrokesArrive
=============================================================================
