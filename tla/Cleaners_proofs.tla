--------------------------- MODULE Cleaners_proofs ---------------------------
(***************************************************************************)
(* Proofs about Cleaners, for any number of objects, nested in any way.    *)
(* The theorems assume that no cleaner of the application has a fragment   *)
(* drawn again that is just being cleaned up, or one around that           *)
(* (~CleanersRedraw): without it OneRoundIsShown is not true.  Cleaners    *)
(* and blocks may throw.                                                   *)
(***************************************************************************)
EXTENDS Cleaners, FiniteSetTheorems, SequenceTheorems, WellFoundedInduction, TLAPS

Creators == All("creator")
Elements == All("element")
Fragments == All("fragment")
Resources == All("resource")

(***************************************************************************)
(* The inductive invariant.                                                *)
(***************************************************************************)
Records == [kind : Kinds, by : Nat, under : SUBSET Nat, in : Nat, inside : SUBSET Nat]

\* An object was made by a creator made before it, and lies in objects made
\* before it.  The creator made in an element, or for a fragment, has the same
\* parent as that, so that both are beneath the same creators.
MadeBy(n) ==
  /\ objects[n].by \in Creators \cup {None}
  /\ objects[n].by = None <=> n = Root
  /\ objects[n].under = Above(objects[n].by)
  /\ objects[n].under \subseteq Creators
  /\ \A c \in objects[n].under : c < n /\ objects[c].under \subseteq objects[n].under
LiesIn(n) ==
  /\ objects[n].inside \subseteq Elements \cup Fragments
  /\ \A m \in objects[n].inside : m < n /\ objects[m].inside \subseteq objects[n].inside
Belongs(n) ==
  /\ n \in Creators \ {Root} =>
       /\ objects[n].in \in Elements \cup Fragments
       /\ objects[n].inside = Around(objects[n].in)
       /\ objects[objects[n].in].by = objects[n].by
  /\ n \in Elements \cup Fragments /\ objects[objects[n].by].in \in Elements =>
       objects[objects[n].by].in \in objects[n].inside
Shape ==
  /\ objects \in Seq(Records) /\ Len(objects) >= 1
  /\ objects[Root] = Object("creator", None, None, {})
  /\ \A n \in DOMAIN objects : MadeBy(n) /\ LiesIn(n) /\ Belongs(n)

\* Cleaners of the right kind; one that cleans up a fragment is registered with
\* the creators above it.
Cleans(c, cleaner) ==
  \/ cleaner.do = "close" /\ cleaner.of \in Resources
  \/ cleaner.do = "delete" /\ cleaner.of \in Elements \cup Fragments
  \/ cleaner.do = "clean" /\ cleaner.of \in Fragments /\ c \in objects[cleaner.of].under
Registrable == [do : Deeds, of : Nat]

Typed ==
  /\ DOMAIN queue = Creators /\ DOMAIN promised = Creators
  /\ \A c \in Creators :
       /\ queue[c] \in Seq(Registrable) /\ promised[c] \subseteq Registrable
       /\ \A cleaner \in ToSet(queue[c]) \cup promised[c] : Cleans(c, cleaner)
  /\ cleanedUp \subseteq Creators /\ aborted \subseteq cleanedUp
  /\ DOMAIN current = Fragments
  /\ \A f \in Fragments :
       current[f] # None => current[f] \in Creators /\ objects[current[f]].in = f
  /\ listening \subseteq Fragments
  /\ page \subseteq Elements \cup Fragments

Frames == [do : FrameKinds, of : Nat, next : Nat]
Is(i, do) == i \in DOMAIN stack /\ stack[i].do = do

\* Each creator is cleaned up by one call at most, and a fragment drawn again by
\* one, which no cleanup above it on the stack is to disturb: none of a creator
\* that the fragment is beneath.
Sits(i) ==
  /\ stack[i].do = "cleanup" =>
       stack[i].of \in cleanedUp /\ stack[i].next \in 0..Len(queue[stack[i].of])
  /\ stack[i].do = "user" => Is(i - 1, "cleanup")
  /\ stack[i].do \in {"unlisten", "redraw", "block", "first"} => stack[i].of \in Fragments
  /\ stack[i].do \in {"unlisten", "redraw"} => current[stack[i].of] = None
  /\ stack[i].do = "redraw" => stack[i].of \in listening
Fits(i, j) ==
  /\ stack[i].do = "cleanup" /\ stack[j].do = "cleanup" => stack[i].of # stack[j].of \/ i = j
  /\ stack[i].do = "redraw" /\ stack[j].do = "redraw" => stack[i].of # stack[j].of \/ i = j
  /\ stack[i].do = "redraw" /\ stack[j].do = "unlisten" => stack[i].of # stack[j].of
  /\ stack[i].do = "redraw" /\ stack[j].do = "cleanup" /\ i < j =>
       stack[j].of \notin objects[stack[i].of].under
Stacked ==
  /\ stack \in Seq(Frames)
  /\ \A i \in DOMAIN stack : Sits(i)
  /\ \A i, j \in DOMAIN stack : Fits(i, j)

\* What is promised is done, about to be done, or in the rest of the queue.
ToBeDone(c, cleaner) ==
  \E i \in DOMAIN stack :
    /\ stack[i].do = "cleanup" /\ stack[i].of = c /\ stack[i].next # 0
    /\ \E j \in stack[i].next..Len(queue[c]) : queue[c][j] = cleaner
Kept ==
  \A c \in cleanedUp \ aborted : \A cleaner \in promised[c] :
    Done(cleaner) \/ Unlistening(cleaner) \/ ToBeDone(c, cleaner)

\* What is made is registered, with the creators it is to be.
Registered(c, cleaner) ==
  /\ c \notin cleanedUp => cleaner \in ToSet(queue[c])
  /\ c \in cleanedUp /\ ~late => cleaner \in promised[c]
BeingRendered(f) == \E i \in DOMAIN stack : stack[i].do = "first" /\ stack[i].of = f
AllRegistered ==
  /\ \A n \in Resources : \A c \in objects[n].under : Registered(c, Cleaner("close", n))
  /\ \A n \in Elements \cup Fragments : Registered(objects[n].by, Cleaner("delete", n))
  /\ \A f \in Fragments : ~BeingRendered(f) /\ ~late =>
       \A c \in objects[f].under : Registered(c, Cleaner("clean", f))

OneRound ==
  \A f \in Fragments : \A c \in Creators : objects[c].in = f => c \in cleanedUp \cup {current[f]}

\* What is on the page lies in elements that are on the page.
Tree == \A n \in page : objects[n].inside \cap Elements \subseteq page

IInv == Shape /\ Typed /\ Stacked /\ Kept /\ AllRegistered /\ OneRound /\ Tree

(***************************************************************************)
(* Sets of numbers and sequences.                                          *)
(***************************************************************************)
\* A set of numbers up to k has a maximum.
LEMMA MaxOf ==
  ASSUME NEW k \in Nat, NEW S \in SUBSET (0..k), S # {}
  PROVE  Max(S) \in S /\ \A n \in S : n <= Max(S)
<1> DEFINE T == {k - n : n \in S}
           R == OpToRel(<, Nat)
<1>1. T \subseteq Nat /\ T # {}
  <2>1. \A n \in S : k - n \in Nat
    OBVIOUS
  <2>2. PICK n \in S : TRUE
    OBVIOUS
  <2>3. k - n \in T
    OBVIOUS
  <2> QED BY <2>1, <2>3
<1>2. IsWellFoundedOn(R, Nat)
  BY NatLessThanWellFounded
<1> HIDE DEF T, R
<1>3. PICK x \in T : \A y \in T : <<y, x>> \notin R
  BY <1>1, <1>2, WFMin
<1>4. PICK n \in S : x = k - n
  BY <1>3 DEF T
<1>5. ASSUME NEW m \in S PROVE n >= m
  <2>1. k - m \in T /\ k - m \in Nat /\ x \in Nat
    BY <1>1, <1>3 DEF T
  <2>2. ~(k - m < x)
    BY <2>1, <1>3 DEF R, OpToRel
  <2> QED BY <2>1, <2>2, <1>4
<1>6. Max(S) \in S /\ \A m \in S : Max(S) >= m
  BY <1>4, <1>5 DEF Max
<1> QED BY <1>6

\* A set of numbers has a least one.
LEMMA LeastOf ==
  ASSUME NEW S \in SUBSET Nat, S # {}
  PROVE  \E n \in S : \A m \in S : n <= m
<1> DEFINE R == OpToRel(<, Nat)
<1>1. IsWellFoundedOn(R, Nat)
  BY NatLessThanWellFounded
<1> HIDE DEF R
<1>2. PICK n \in S : \A m \in S : <<m, n>> \notin R
  BY <1>1, WFMin
<1>3. ASSUME NEW m \in S PROVE n <= m
  <2>1. m \in Nat /\ n \in Nat /\ <<m, n>> \notin R
    BY <1>2
  <2>2. ~(m < n)
    BY <2>1 DEF R, OpToRel
  <2> QED BY <2>1, <2>2
<1> QED BY <1>3

\* The call on top of a stack, and what is beneath it.
LEMMA Beneath ==
  ASSUME NEW S, NEW s \in Seq(S), s # <<>>
  PROVE  /\ Len(s) \in Nat \ {0} /\ DOMAIN s = 1..Len(s)
         /\ Last(s) = s[Len(s)] /\ Last(s) \in S
         /\ Front(s) \in Seq(S) /\ Len(Front(s)) = Len(s) - 1
         /\ \A i \in 1..(Len(s) - 1) : Front(s)[i] = s[i]
<1>1. Len(s) \in Nat \ {0} /\ DOMAIN s = 1..Len(s)
  BY EmptySeq
<1>2. Last(s) = s[Len(s)] /\ Last(s) \in S
  BY <1>1 DEF Last
<1>3. Front(s) = SubSeq(s, 1, Len(s) - 1)
  BY DEF Front
<1>4. SubSeq(s, 1, Len(s) - 1) \in Seq(S) /\ Len(SubSeq(s, 1, Len(s) - 1)) = Len(s) - 1
  BY <1>1
<1>5. \A i \in 1..(Len(s) - 1) : SubSeq(s, 1, Len(s) - 1)[i] = s[i]
  BY <1>1
<1> QED BY <1>1, <1>2, <1>3, <1>4, <1>5

\* A call is made on top of a stack.
LEMMA Above1 ==
  ASSUME NEW S, NEW s \in Seq(S), NEW e \in S
  PROVE  /\ Append(s, e) \in Seq(S) /\ Len(Append(s, e)) = Len(s) + 1
         /\ DOMAIN Append(s, e) = 1..(Len(s) + 1)
         /\ \A i \in 1..Len(s) : Append(s, e)[i] = s[i]
         /\ Append(s, e)[Len(s) + 1] = e
<1>1. Append(s, e) \in Seq(S) /\ Len(Append(s, e)) = Len(s) + 1 /\ Len(s) \in Nat
  OBVIOUS
<1>2. DOMAIN Append(s, e) = 1..(Len(s) + 1)
  BY <1>1
<1>3. \A i \in 1..Len(s) : Append(s, e)[i] = s[i]
  OBVIOUS
<1>4. Append(s, e)[Len(s) + 1] = e
  OBVIOUS
<1> QED BY <1>1, <1>2, <1>3, <1>4

\* The call on top of a stack is changed.
LEMMA Changed ==
  ASSUME NEW S, NEW s \in Seq(S), s # <<>>, NEW e \in S
  PROVE  /\ Append(Front(s), e) \in Seq(S) /\ Len(Append(Front(s), e)) = Len(s)
         /\ DOMAIN Append(Front(s), e) = 1..Len(s)
         /\ \A i \in 1..(Len(s) - 1) : Append(Front(s), e)[i] = s[i]
         /\ Append(Front(s), e)[Len(s)] = e
<1>1. /\ Front(s) \in Seq(S) /\ Len(Front(s)) = Len(s) - 1 /\ Len(s) \in Nat \ {0}
      /\ \A i \in 1..(Len(s) - 1) : Front(s)[i] = s[i]
  BY Beneath
<1> QED BY <1>1

\* The elements of a sequence that one is appended to.
LEMMA Appended ==
  ASSUME NEW S, NEW s \in Seq(S), NEW e \in S
  PROVE  /\ ToSet(s) \subseteq ToSet(Append(s, e)) /\ e \in ToSet(Append(s, e))
         /\ ToSet(Append(s, e)) = ToSet(s) \cup {e}
<1>1. ToSet(Append(s, e)) = {Append(s, e)[i] : i \in 1..(Len(s) + 1)}
  BY DEF ToSet
<1>2. ToSet(s) = {s[i] : i \in 1..Len(s)}
  BY DEF ToSet
<1>3. ASSUME NEW x \in ToSet(s) PROVE x \in ToSet(Append(s, e))
  <2>1. PICK i \in 1..Len(s) : x = s[i]
    BY <1>2
  <2>2. i \in 1..(Len(s) + 1) /\ Append(s, e)[i] = x
    BY <2>1
  <2> QED BY <2>2, <1>1
<1>4. e \in ToSet(Append(s, e))
  <2>1. Len(s) + 1 \in 1..(Len(s) + 1) /\ Append(s, e)[Len(s) + 1] = e
    OBVIOUS
  <2> QED BY <2>1, <1>1
<1>5. ASSUME NEW x \in ToSet(Append(s, e)) PROVE x \in ToSet(s) \cup {e}
  <2>1. PICK i \in 1..(Len(s) + 1) : x = Append(s, e)[i]
    BY <1>1
  <2>2. CASE i = Len(s) + 1
    BY <2>1, <2>2
  <2>3. CASE i # Len(s) + 1
    BY <2>1, <2>3, <1>2
  <2> QED BY <2>2, <2>3
<1> QED BY <1>3, <1>4, <1>5

(***************************************************************************)
(* Making objects.                                                         *)
(***************************************************************************)
\* What was made stays as it is: nothing is known of the rest here.
Stays == /\ DOMAIN objects \subseteq DOMAIN objects'
         /\ \A n \in DOMAIN objects : objects'[n] = objects[n]

\* What there is has a number up to that of the last one.
LEMMA Numbers ==
  ASSUME Shape
  PROVE  /\ Len(objects) \in Nat \ {0} /\ DOMAIN objects = 1..Len(objects)
         /\ Root \in Creators /\ Made \in Nat
         /\ \A n \in DOMAIN objects : objects[n] \in Records /\ n \in Nat \ {0}
         /\ \A n \in DOMAIN objects : n \in Creators \/ n \in Elements \/ n \in Fragments
                                                     \/ n \in Resources
<1>1. Len(objects) \in Nat \ {0} /\ DOMAIN objects = 1..Len(objects)
  BY DEF Shape
<1>2. \A n \in DOMAIN objects : objects[n] \in Records
  BY <1>1 DEF Shape
<1>3. Root \in Creators
  BY <1>1 DEF Shape, Object, Creators, All, Root
<1>4. \A n \in DOMAIN objects : objects[n].kind \in Kinds
  BY <1>2 DEF Records
<1> QED BY <1>1, <1>2, <1>3, <1>4 DEF Made, Kinds, Creators, Elements, Fragments, Resources, All

LEMMA KindsDiffer ==
  /\ Creators \cap Elements = {} /\ Creators \cap Fragments = {} /\ Creators \cap Resources = {}
  /\ Elements \cap Fragments = {} /\ Elements \cap Resources = {} /\ Fragments \cap Resources = {}
  /\ Creators \cup Elements \cup Fragments \cup Resources \subseteq DOMAIN objects
BY DEF Creators, Elements, Fragments, Resources, All

\* One object is made.
LEMMA MadeOne ==
  ASSUME Shape, NEW o \in Records, objects' = Append(objects, o)
  PROVE  /\ Stays /\ objects' \in Seq(Records) /\ objects'[Made] = o
         /\ Len(objects') = Made /\ DOMAIN objects' = DOMAIN objects \cup {Made}
         /\ Made \notin DOMAIN objects
<1>1. objects \in Seq(Records) /\ Len(objects) \in Nat
  BY DEF Shape
<1>2. /\ objects' \in Seq(Records) /\ Len(objects') = Len(objects) + 1
      /\ DOMAIN objects' = 1..(Len(objects) + 1)
      /\ \A i \in 1..Len(objects) : objects'[i] = objects[i]
      /\ objects'[Len(objects) + 1] = o
  BY <1>1, Above1
<1>3. DOMAIN objects = 1..Len(objects)
  BY <1>1
<1>4. DOMAIN objects' = DOMAIN objects \cup {Made} /\ Made \notin DOMAIN objects
  BY <1>1, <1>2, <1>3 DEF Made
<1> QED BY <1>1, <1>2, <1>3, <1>4 DEF Made, Stays

\* What was made stays what it was.
LEMMA KindsStay ==
  ASSUME Shape, Stays
  PROVE  /\ Creators \subseteq Creators' /\ Elements \subseteq Elements'
         /\ Fragments \subseteq Fragments' /\ Resources \subseteq Resources'
         /\ Creators' \cap DOMAIN objects = Creators
         /\ Elements' \cap DOMAIN objects = Elements
         /\ Fragments' \cap DOMAIN objects = Fragments
         /\ Resources' \cap DOMAIN objects = Resources
         /\ \A n \in DOMAIN objects \cup {None} : Above(n)' = Above(n) /\ Around(n)' = Around(n)
<1>1. \A kind : All(kind) \subseteq All(kind)' /\ All(kind)' \cap DOMAIN objects = All(kind)
  BY DEF All, Stays
<1>2. \A n \in DOMAIN objects \cup {None} : Above(n)' = Above(n) /\ Around(n)' = Around(n)
  BY DEF Above, Around, Stays
<1> QED BY <1>1, <1>2 DEF Creators, Elements, Fragments, Resources

\* An object that was made well stays so.
LEMMA OldObjects ==
  ASSUME Shape, Stays, objects' \in Seq(Records), NEW n \in DOMAIN objects
  PROVE  MadeBy(n)' /\ LiesIn(n)' /\ Belongs(n)'
<1>1. MadeBy(n) /\ LiesIn(n) /\ Belongs(n)
  BY DEF Shape
<1>2. objects'[n] = objects[n] /\ n \in DOMAIN objects'
  BY DEF Stays
<1>3. \A m \in Creators \cup Elements \cup Fragments : objects'[m] = objects[m]
  BY KindsDiffer DEF Stays
<1>4. MadeBy(n)'
  <2>1. objects[n].by \in DOMAIN objects \cup {None}
    BY <1>1, KindsDiffer DEF MadeBy
  <2>2. Above(objects[n].by)' = Above(objects[n].by)
    BY <2>1, KindsStay, <1>2
  <2> QED BY <1>1, <1>2, <1>3, <2>2, KindsStay DEF MadeBy
<1>5. LiesIn(n)'
  BY <1>1, <1>2, <1>3, KindsStay DEF LiesIn
<1>6. Belongs(n)'
  <2>1. ASSUME n \in Creators' \ {Root}
        PROVE  /\ objects'[n].in \in Elements' \cup Fragments'
               /\ objects'[n].inside = Around(objects[n].in)'
               /\ objects'[objects'[n].in].by = objects'[n].by
    <3>1. n \in Creators \ {Root}
      BY <2>1, KindsStay
    <3>2. objects[n].in \in Elements \cup Fragments /\ objects[n].in \in DOMAIN objects
      BY <3>1, <1>1, KindsDiffer DEF Belongs
    <3>3. Around(objects[n].in)' = Around(objects[n].in)
      BY <3>2, KindsStay, <1>2
    <3>4. /\ objects[n].inside = Around(objects[n].in)
          /\ objects[objects[n].in].by = objects[n].by
      BY <3>1, <1>1 DEF Belongs
    <3>5. objects'[objects[n].in] = objects[objects[n].in]
      BY <3>2, <1>3
    <3>6. objects[n].in \in Elements' \cup Fragments'
      BY <3>2, KindsStay
    <3> QED BY <3>3, <3>4, <3>5, <3>6, <1>2
  <2>2. ASSUME n \in Elements' \cup Fragments', objects'[objects'[n].by].in \in Elements'
        PROVE  objects'[objects'[n].by].in \in objects'[n].inside
    <3>1. n \in Elements \cup Fragments
      BY <2>2, KindsStay
    <3>2. n # Root
      BY <3>1, Numbers, KindsDiffer
    <3>3. objects[n].by \in Creators
      BY <3>2, <1>1 DEF MadeBy
    <3>4. objects'[objects'[n].by].in = objects[objects[n].by].in
      BY <3>3, <1>2, <1>3
    <3>5. objects[objects[n].by].in \in DOMAIN objects \cup {None}
      <4>1. CASE objects[n].by = Root
        BY <4>1 DEF Shape, Object
      <4>2. CASE objects[n].by # Root
        BY <4>2, <3>3, KindsDiffer DEF Shape, Belongs
      <4> QED BY <4>1, <4>2
    <3>6. None \notin DOMAIN objects'
      BY DEF None
    <3>7. objects[objects[n].by].in \in Elements'
      BY <2>2, <3>4
    <3>8. objects[objects[n].by].in \in Elements
      BY <3>5, <3>6, <3>7, KindsDiffer, KindsStay DEF Elements, All
    <3>9. objects[objects[n].by].in \in objects[n].inside
      BY <3>1, <3>8, <1>1 DEF Belongs
    <3> QED BY <3>4, <3>9, <1>2
  <2> QED BY <2>1, <2>2 DEF Belongs
<1> QED BY <1>4, <1>5, <1>6

\* What is above a creator, and around a thing.
LEMMA AboveFacts ==
  ASSUME Shape, NEW c \in Creators
  PROVE  /\ c \in Above(c) /\ Above(c) \subseteq Creators
         /\ \A a \in Above(c) : a <= c /\ objects[a].under \subseteq Above(c)
<1>1. MadeBy(c) /\ c \in Nat \ {0}
  BY Numbers, KindsDiffer DEF Shape
<1>2. Above(c) = {c} \cup objects[c].under
  BY <1>1 DEF Above, None
<1>3. \A a \in objects[c].under : a \in Nat
  BY <1>1, Numbers, KindsDiffer DEF MadeBy
<1> QED BY <1>1, <1>2, <1>3 DEF MadeBy

LEMMA AroundFacts ==
  ASSUME Shape, NEW p \in Elements \cup Fragments \cup {None}
  PROVE  /\ Around(p) \subseteq Elements \cup Fragments
         /\ \A m \in Around(p) : m < Made /\ objects[m].inside \subseteq Around(p)
         /\ p # None => p \in Around(p)
<1>1. CASE p = None
  BY <1>1 DEF Around
<1>2. CASE p # None
  <2>1. LiesIn(p) /\ p \in 1..Len(objects) /\ Len(objects) \in Nat
    BY <1>2, Numbers, KindsDiffer DEF Shape
  <2>2. Around(p) = {p} \cup objects[p].inside
    BY <1>2 DEF Around
  <2>3. \A m \in objects[p].inside : m \in 1..Len(objects)
    BY <2>1, Numbers, KindsDiffer DEF LiesIn
  <2> QED BY <1>2, <2>1, <2>2, <2>3 DEF LiesIn, Made
<1> QED BY <1>1, <1>2

\* What a creator makes is placed in the element it is for, and in elements that
\* are on the page, if it is found.
LEMMA PlaceFacts ==
  ASSUME Shape, page \subseteq Elements \cup Fragments, Tree, NEW c \in Creators
  PROVE  /\ Place(c) \in Elements \cup Fragments \cup {None}
         /\ objects[c].in \in Elements => objects[c].in \in Around(Place(c))
         /\ HostOf(c) \in page \cup {None} => Around(Place(c)) \cap Elements \subseteq page
<1> DEFINE e == objects[c].inside \cap Elements
<1>1. LiesIn(c) /\ Belongs(c) /\ c \in DOMAIN objects
  BY KindsDiffer DEF Shape
<1>2. CASE objects[c].in \in page
  <2>1. Place(c) = objects[c].in
    BY <1>2 DEF Place
  <2>2. objects[c].in \in Elements \cup Fragments /\ objects[c].in # None
    BY <1>2, Numbers, KindsDiffer DEF None
  <2>3. Around(objects[c].in) = {objects[c].in} \cup objects[objects[c].in].inside
    BY <2>2 DEF Around
  <2> QED BY <1>2, <2>1, <2>2, <2>3 DEF Tree
<1>3. CASE objects[c].in \notin page
  <2>1. Place(c) = HostOf(c)
    BY <1>3 DEF Place
  <2>2. CASE e = {}
    <3>1. HostOf(c) = None
      BY <2>2 DEF HostOf, Elements
    <3>2. objects[c].in \notin Elements
      <4>1. CASE c = Root
        <5>1. objects[c].in = 0
          BY <4>1 DEF Shape, Object, None
        <5> QED BY <5>1, Numbers, KindsDiffer
      <4>2. CASE c # Root
        <5>1. objects[c].inside = Around(objects[c].in)
          BY <4>2, <1>1 DEF Belongs
        <5>2. ASSUME objects[c].in \in Elements PROVE FALSE
          <6>1. objects[c].in # None
            BY <5>2, Numbers, KindsDiffer DEF None
          <6> QED BY <5>1, <5>2, <6>1, <2>2 DEF Around
        <5> QED BY <5>2
      <4> QED BY <4>1, <4>2
    <3> QED BY <2>1, <3>1, <3>2 DEF Around
  <2>3. CASE e # {}
    <3>1. e \in SUBSET (0..Len(objects)) /\ Len(objects) \in Nat
      BY Numbers, KindsDiffer
    <3>2. Max(e) \in e /\ \A n \in e : n <= Max(e)
      BY <3>1, <2>3, MaxOf
    <3>3. HostOf(c) = Max(e)
      BY <2>3 DEF HostOf, Elements
    <3>4. HostOf(c) \in Elements /\ HostOf(c) # None
      BY <3>2, <3>3, Numbers, KindsDiffer DEF None
    <3>5. ASSUME objects[c].in \in Elements PROVE objects[c].in = HostOf(c)
      <4>0. objects[c].in \in Nat \ {0}
        BY <3>5, Numbers, KindsDiffer
      <4>1. c # Root
        BY <4>0 DEF Shape, Object, None
      <4>2. objects[c].inside = {objects[c].in} \cup objects[objects[c].in].inside
        BY <4>0, <4>1, <1>1 DEF Belongs, Around, None
      <4>3. LiesIn(objects[c].in)
        BY <3>5, KindsDiffer DEF Shape
      <4>4. \A m \in objects[objects[c].in].inside : m < objects[c].in
        BY <4>3 DEF LiesIn
      <4>5. HostOf(c) = objects[c].in \/ HostOf(c) \in objects[objects[c].in].inside
        BY <3>2, <3>3, <4>2
      <4>6. objects[c].in <= HostOf(c)
        BY <3>2, <3>3, <3>5, <4>2
      <4>7. HostOf(c) \in Nat
        BY <3>4, Numbers, KindsDiffer
      <4> QED BY <4>0, <4>4, <4>5, <4>6, <4>7
    <3>6. Around(HostOf(c)) = {HostOf(c)} \cup objects[HostOf(c)].inside
      BY <3>4 DEF Around
    <3>7. HostOf(c) \in page \cup {None} => Around(HostOf(c)) \cap Elements \subseteq page
      BY <3>4, <3>6 DEF Tree
    <3> QED BY <2>1, <3>4, <3>5, <3>6, <3>7
  <2> QED BY <2>2, <2>3
<1> QED BY <1>2, <1>3

\* A new object is made by a creator there is, and lies in what there is.
LEMMA NewMadeBy ==
  ASSUME Shape, Stays, objects' \in Seq(Records),
         NEW n \in DOMAIN objects' \ DOMAIN objects, NEW c \in Creators,
         objects'[n].by = c, objects'[n].under = Above(c)
  PROVE  MadeBy(n)'
<1>1. n \in Nat /\ n > Len(objects) /\ n # Root /\ Len(objects) \in Nat
  BY Numbers DEF Root
<1>2. c \in Creators' /\ c # None /\ c \in 1..Len(objects)
  BY KindsStay, Numbers, KindsDiffer DEF None
<1>3. Above(c)' = Above(c) /\ Above(c) \subseteq Creators'
  BY KindsStay, KindsDiffer, AboveFacts
<1>4. ASSUME NEW a \in Above(c)
      PROVE  a < n /\ objects'[a].under \subseteq Above(c)
  <2>1. a \in DOMAIN objects /\ a \in 1..Len(objects)
    BY AboveFacts, KindsDiffer, Numbers
  <2>2. objects'[a] = objects[a]
    BY <2>1 DEF Stays
  <2> QED BY <1>1, <2>1, <2>2, AboveFacts
<1> QED BY <1>1, <1>2, <1>3, <1>4 DEF MadeBy

LEMMA NewLiesIn ==
  ASSUME Shape, Stays, objects' \in Seq(Records),
         NEW n \in DOMAIN objects' \ DOMAIN objects,
         NEW p \in Elements \cup Fragments \cup {None}, objects'[n].inside = Around(p)
  PROVE  LiesIn(n)'
<1>1. n \in Nat /\ n > Len(objects) /\ Len(objects) \in Nat
  BY Numbers
<1>2. Around(p) \subseteq Elements' \cup Fragments'
  BY AroundFacts, KindsStay
<1>3. ASSUME NEW m \in Around(p)
      PROVE  m < n /\ objects'[m].inside \subseteq Around(p)
  <2>1. m \in DOMAIN objects /\ m \in 1..Len(objects)
    BY AroundFacts, KindsDiffer, Numbers
  <2>2. objects'[m] = objects[m]
    BY <2>1 DEF Stays
  <2> QED BY <1>1, <2>1, <2>2, AroundFacts
<1> QED BY <1>2, <1>3 DEF LiesIn

\* All objects are made well if the new ones are.
LEMMA NewShape ==
  ASSUME Shape, Stays, objects' \in Seq(Records),
         \A n \in DOMAIN objects' \ DOMAIN objects :
           MadeBy(n)' /\ LiesIn(n)' /\ Belongs(n)'
  PROVE  Shape'
<1>1. \A n \in DOMAIN objects' : MadeBy(n)' /\ LiesIn(n)' /\ Belongs(n)'
  BY OldObjects
<1>2. Root \in DOMAIN objects /\ Len(objects') \in Nat /\ DOMAIN objects' = 1..Len(objects')
  BY Numbers, KindsDiffer
<1>3. Root \in 1..Len(objects') /\ objects'[Root] = objects[Root]
  BY <1>2 DEF Stays
<1>4. Object("creator", None, None, {})' = Object("creator", None, None, {})
  BY DEF Object, Above
<1>5. Len(objects') >= 1
  BY <1>2, <1>3 DEF Root
<1> QED BY <1>1, <1>3, <1>4, <1>5 DEF Shape

\* The kinds of what there is after objects were made.
LEMMA NewKinds ==
  ASSUME Shape, Stays, NEW kind, NEW N, DOMAIN objects' = DOMAIN objects \cup N,
         N \cap DOMAIN objects = {}
  PROVE  All(kind)' = All(kind) \cup {n \in N : objects'[n].kind = kind}
BY DEF All, Stays

\* One object is made, of any kind.
LEMMA MakeOne ==
  ASSUME Shape, NEW kind \in Kinds, NEW c \in Creators, NEW in \in Nat,
         NEW p \in Elements \cup Fragments \cup {None},
         objects' = Append(objects, Object(kind, c, in, Around(p))),
         kind = "creator" => p = in /\ p # None /\ objects[p].by = c,
         kind \in {"element", "fragment"} /\ objects[c].in \in Elements =>
           objects[c].in \in Around(p)
  PROVE  /\ Shape' /\ Stays
         /\ DOMAIN objects' = DOMAIN objects \cup {Made} /\ Made \notin DOMAIN objects
         /\ objects'[Made] = Object(kind, c, in, Around(p))
         /\ Creators' = Creators \cup (IF kind = "creator" THEN {Made} ELSE {})
         /\ Elements' = Elements \cup (IF kind = "element" THEN {Made} ELSE {})
         /\ Fragments' = Fragments \cup (IF kind = "fragment" THEN {Made} ELSE {})
         /\ Resources' = Resources \cup (IF kind = "resource" THEN {Made} ELSE {})
<1> DEFINE o == Object(kind, c, in, Around(p))
<1>1. Above(c) \subseteq Nat /\ Around(p) \subseteq Nat /\ c \in Nat
  BY AboveFacts, AroundFacts, Numbers, KindsDiffer
<1>2. o \in Records
  BY <1>1 DEF Object, Records
<1>3. /\ o.kind = kind /\ o.by = c /\ o.under = Above(c) /\ o.in = in
      /\ o.inside = Around(p)
  BY DEF Object
<1> HIDE DEF o
<1>0. PICK m : m = Made
  OBVIOUS
<1>4. /\ Stays /\ objects' \in Seq(Records) /\ objects'[m] = o
      /\ DOMAIN objects' = DOMAIN objects \cup {m} /\ m \notin DOMAIN objects
  BY <1>0, <1>2, MadeOne DEF o
<1>5. ASSUME NEW k PROVE All(k)' = All(k) \cup {n \in {m} : objects'[n].kind = k}
  <2>1. DOMAIN objects' = DOMAIN objects \cup {m} /\ {m} \cap DOMAIN objects = {}
    BY <1>4
  <2> QED BY <1>4, <2>1, NewKinds
<1>6. /\ Creators' = Creators \cup (IF kind = "creator" THEN {m} ELSE {})
      /\ Elements' = Elements \cup (IF kind = "element" THEN {m} ELSE {})
      /\ Fragments' = Fragments \cup (IF kind = "fragment" THEN {m} ELSE {})
      /\ Resources' = Resources \cup (IF kind = "resource" THEN {m} ELSE {})
  <2>1. \A k : All(k)' = All(k) \cup (IF kind = k THEN {m} ELSE {})
    BY <1>3, <1>4, <1>5
  <2> QED BY <2>1 DEF Creators, Elements, Fragments, Resources
<1>7. MadeBy(m)' /\ LiesIn(m)'
  BY <1>3, <1>4, NewMadeBy, NewLiesIn
<1>8. Belongs(m)'
  <2>1. ASSUME kind = "creator"
        PROVE  /\ in \in Elements' \cup Fragments' /\ Around(p) = Around(in)'
               /\ objects'[in].by = c
    <3>1. p = in /\ in \in Elements \cup Fragments /\ objects[in].by = c
      BY <2>1
    <3>2. in \in DOMAIN objects
      BY <3>1, KindsDiffer
    <3> QED BY <3>1, <3>2, <1>4, KindsStay DEF Stays
  <2>2. ASSUME kind \in {"element", "fragment"}, objects'[c].in \in Elements'
        PROVE  objects'[c].in \in Around(p)
    <3>1. objects'[c] = objects[c] /\ c \in DOMAIN objects
      BY <1>4, KindsDiffer DEF Stays
    <3>2. objects[c].in \in DOMAIN objects \cup {None}
      <4>1. Belongs(c) /\ objects[Root].in = None
        BY <3>1 DEF Shape, Object
      <4> QED BY <4>1, KindsDiffer DEF Belongs
    <3>3. None \notin Elements'
      BY <1>4 DEF Elements, All, None
    <3>4. objects[c].in \in Elements
      BY <2>2, <3>1, <3>2, <3>3, <1>4, KindsStay
    <3> QED BY <2>2, <3>1, <3>4
  <2>3. m \in Creators' => kind = "creator"
    BY <1>6, KindsDiffer, <1>4
  <2>4. m \in Elements' \cup Fragments' => kind \in {"element", "fragment"}
    BY <1>6, KindsDiffer, <1>4
  <2>5. /\ objects'[m].in = in /\ objects'[m].by = c
        /\ objects'[m].inside = Around(p)
    BY <1>3, <1>4
  <2>6. /\ m \in Creators' \ {Root} =>
             /\ objects'[m].in \in Elements' \cup Fragments'
             /\ objects'[m].inside = Around(in)'
             /\ objects'[objects'[m].in].by = objects'[m].by
        /\ m \in Elements' \cup Fragments' /\ objects'[objects'[m].by].in \in Elements' =>
             objects'[objects'[m].by].in \in objects'[m].inside
    BY <2>1, <2>2, <2>3, <2>4, <2>5
  <2>7. Around(objects[m].in)' = Around(in)'
    BY <2>5 DEF Around
  <2> QED BY <2>6, <2>7 DEF Belongs
<1>9. Shape'
  BY <1>4, <1>7, <1>8, NewShape
<1> QED BY <1>0, <1>4, <1>6, <1>9 DEF o

\* A fragment is made, and the creator of its first round.
LEMMA MakeTwo ==
  ASSUME Shape, page \subseteq Elements \cup Fragments, Tree, NEW c \in Creators,
         objects' = objects \o <<Object("fragment", c, Place(c), Around(Place(c))),
                                 Object("creator", c, Made, {Made} \cup Around(Place(c)))>>
  PROVE  /\ Shape' /\ Stays
         /\ DOMAIN objects' = DOMAIN objects \cup {Made, Made + 1}
         /\ {Made, Made + 1} \cap DOMAIN objects = {}
         /\ Len(objects') = Made + 1
         /\ objects'[Made] = Object("fragment", c, Place(c), Around(Place(c)))
         /\ objects'[Made + 1] = Object("creator", c, Made, {Made} \cup Around(Place(c)))
         /\ Creators' = Creators \cup {Made + 1} /\ Fragments' = Fragments \cup {Made}
         /\ Elements' = Elements /\ Resources' = Resources
<1>0. PICK f, k, p : f = Made /\ k = Made + 1 /\ p = Place(c)
  OBVIOUS
<1> DEFINE o == Object("fragment", c, p, Around(p))
           r == Object("creator", c, f, {f} \cup Around(p))
<1>1. /\ p \in Elements \cup Fragments \cup {None}
      /\ objects[c].in \in Elements => objects[c].in \in Around(p)
  BY <1>0, PlaceFacts
<1>2. /\ Above(c) \subseteq Nat /\ Around(p) \subseteq Nat /\ c \in Nat /\ p \in Nat
      /\ f \in Nat /\ k = f + 1 /\ f = Len(objects) + 1 /\ Len(objects) \in Nat
  BY <1>0, <1>1, AboveFacts, AroundFacts, Numbers, KindsDiffer DEF Made, None
<1>3. o \in Records /\ r \in Records
  BY <1>2 DEF Object, Records, Kinds
<1>4. /\ o.kind = "fragment" /\ o.by = c /\ o.under = Above(c) /\ o.inside = Around(p)
      /\ r.kind = "creator" /\ r.by = c /\ r.under = Above(c) /\ r.in = f
      /\ r.inside = {f} \cup Around(p)
  BY DEF Object
<1>5. objects' = objects \o <<o, r>>
  BY <1>0
<1> HIDE DEF o, r
<1>6. /\ objects' \in Seq(Records) /\ Len(objects') = k /\ DOMAIN objects' = 1..k
      /\ \A i \in 1..Len(objects) : objects'[i] = objects[i]
      /\ objects'[f] = o /\ objects'[k] = r
  <2>1. objects \in Seq(Records) /\ <<o, r>> \in Seq(Records) /\ Len(<<o, r>>) = 2
    BY <1>3 DEF Shape
  <2>2. /\ objects' \in Seq(Records) /\ Len(objects') = Len(objects) + 2
        /\ \A i \in 1..(Len(objects) + 2) :
             objects'[i] = IF i <= Len(objects) THEN objects[i] ELSE <<o, r>>[i - Len(objects)]
    <3>1. PICK t : t = <<o, r>>
      OBVIOUS
    <3>2. t \in Seq(Records) /\ Len(t) = 2 /\ objects' = objects \o t
      BY <2>1, <1>5, <3>1
    <3>3. /\ objects \o t \in Seq(Records) /\ Len(objects \o t) = Len(objects) + Len(t)
          /\ \A i \in 1..(Len(objects) + Len(t)) :
               (objects \o t)[i] = IF i <= Len(objects) THEN objects[i] ELSE t[i - Len(objects)]
      BY <2>1, <3>2, ConcatProperties, Zenon
    <3> QED BY <3>1, <3>2, <3>3, Zenon
  <2>3. Len(objects') = k /\ DOMAIN objects' = 1..k
    BY <2>2, <1>2
  <2>4. \A i \in 1..Len(objects) : objects'[i] = objects[i]
    BY <2>2, <1>2
  <2>5. objects'[f] = <<o, r>>[1] /\ objects'[k] = <<o, r>>[2]
    <3>1. f \in 1..(Len(objects) + 2) /\ ~(f <= Len(objects)) /\ f - Len(objects) = 1
      BY <1>2
    <3>2. k \in 1..(Len(objects) + 2) /\ ~(k <= Len(objects)) /\ k - Len(objects) = 2
      BY <1>2
    <3> QED BY <2>2, <3>1, <3>2
  <2> QED BY <2>2, <2>3, <2>4, <2>5
<1>7. /\ Stays /\ DOMAIN objects' = DOMAIN objects \cup {f, k}
      /\ {f, k} \cap DOMAIN objects = {}
  BY <1>2, <1>6, Numbers DEF Stays
<1>8. ASSUME NEW j PROVE All(j)' = All(j) \cup {n \in {f, k} : objects'[n].kind = j}
  BY <1>7, NewKinds
<1>9. /\ Creators' = Creators \cup {k} /\ Fragments' = Fragments \cup {f}
      /\ Elements' = Elements /\ Resources' = Resources
  <2>1. objects'[f].kind = "fragment" /\ objects'[k].kind = "creator"
    BY <1>4, <1>6
  <2>2. /\ {n \in {f, k} : objects'[n].kind = "creator"} = {k}
        /\ {n \in {f, k} : objects'[n].kind = "fragment"} = {f}
        /\ {n \in {f, k} : objects'[n].kind = "element"} = {}
        /\ {n \in {f, k} : objects'[n].kind = "resource"} = {}
    BY <2>1
  <2> QED BY <2>2, <1>8 DEF Creators, Elements, Fragments, Resources
<1>10. MadeBy(f)' /\ MadeBy(k)'
  <2>1. MadeBy(f)'
    BY <1>4, <1>6, <1>7, NewMadeBy
  <2>2. MadeBy(k)'
    BY <1>4, <1>6, <1>7, NewMadeBy
  <2> QED BY <2>1, <2>2
<1>11. LiesIn(f)'
  BY <1>1, <1>4, <1>6, <1>7, NewLiesIn
<1>12. LiesIn(k)'
  <2>1. objects'[f].inside = Around(p) /\ objects'[k].inside = {f} \cup Around(p)
    BY <1>4, <1>6
  <2>2. \A m \in Around(p) : m < f /\ m \in Nat /\ objects'[m].inside \subseteq Around(p)
    <3>1. \A m \in Around(p) : m \in DOMAIN objects
      BY <1>1, AroundFacts, KindsDiffer
    <3>2. \A m \in Around(p) : objects'[m] = objects[m]
      BY <3>1, <1>7 DEF Stays
    <3>3. \A m \in Around(p) : m < f /\ objects[m].inside \subseteq Around(p)
      BY <1>0, <1>1, AroundFacts
    <3>4. \A m \in Around(p) : m \in Nat
      BY <3>1, Numbers
    <3> QED BY <3>2, <3>3, <3>4
  <2>3. Around(p) \subseteq Elements' \cup Fragments' /\ f \in Fragments'
    BY <1>1, <1>7, <1>9, AroundFacts, KindsStay
  <2>4. objects'[k].inside \subseteq Elements' \cup Fragments'
    BY <2>1, <2>3
  <2>5. ASSUME NEW m \in objects'[k].inside
        PROVE  m < k /\ objects'[m].inside \subseteq objects'[k].inside
    <3>0. f < k /\ \A x \in Nat : x < f => x < k
      BY <1>2
    <3>1. CASE m = f
      BY <3>0, <3>1, <2>1, Zenon
    <3>2. CASE m \in Around(p)
      <4>1. m < f /\ m \in Nat /\ objects'[m].inside \subseteq Around(p)
        BY <3>2, <2>2, Zenon
      <4> QED BY <4>1, <3>0, <2>1, Zenon
    <3> QED BY <2>1, <2>5, <3>1, <3>2, Zenon
  <2> QED BY <2>4, <2>5 DEF LiesIn
<1>13. Belongs(f)'
  <2>1. f \notin Creators' /\ objects'[f].by = c /\ objects'[f].inside = Around(p)
    BY <1>4, <1>6, <1>7, <1>9, <1>2, KindsDiffer
  <2>2. objects'[c] = objects[c] /\ c \in DOMAIN objects
    <3>1. c \in DOMAIN objects
      BY KindsDiffer
    <3>2. Stays
      BY <1>7
    <3> QED BY <3>1, <3>2 DEF Stays
  <2> QED BY <2>1, <2>2, <1>1, <1>9 DEF Belongs
<1>14. Belongs(k)'
  <2>1. k \notin Elements' \cup Fragments' /\ f # None
    BY <1>2, <1>7, <1>9, KindsDiffer DEF None
  <2>2. /\ objects'[k].by = c /\ objects'[k].in = f /\ objects'[f].by = c
        /\ objects'[k].inside = {f} \cup Around(p) /\ objects'[f].inside = Around(p)
    BY <1>4, <1>6
  <2>3. Around(f)' = {f} \cup Around(p)
    BY <2>1, <2>2 DEF Around
  <2>4. Around(objects[k].in)' = Around(f)'
    BY <2>2, Zenon DEF Around
  <2> QED BY <2>1, <2>2, <2>3, <2>4, <1>9 DEF Belongs
<1>15. Shape'
  BY <1>6, <1>7, <1>10, <1>11, <1>12, <1>13, <1>14, NewShape
<1> QED BY <1>0, <1>6, <1>7, <1>9, <1>15 DEF o, r

(***************************************************************************)
(* What each operation makes.                                              *)
(***************************************************************************)
\* The call on top of the stack.
LEMMA TopOf ==
  ASSUME Stacked, stack # <<>>
  PROVE  /\ Len(stack) \in DOMAIN stack /\ Len(stack) \in Nat \ {0} /\ Top = stack[Len(stack)]
         /\ Top \in Frames /\ DOMAIN stack = 1..Len(stack)
<1>1. stack \in Seq(Frames)
  BY DEF Stacked
<1> QED BY <1>1, Beneath DEF Top

LEMMA ResourceMade ==
  ASSUME IInv, NEW c \in Creators, MakeResource(c)
  PROVE  /\ Shape' /\ Stays
         /\ DOMAIN objects' = DOMAIN objects \cup {Made} /\ Made \notin DOMAIN objects
         /\ objects'[Made] = Object("resource", c, None, {})
         /\ Creators' = Creators /\ Elements' = Elements /\ Fragments' = Fragments
         /\ Resources' = Resources \cup {Made}
<1>1. objects' = Append(objects, Object("resource", c, None, Around(None)))
  BY DEF MakeResource, Around
<1>2. Around(None) = {} /\ None \in Nat /\ "resource" \in Kinds /\ Shape
  BY DEF Around, None, Kinds, IInv
<1>3. /\ Shape' /\ Stays
      /\ DOMAIN objects' = DOMAIN objects \cup {Made} /\ Made \notin DOMAIN objects
      /\ objects'[Made] = Object("resource", c, None, Around(None))
      /\ Creators' = Creators /\ Elements' = Elements
      /\ Fragments' = Fragments /\ Resources' = Resources \cup {Made}
  BY <1>1, <1>2, MakeOne
<1> QED BY <1>2, <1>3, Zenon

LEMMA ElementMade ==
  ASSUME IInv, NEW c \in Creators, MakeElement(c)
  PROVE  /\ Shape' /\ Stays
         /\ DOMAIN objects' = DOMAIN objects \cup {Made} /\ Made \notin DOMAIN objects
         /\ objects'[Made] = Object("element", c, Place(c), Around(Place(c)))
         /\ Creators' = Creators /\ Elements' = Elements \cup {Made}
         /\ Fragments' = Fragments /\ Resources' = Resources
         /\ HostOf(c) \in page \cup {None} => Around(Place(c)) \cap Elements \subseteq page
<1>0. PICK p : p = Place(c)
  OBVIOUS
<1>1. objects' = Append(objects, Object("element", c, p, Around(p)))
  BY <1>0 DEF MakeElement
<1>2. Shape /\ page \subseteq Elements \cup Fragments /\ Tree /\ "element" \in Kinds
  BY DEF IInv, Typed, Kinds
<1>3. /\ p \in Elements \cup Fragments \cup {None}
      /\ objects[c].in \in Elements => objects[c].in \in Around(p)
      /\ HostOf(c) \in page \cup {None} => Around(p) \cap Elements \subseteq page
  BY <1>0, <1>2, PlaceFacts
<1>4. p \in Nat
  BY <1>2, <1>3, Numbers, KindsDiffer DEF None
<1>5. ~("element" = "creator") /\ (objects[c].in \in Elements => objects[c].in \in Around(p))
  BY <1>3
<1>6. /\ Shape' /\ Stays
      /\ DOMAIN objects' = DOMAIN objects \cup {Made} /\ Made \notin DOMAIN objects
      /\ objects'[Made] = Object("element", c, p, Around(p))
      /\ Creators' = Creators /\ Elements' = Elements \cup {Made}
      /\ Fragments' = Fragments /\ Resources' = Resources
  BY <1>1, <1>2, <1>3, <1>4, <1>5, MakeOne
<1> QED BY <1>0, <1>3, <1>6, Zenon

\* A creator, in an element or for a fragment.
LEMMA CreatorMade ==
  ASSUME IInv, NEW e \in Elements \cup Fragments,
         objects' = Append(objects, Object("creator", objects[e].by, e, Around(e)))
  PROVE  /\ Shape' /\ Stays
         /\ DOMAIN objects' = DOMAIN objects \cup {Made} /\ Made \notin DOMAIN objects
         /\ Len(objects') = Made
         /\ objects'[Made] = Object("creator", objects[e].by, e, Around(e))
         /\ Creators' = Creators \cup {Made} /\ Elements' = Elements
         /\ Fragments' = Fragments /\ Resources' = Resources
         /\ objects[e].by \in Creators
<1>0. PICK b : b = objects[e].by
  OBVIOUS
<1>1. Shape /\ e \in DOMAIN objects /\ e # Root /\ e # None /\ e \in Nat /\ "creator" \in Kinds
  BY Numbers, KindsDiffer DEF IInv, Kinds, None
<1>2. b \in Creators
  BY <1>0, <1>1 DEF Shape, MadeBy
<1>3. /\ Shape' /\ Stays
      /\ DOMAIN objects' = DOMAIN objects \cup {Made} /\ Made \notin DOMAIN objects
      /\ objects'[Made] = Object("creator", b, e, Around(e))
      /\ Creators' = Creators \cup {Made} /\ Elements' = Elements
      /\ Fragments' = Fragments /\ Resources' = Resources
  BY <1>0, <1>1, <1>2, MakeOne
<1>4. Len(objects') = Made
  <2>1. Object("creator", b, e, Around(e)) \in Records
    BY <1>1, <1>2, AboveFacts, AroundFacts, Numbers, KindsDiffer DEF Object, Records
  <2> QED BY <1>0, <1>1, <2>1, MadeOne
<1> QED BY <1>0, <1>2, <1>3, <1>4

LEMMA FragmentMade ==
  ASSUME IInv, NEW c \in Creators, Render(c)
  PROVE  /\ Shape' /\ Stays
         /\ DOMAIN objects' = DOMAIN objects \cup {Made, Made + 1}
         /\ {Made, Made + 1} \cap DOMAIN objects = {}
         /\ Len(objects') = Made + 1
         /\ objects'[Made] = Object("fragment", c, Place(c), Around(Place(c)))
         /\ objects'[Made + 1] = Object("creator", c, Made, {Made} \cup Around(Place(c)))
         /\ Creators' = Creators \cup {Made + 1} /\ Fragments' = Fragments \cup {Made}
         /\ Elements' = Elements /\ Resources' = Resources
         /\ HostOf(c) \in page \cup {None} => Around(Place(c)) \cap Elements \subseteq page
<1>1. Shape /\ page \subseteq Elements \cup Fragments /\ Tree
  BY DEF IInv, Typed
<1>2. objects' = objects \o <<Object("fragment", c, Place(c), Around(Place(c))),
                              Object("creator", c, Made, {Made} \cup Around(Place(c)))>>
  BY DEF Render, Created
<1>3. HostOf(c) \in page \cup {None} => Around(Place(c)) \cap Elements \subseteq page
  BY <1>1, PlaceFacts
<1> QED BY <1>1, <1>2, <1>3, MakeTwo, Zenon

\* New, and DrawAgain.
LEMMA InElement ==
  ASSUME NEW e \in Elements, New(e)
  PROVE  /\ objects' = Append(objects, Object("creator", objects[e].by, e, Around(e)))
         /\ queue' = Extended(queue, Len(objects'), <<>>)
         /\ promised' = Extended(promised, Len(objects'), {})
BY DEF New, Created

LEMMA InFragment ==
  ASSUME IInv, DrawAgain
  PROVE  /\ stack # <<>> /\ Top.do = "redraw" /\ Top.of \in Fragments
         /\ objects' = Append(objects, Object("creator", objects[Top.of].by, Top.of,
                                              Around(Top.of)))
         /\ queue' = Extended(queue, Len(objects'), <<>>)
         /\ promised' = Extended(promised, Len(objects'), {})
         /\ current' = [current EXCEPT ![Top.of] = Made]
         /\ late' = (late \/ Above(objects[Top.of].by) \cap cleanedUp # {})
         /\ stack' = Append(Front(stack), Frame("block", Top.of))
<1>1. stack # <<>> /\ Top.do = "redraw"
  BY DEF DrawAgain, At
<1>2. Top.of \in Fragments
  BY <1>1, TopOf DEF IInv, Stacked, Sits
<1> QED BY <1>1, <1>2 DEF DrawAgain, Created

\* All other steps make nothing.
Makes == \/ \E c \in Creators : MakeResource(c) \/ MakeElement(c) \/ Render(c)
         \/ \E e \in Elements : New(e)
         \/ DrawAgain
Others ==
  \/ \E f \in Fragments : Redraw(f)
  \/ Rendered \/ ClosePage \/ BlockReturns \/ BlockThrows \/ DeleteElement \/ CloseResource
  \/ CleanFragment \/ Unlisten \/ CleanerReturns \/ CleanerThrows \/ CleanupEnds

LEMMA StepKinds ==
  ASSUME Next
  PROVE  Makes \/ Others
BY DEF Next, Makes, Others, Creators, Elements, Fragments

LEMMA NothingMade ==
  ASSUME Shape, objects' = objects
  PROVE  /\ Shape' /\ Stays
         /\ Creators' = Creators /\ Elements' = Elements
         /\ Fragments' = Fragments /\ Resources' = Resources
         /\ \A n : Above(n)' = Above(n) /\ Around(n)' = Around(n)
<1>1. \A kind : All(kind)' = All(kind)
  BY DEF All
<1>2. \A n : Above(n)' = Above(n) /\ Around(n)' = Around(n)
  BY DEF Above, Around
<1>3. /\ Creators' = Creators /\ Elements' = Elements
      /\ Fragments' = Fragments /\ Resources' = Resources
  BY <1>1 DEF Creators, Elements, Fragments, Resources
<1>4. Stays
  BY DEF Stays
<1>5. objects' \in Seq(Records) /\ DOMAIN objects' \ DOMAIN objects = {}
  BY DEF Shape
<1>6. Shape'
  BY <1>4, <1>5, NewShape
<1> QED BY <1>2, <1>3, <1>4, <1>6

LEMMA OthersMakeNothing ==
  ASSUME Others
  PROVE  objects' = objects
BY DEF Others, Redraw, Rendered, ClosePage, BlockReturns, BlockThrows, DeleteElement,
       CloseResource, CleanFragment, Unlisten, CleanerReturns, CleanerThrows, CleanupEnds

LEMMA ShapeKept ==
  ASSUME IInv, Next
  PROVE  Shape' /\ Stays
<1>1. CASE Makes
  BY <1>1, ResourceMade, ElementMade, CreatorMade, FragmentMade, InElement, InFragment DEF Makes
<1>2. CASE Others
  BY <1>2, OthersMakeNothing, NothingMade DEF IInv
<1> QED BY <1>1, <1>2, StepKinds

LEMMA Fields ==
  ASSUME NEW kind, NEW by, NEW in, NEW inside
  PROVE  /\ Object(kind, by, in, inside).kind = kind /\ Object(kind, by, in, inside).by = by
         /\ Object(kind, by, in, inside).under = Above(by)
         /\ Object(kind, by, in, inside).in = in /\ Object(kind, by, in, inside).inside = inside
BY DEF Object

(***************************************************************************)
(* The tree of the page.                                                   *)
(***************************************************************************)
\* What was on the page, or nowhere: the new thing lies on the page if placed.
LEMMA TreePlaced ==
  ASSUME IInv, Shape', Stays, NEW c \in Creators, NEW m, m \notin DOMAIN objects,
         NEW around, objects'[m].inside = around, around \subseteq DOMAIN objects,
         Elements' \subseteq Elements \cup {m},
         HostOf(c) \in page \cup {None} => around \cap Elements \subseteq page,
         page' = Placed(c, m)
  PROVE  Tree'
<1>1. ASSUME NEW n \in page'
      PROVE  objects'[n].inside \cap Elements' \subseteq page'
  <2>0. page \subseteq page' /\ page \subseteq DOMAIN objects
    BY KindsDiffer DEF Placed, IInv, Typed
  <2>1. CASE n \in page
    <3>1. objects'[n] = objects[n] /\ LiesIn(n) /\ objects[n].inside \cap Elements \subseteq page
      BY <2>0, <2>1 DEF Stays, IInv, Shape, Tree
    <3>2. objects[n].inside \subseteq DOMAIN objects
      BY <3>1, KindsDiffer DEF LiesIn
    <3> QED BY <2>0, <3>1, <3>2
  <2>2. CASE n \notin page
    <3>1. n = m /\ HostOf(c) \in page \cup {None}
      BY <1>1, <2>2 DEF Placed
    <3> QED BY <3>1, <2>0
  <2> QED BY <2>1, <2>2
<1> QED BY <1>1 DEF Tree

\* What stays on the page lies in what stays, if all goes that lies in what goes.
LEMMA TreeCut ==
  ASSUME IInv, objects' = objects, page' \subseteq page,
         NEW gone, page' = page \ gone,
         \A n \in page : \A m \in objects[n].inside \cap Elements : m \in gone => n \in gone
  PROVE  Tree'
<1>1. Elements' = Elements
  BY NothingMade DEF IInv
<1> QED BY <1>1 DEF IInv, Tree

LEMMA TreeKept ==
  ASSUME IInv, Next
  PROVE  Tree'
<1>0. Shape /\ page \subseteq Elements \cup Fragments /\ page \subseteq DOMAIN objects
  BY KindsDiffer DEF IInv, Typed
<1>1. ASSUME Shape', Stays, page' = page, Elements' \cap DOMAIN objects = Elements
      PROVE  Tree'
  <2>1. ASSUME NEW n \in page PROVE objects'[n].inside \cap Elements' \subseteq page
    <3>1. objects'[n] = objects[n] /\ LiesIn(n) /\ objects[n].inside \cap Elements \subseteq page
      BY <1>0, <1>1 DEF Stays, IInv, Shape, Tree
    <3>2. objects[n].inside \subseteq DOMAIN objects
      BY <3>1, KindsDiffer DEF LiesIn
    <3> QED BY <1>1, <3>1, <3>2
  <2> QED BY <1>1, <2>1 DEF Tree
<1>2. ASSUME page' = page PROVE Tree'
  BY <1>0, <1>1, <1>2, ShapeKept, KindsStay
<1>3. ASSUME NEW c \in Creators, MakeElement(c) PROVE Tree'
  <2>1. PICK m, around : m = Made /\ around = Around(Place(c))
    OBVIOUS
  <2>2. /\ Shape' /\ Stays /\ m \notin DOMAIN objects /\ Elements' = Elements \cup {m}
        /\ objects'[m].inside = around
        /\ HostOf(c) \in page \cup {None} => around \cap Elements \subseteq page
    <3>1. /\ Shape' /\ Stays /\ Made \notin DOMAIN objects
          /\ Elements' = Elements \cup {Made}
          /\ objects'[Made].inside = Around(Place(c))
          /\ HostOf(c) \in page \cup {None} => Around(Place(c)) \cap Elements \subseteq page
      <4>1. objects'[Made] = Object("element", c, Place(c), Around(Place(c)))
        BY <1>3, ElementMade
      <4>2. objects'[Made].inside = Around(Place(c))
        BY <4>1, Fields
      <4> QED BY <4>2, <1>3, ElementMade, Zenon
    <3> QED BY <2>1, <3>1, Zenon
  <2>3. around \subseteq DOMAIN objects
    <3>1. Place(c) \in Elements \cup Fragments \cup {None}
      BY <1>0, PlaceFacts DEF IInv
    <3> QED BY <1>0, <2>1, <3>1, AroundFacts, KindsDiffer
  <2>4. page' = Placed(c, m)
    BY <1>3, <2>1 DEF MakeElement
  <2> QED BY <2>2, <2>3, <2>4, TreePlaced
<1>4. ASSUME NEW c \in Creators, Render(c) PROVE Tree'
  <2>1. PICK m, around : m = Made /\ around = Around(Place(c))
    OBVIOUS
  <2>2. /\ Shape' /\ Stays /\ m \notin DOMAIN objects /\ Elements' = Elements
        /\ objects'[m].inside = around
        /\ HostOf(c) \in page \cup {None} => around \cap Elements \subseteq page
    <3>1. /\ Shape' /\ Stays /\ Made \notin DOMAIN objects
          /\ Elements' = Elements
          /\ objects'[Made].inside = Around(Place(c))
          /\ HostOf(c) \in page \cup {None} => Around(Place(c)) \cap Elements \subseteq page
      <4>1. objects'[Made] = Object("fragment", c, Place(c), Around(Place(c)))
        BY <1>4, FragmentMade
      <4>2. objects'[Made].inside = Around(Place(c))
        BY <4>1, Fields
      <4> QED BY <4>2, <1>4, FragmentMade, Zenon
    <3> QED BY <2>1, <3>1, Zenon
  <2>3. around \subseteq DOMAIN objects
    <3>1. Place(c) \in Elements \cup Fragments \cup {None}
      BY <1>0, PlaceFacts DEF IInv
    <3> QED BY <1>0, <2>1, <3>1, AroundFacts, KindsDiffer
  <2>4. page' = Placed(c, m)
    BY <1>4, <2>1 DEF Render
  <2> QED BY <2>2, <2>3, <2>4, TreePlaced
<1>5. ASSUME NEW f, NEW n \in page, NEW m \in objects[n].inside, f \in Around(m)
      PROVE  f \in objects[n].inside /\ n # f
  <2>1. LiesIn(n) /\ n \in Nat
    BY <1>0, Numbers DEF Shape
  <2>2. f \in objects[n].inside
    <3>1. f = m \/ f \in objects[m].inside
      BY <1>5 DEF Around
    <3> QED BY <2>1, <3>1 DEF LiesIn
  <2>3. f < n
    BY <2>1, <2>2 DEF LiesIn
  <2> QED BY <2>1, <2>2, <2>3
<1>6. \A n \in page : objects[n].inside \subseteq Around(n)
  BY <1>0, Numbers DEF Around, None
<1>7. CASE DeleteElement
  <2>1. PICK e : e = Called.of
    OBVIOUS
  <2>2. page' = page \ (IF e \in Elements THEN Within(e) ELSE {e}) /\ objects' = objects
    BY <1>7, <2>1 DEF DeleteElement, Elements
  <2>3. CASE e \in Elements
    <3>1. \A n \in page : \A m \in objects[n].inside \cap Elements :
            m \in Within(e) => n \in Within(e)
      <4>1. ASSUME NEW n \in page, NEW m \in objects[n].inside, m \in Within(e)
            PROVE  n \in Within(e)
        <5>1. e \in Around(m)
          BY <4>1 DEF Within
        <5>2. e \in objects[n].inside
          BY <4>1, <5>1, <1>5
        <5> QED BY <5>2, <1>6 DEF Within
      <4> QED BY <4>1
    <3> QED BY <2>2, <2>3, <3>1, TreeCut
  <2>4. CASE e \notin Elements
    <3>1. page' = page \ {e} /\ page' \subseteq page
      BY <2>2, <2>4
    <3>2. \A n \in page : \A m \in objects[n].inside \cap Elements : m \in {e} => n \in {e}
      BY <2>4
    <3> QED BY <2>2, <3>1, <3>2, TreeCut
  <2> QED BY <2>3, <2>4
<1>8. ASSUME NEW f \in Fragments, Redraw(f) PROVE Tree'
  <2>1. page' = page \ Drawn(f) /\ objects' = objects
    BY <1>8 DEF Redraw
  <2>2. \A n \in page : \A m \in objects[n].inside \cap Elements :
          m \in Drawn(f) => n \in Drawn(f)
    <3>1. ASSUME NEW n \in page, NEW m \in objects[n].inside, m \in Drawn(f)
          PROVE  n \in Drawn(f)
      <4>1. f \in Around(m) /\ f \in page
        BY <3>1 DEF Drawn, Within
      <4>2. f \in objects[n].inside /\ n # f
        BY <3>1, <4>1, <1>5
      <4> QED BY <4>1, <4>2, <1>6 DEF Drawn, Within
    <3> QED BY <3>1
  <2> QED BY <2>1, <2>2, TreeCut
<1>9. ASSUME NEW c \in Creators, MakeResource(c) PROVE Tree'
  BY <1>2, <1>9 DEF MakeResource
<1>10. ASSUME NEW e \in Elements, New(e) PROVE Tree'
  BY <1>2, <1>10 DEF New
<1>11. CASE DrawAgain
  BY <1>2, <1>11 DEF DrawAgain
<1>12. CASE Makes
  BY <1>3, <1>4, <1>9, <1>10, <1>11, <1>12 DEF Makes
<1>13. CASE Rendered \/ ClosePage \/ BlockReturns \/ BlockThrows \/ CloseResource
              \/ CleanFragment \/ Unlisten \/ CleanerReturns \/ CleanerThrows \/ CleanupEnds
  BY <1>2, <1>13 DEF Rendered, ClosePage, BlockReturns, BlockThrows, CloseResource,
                     CleanFragment, Unlisten, CleanerReturns, CleanerThrows, CleanupEnds
<1> QED BY <1>7, <1>8, <1>12, <1>13, StepKinds DEF Others

(***************************************************************************)
(* The stack.                                                              *)
(***************************************************************************)
LEMMA FrameFacts ==
  /\ \A do \in FrameKinds, of \in Nat :
       /\ Frame(do, of) \in Frames /\ Frame(do, of).do = do /\ Frame(do, of).of = of
       /\ Frame(do, of).next = 0
  /\ \A c \in Nat, n \in Nat :
       /\ CleanupCall(c, n) \in Frames /\ CleanupCall(c, n).do = "cleanup"
       /\ CleanupCall(c, n).of = c /\ CleanupCall(c, n).next = n
  /\ {"cleanup", "unlisten", "user", "redraw", "block", "first"} = FrameKinds
BY DEF Frame, CleanupCall, Frames, FrameKinds

\* A call returns.
LEMMA Returned ==
  ASSUME Stacked, stack # <<>>, stack' = Front(stack)
  PROVE  /\ stack' \in Seq(Frames) /\ DOMAIN stack' = 1..(Len(stack) - 1)
         /\ Len(stack') = Len(stack) - 1
         /\ \A i \in DOMAIN stack' : i \in DOMAIN stack /\ stack'[i] = stack[i]
<1>1. stack \in Seq(Frames)
  BY DEF Stacked
<1>2. /\ Front(stack) \in Seq(Frames) /\ Len(Front(stack)) = Len(stack) - 1
      /\ Len(stack) \in Nat \ {0} /\ DOMAIN stack = 1..Len(stack)
      /\ \A i \in 1..(Len(stack) - 1) : Front(stack)[i] = stack[i]
  BY <1>1, Beneath
<1> QED BY <1>2

\* Calls are made on top of the stack.
LEMMA Pushed ==
  ASSUME NEW s \in Seq(Frames), NEW calls \in Seq(Frames), stack' = s \o calls
  PROVE  /\ stack' \in Seq(Frames) /\ Len(stack') = Len(s) + Len(calls)
         /\ Len(s) \in Nat /\ Len(calls) \in Nat
         /\ DOMAIN stack' = 1..(Len(s) + Len(calls))
         /\ \A i \in 1..Len(s) : stack'[i] = s[i]
         /\ \A i \in 1..Len(calls) : stack'[Len(s) + i] = calls[i]
<1>1. /\ s \o calls \in Seq(Frames) /\ Len(s \o calls) = Len(s) + Len(calls)
      /\ \A i \in 1..(Len(s) + Len(calls)) :
           (s \o calls)[i] = IF i <= Len(s) THEN s[i] ELSE calls[i - Len(s)]
  BY ConcatProperties, Zenon
<1>2. Len(s) \in Nat /\ Len(calls) \in Nat
  OBVIOUS
<1>3. /\ stack' \in Seq(Frames) /\ Len(stack') = Len(s) + Len(calls)
      /\ \A i \in 1..(Len(s) + Len(calls)) :
           stack'[i] = IF i <= Len(s) THEN s[i] ELSE calls[i - Len(s)]
  BY <1>1, Zenon
<1>4. DOMAIN stack' = 1..(Len(s) + Len(calls))
  BY <1>3
<1>5. \A i \in 1..Len(s) : stack'[i] = s[i]
  BY <1>2, <1>3
<1>6. ASSUME NEW i \in 1..Len(calls) PROVE stack'[Len(s) + i] = calls[i]
  <2>1. Len(s) + i \in 1..(Len(s) + Len(calls)) /\ ~(Len(s) + i <= Len(s))
        /\ (Len(s) + i) - Len(s) = i
    BY <1>2
  <2> QED BY <2>1, <1>3
<1> QED BY <1>2, <1>3, <1>4, <1>5, <1>6

\* The calls of a cleanup: one, or none.
LEMMA CallsFacts ==
  ASSUME Typed, Shape, NEW k \in Creators \cup {None}
  PROVE  /\ CallsToCleanUp(k) \in Seq(Frames)
         /\ k \in cleanedUp \cup {None} => Len(CallsToCleanUp(k)) = 0
         /\ k \notin cleanedUp \cup {None} =>
              /\ Len(CallsToCleanUp(k)) = 1
              /\ CallsToCleanUp(k)[1].do = "cleanup" /\ CallsToCleanUp(k)[1].of = k
              /\ CallsToCleanUp(k)[1].next \in 0..Len(queue[k])
              /\ CallsToCleanUp(k)[1].next = 0 => queue[k] = <<>>
              /\ CallsToCleanUp(k)[1].next \in {0, 1}
<1>1. CASE k \in cleanedUp \cup {None}
  BY <1>1 DEF CallsToCleanUp
<1>2. CASE k \notin cleanedUp \cup {None}
  <2>1. k \in Creators /\ k \in Nat /\ queue[k] \in Seq(Registrable)
    BY <1>2, Numbers, KindsDiffer DEF Typed
  <2>2. PICK n : n = (IF queue[k] = <<>> THEN 0 ELSE 1)
    OBVIOUS
  <2>3. n \in 0..Len(queue[k]) /\ n \in {0, 1} /\ n \in Nat /\ (n = 0 => queue[k] = <<>>)
    <3>1. queue[k] # <<>> => Len(queue[k]) \in Nat \ {0}
      BY <2>1, EmptySeq
    <3>2. Len(queue[k]) \in Nat
      BY <2>1
    <3> QED BY <2>2, <3>1, <3>2
  <2>4. CallsToCleanUp(k) = <<CleanupCall(k, n)>>
    BY <1>2, <2>2 DEF CallsToCleanUp
  <2>5. /\ CleanupCall(k, n) \in Frames /\ CleanupCall(k, n).do = "cleanup"
        /\ CleanupCall(k, n).of = k /\ CleanupCall(k, n).next = n
    <3>1. k \in Nat /\ n \in Nat
      BY <2>1, <2>3
    <3> QED BY <3>1 DEF CleanupCall, Frames, FrameKinds
  <2> QED BY <1>2, <2>3, <2>4, <2>5
<1> QED BY <1>1, <1>2

\* A cleanup goes on to the next cleaner, having made calls.
LEMMA Continued ==
  ASSUME Stacked, Typed, At("cleanup"), Top.next # 0, NEW calls \in Seq(Frames), Continue(calls)
  PROVE  /\ stack' \in Seq(Frames) /\ Len(stack') = Len(stack) + Len(calls)
         /\ Len(calls) \in Nat /\ DOMAIN stack' = 1..(Len(stack) + Len(calls))
         /\ \A i \in 1..(Len(stack) - 1) : stack'[i] = stack[i]
         /\ stack'[Len(stack)].do = "cleanup" /\ stack'[Len(stack)].of = Top.of
         /\ stack'[Len(stack)].next = NextCleaner
         /\ \A i \in 1..Len(calls) : stack'[Len(stack) + i] = calls[i]
         /\ Top.of \in Creators /\ Top.of \in cleanedUp
         /\ Top.next \in 1..Len(queue[Top.of])
         /\ NextCleaner \in 0..Len(queue[Top.of])
<1>1. stack # <<>> /\ Top.do = "cleanup" /\ stack \in Seq(Frames)
  BY DEF At, Stacked
<1>2. /\ Len(stack) \in DOMAIN stack /\ Len(stack) \in Nat \ {0} /\ Top = stack[Len(stack)]
      /\ Top \in Frames
  BY <1>1, TopOf
<1>3. Sits(Len(stack))
  BY <1>2 DEF Stacked
<1>4. Top.of \in cleanedUp /\ Top.next \in 0..Len(queue[Top.of]) /\ Top.of \in Creators
  BY <1>1, <1>2, <1>3 DEF Sits, Typed
<1>5. queue[Top.of] \in Seq(Registrable) /\ Len(queue[Top.of]) \in Nat
  BY <1>4 DEF Typed
<1>6. NextCleaner \in 0..Len(queue[Top.of]) /\ NextCleaner \in Nat
  BY <1>4, <1>5 DEF NextCleaner
<1>7. PICK e : e = [Top EXCEPT !.next = NextCleaner]
  OBVIOUS
<1>8. e \in Frames /\ e.do = "cleanup" /\ e.of = Top.of /\ e.next = NextCleaner
  BY <1>1, <1>2, <1>6, <1>7 DEF Frames
<1>9. PICK s : s = Append(Front(stack), e)
  OBVIOUS
<1>10. /\ s \in Seq(Frames) /\ Len(s) = Len(stack)
       /\ \A i \in 1..(Len(stack) - 1) : s[i] = stack[i]
       /\ s[Len(stack)] = e
  <2>1. /\ Append(Front(stack), e) \in Seq(Frames)
        /\ Len(Append(Front(stack), e)) = Len(stack)
        /\ \A i \in 1..(Len(stack) - 1) : Append(Front(stack), e)[i] = stack[i]
        /\ Append(Front(stack), e)[Len(stack)] = e
    <3>1. stack \in Seq(Frames) /\ stack # <<>> /\ e \in Frames
      BY <1>1, <1>8
    <3> QED BY <3>1, Changed
  <2> QED BY <1>9, <2>1, Zenon
<1>11. stack' = s \o calls
  BY <1>7, <1>9 DEF Continue
<1>12. /\ stack' \in Seq(Frames) /\ Len(stack') = Len(stack) + Len(calls)
       /\ Len(calls) \in Nat /\ DOMAIN stack' = 1..(Len(stack) + Len(calls))
       /\ \A i \in 1..Len(stack) : stack'[i] = s[i]
       /\ \A i \in 1..Len(calls) : stack'[Len(stack) + i] = calls[i]
  <2>1. s \in Seq(Frames) /\ Len(s) = Len(stack)
    BY <1>10
  <2>2. /\ stack' \in Seq(Frames) /\ Len(stack') = Len(s) + Len(calls)
        /\ Len(calls) \in Nat /\ DOMAIN stack' = 1..(Len(s) + Len(calls))
        /\ \A i \in 1..Len(s) : stack'[i] = s[i]
        /\ \A i \in 1..Len(calls) : stack'[Len(s) + i] = calls[i]
    BY <2>1, <1>11, Pushed, Zenon
  <2> QED BY <2>1, <2>2, Zenon
<1>13. \A i \in 1..(Len(stack) - 1) : stack'[i] = stack[i]
  BY <1>2, <1>10, <1>12
<1>14. stack'[Len(stack)] = e
  BY <1>2, <1>10, <1>12
<1>15. Top.next \in 1..Len(queue[Top.of])
  BY <1>4, <1>5
<1> QED BY <1>4, <1>6, <1>8, <1>12, <1>13, <1>14, <1>15

\* What sits on the stack, and stays there, still does so well.
Remains(i) == /\ i \in DOMAIN stack /\ i \in DOMAIN stack'
              /\ stack'[i].do = stack[i].do /\ stack'[i].of = stack[i].of

LEMMA StillSits ==
  ASSUME Stacked, Shape, Stays, NEW i, Remains(i),
         i - 1 \in DOMAIN stack => Remains(i - 1),
         cleanedUp \subseteq cleanedUp',
         stack[i].do = "cleanup" => stack'[i].next \in 0..Len(queue'[stack[i].of]),
         stack[i].do \in {"unlisten", "redraw"} => current'[stack[i].of] = None,
         stack[i].do = "redraw" => stack[i].of \in listening'
  PROVE  Sits(i)'
<1>1. Sits(i) /\ Fragments \subseteq Fragments'
  BY KindsStay DEF Stacked, Remains
<1> QED BY <1>1 DEF Sits, Remains, Is

LEMMA StillFits ==
  ASSUME Stacked, Shape, Stays, NEW i, NEW j, Remains(i), Remains(j)
  PROVE  Fits(i, j)'
<1>1. Fits(i, j) /\ Sits(i)
  BY DEF Stacked, Remains
<1>2. stack[i].do = "redraw" => objects'[stack[i].of] = objects[stack[i].of]
  BY <1>1, KindsDiffer DEF Sits, Stays
<1> QED BY <1>1, <1>2 DEF Fits, Remains


(***************************************************************************)
(* The queues.                                                             *)
(***************************************************************************)
\* A queue is kept, and what is new is at its end.
GrowsBy(s, t, new) ==
  /\ t \in Seq(Registrable) /\ Len(s) \in Nat /\ Len(t) \in Nat /\ Len(s) <= Len(t)
  /\ \A i \in 1..Len(s) : t[i] = s[i]
  /\ ToSet(t) = ToSet(s) \cup new

LEMMA Grown ==
  ASSUME NEW s \in Seq(Registrable), NEW cleaner \in Registrable
  PROVE  GrowsBy(s, s, {}) /\ GrowsBy(s, Append(s, cleaner), {cleaner})
<1>1. /\ Append(s, cleaner) \in Seq(Registrable) /\ Len(Append(s, cleaner)) = Len(s) + 1
      /\ \A i \in 1..Len(s) : Append(s, cleaner)[i] = s[i]
      /\ Len(s) \in Nat
  BY Above1
<1>2. ToSet(Append(s, cleaner)) = ToSet(s) \cup {cleaner}
  BY Appended
<1>3. GrowsBy(s, s, {})
  BY <1>1 DEF GrowsBy
<1>4. GrowsBy(s, Append(s, cleaner), {cleaner})
  BY <1>1, <1>2 DEF GrowsBy
<1> QED BY <1>3, <1>4

\* A step registers a cleaner with some creators, or makes creators with an empty
\* queue; whether it came too late is known from then on.
Registers(W, cleaner) ==
  /\ DOMAIN queue' = Creators'
  /\ \A a \in Creators : GrowsBy(queue[a], queue'[a], IF a \in W THEN {cleaner} ELSE {})
  /\ \A a \in Creators' \ Creators : queue'[a] = <<>>
  /\ DOMAIN promised' = Creators'
  /\ \A a \in Creators : promised'[a] = promised[a]
  /\ \A a \in Creators' \ Creators : promised'[a] = {}
  /\ cleanedUp' = cleanedUp /\ aborted' = aborted
  /\ late \/ W \cap cleanedUp # {} => late'

LEMMA OnCleanupRegisters ==
  ASSUME Typed, Creators' = Creators, NEW c \in Creators, NEW withParent \in BOOLEAN,
         NEW cleaner \in Registrable, OnCleanup(c, withParent, cleaner),
         UNCHANGED <<cleaningVars, aborted>>
  PROVE  Registers(With(c, withParent), cleaner)
<1>0. PICK W : W = With(c, withParent)
  OBVIOUS
<1>1. /\ queue' = [a \in Creators |-> IF a \in W THEN Append(queue[a], cleaner) ELSE queue[a]]
      /\ late' = (late \/ W \cap cleanedUp # {})
  BY <1>0 DEF OnCleanup, Creators
<1>2. ASSUME NEW a \in Creators
      PROVE  GrowsBy(queue[a], queue'[a], IF a \in W THEN {cleaner} ELSE {})
  <2>1. queue[a] \in Seq(Registrable)
    BY DEF Typed
  <2>2. GrowsBy(queue[a], queue[a], {}) /\ GrowsBy(queue[a], Append(queue[a], cleaner), {cleaner})
    BY <2>1, Grown
  <2>3. queue'[a] = IF a \in W THEN Append(queue[a], cleaner) ELSE queue[a]
    BY <1>1
  <2> QED BY <2>2, <2>3
<1>3. promised' = promised /\ cleanedUp' = cleanedUp /\ aborted' = aborted
  BY DEF cleaningVars
<1>4. Registers(W, cleaner)
  BY <1>1, <1>2, <1>3 DEF Registers, Typed
<1> QED BY <1>0, <1>4, Zenon

\* Creators are made: one, with an empty queue, after a cleaner was registered or
\* not.
LEMMA CreatedRegisters ==
  ASSUME Typed, NEW q, DOMAIN q = Creators, NEW W, NEW cleaner, NEW k, k \notin Creators,
         Creators' = Creators \cup {k},
         \A a \in Creators : GrowsBy(queue[a], q[a], IF a \in W THEN {cleaner} ELSE {}),
         queue' = Extended(q, k, <<>>), promised' = Extended(promised, k, {}),
         cleanedUp' = cleanedUp, aborted' = aborted,
         late \/ W \cap cleanedUp # {} => late'
  PROVE  Registers(W, cleaner)
<1>1. DOMAIN queue' = Creators' /\ DOMAIN promised' = Creators'
  BY DEF Extended, Typed
<1>2. \A a \in Creators : queue'[a] = q[a] /\ promised'[a] = promised[a]
  BY DEF Extended, Typed
<1>3. queue'[k] = <<>> /\ promised'[k] = {} /\ Creators' \ Creators = {k}
  BY DEF Extended, Typed
<1> QED BY <1>1, <1>2, <1>3 DEF Registers

LEMMA ResourceRegisters ==
  ASSUME IInv, NEW c \in Creators, MakeResource(c)
  PROVE  Registers(Above(c), Cleaner("close", Made)) /\ Made \in Nat
<1>1. PICK m, cleaner : m = Made /\ cleaner = Cleaner("close", m)
  OBVIOUS
<1>2. m \in Nat /\ Creators' = Creators
  BY <1>1, ResourceMade, Numbers DEF IInv
<1>3. cleaner \in Registrable
  BY <1>1, <1>2 DEF Cleaner, Registrable, Deeds
<1>4. OnCleanup(c, TRUE, cleaner) /\ UNCHANGED <<cleaningVars, aborted>>
  BY <1>1 DEF MakeResource
<1>5. Registers(With(c, TRUE), cleaner)
  BY <1>2, <1>3, <1>4, OnCleanupRegisters DEF IInv
<1>6. With(c, TRUE) = Above(c)
  BY DEF With
<1> QED BY <1>1, <1>2, <1>5, <1>6, Zenon

LEMMA ElementRegisters ==
  ASSUME IInv, NEW c \in Creators, MakeElement(c)
  PROVE  Registers({c}, Cleaner("delete", Made)) /\ Made \in Nat
<1>1. PICK m, cleaner : m = Made /\ cleaner = Cleaner("delete", m)
  OBVIOUS
<1>2. m \in Nat /\ Creators' = Creators
  BY <1>1, ElementMade, Numbers DEF IInv
<1>3. cleaner \in Registrable
  BY <1>1, <1>2 DEF Cleaner, Registrable, Deeds
<1>4. OnCleanup(c, FALSE, cleaner) /\ UNCHANGED <<cleaningVars, aborted>>
  BY <1>1 DEF MakeElement
<1>5. Registers(With(c, FALSE), cleaner)
  BY <1>2, <1>3, <1>4, OnCleanupRegisters DEF IInv
<1>6. With(c, FALSE) = {c}
  BY DEF With
<1> QED BY <1>1, <1>2, <1>5, <1>6, Zenon

LEMMA FragmentRegisters ==
  ASSUME IInv, NEW c \in Creators, Render(c)
  PROVE  Registers({c}, Cleaner("delete", Made)) /\ Made \in Nat
<1>1. PICK m, cleaner : m = Made /\ cleaner = Cleaner("delete", m)
  OBVIOUS
<1>2. PICK k : k = m + 1
  OBVIOUS
<1>3. m \in Nat
  BY <1>1, Numbers DEF IInv
<1>4. Creators' = Creators \cup {k} /\ k \notin DOMAIN objects /\ Len(objects') = k
  <2>1. Creators' = Creators \cup {Made + 1} /\ {Made, Made + 1} \cap DOMAIN objects = {}
        /\ Len(objects') = Made + 1
    BY FragmentMade
  <2> QED BY <1>1, <1>2, <2>1
<1>5. cleaner \in Registrable
  BY <1>1, <1>3 DEF Cleaner, Registrable, Deeds
<1>6. PICK q : q = [queue EXCEPT ![c] = Append(@, cleaner)]
  OBVIOUS
<1>7. queue' = Extended(q, k, <<>>) /\ promised' = Extended(promised, k, {})
  <2>1. /\ queue' = Extended([queue EXCEPT ![c] = Append(@, Cleaner("delete", Made))],
                             Len(objects'), <<>>)
        /\ promised' = Extended(promised, Len(objects'), {})
    BY DEF Render, Created
  <2> QED BY <1>1, <1>4, <1>6, <2>1, Zenon
<1>8. DOMAIN q = Creators
  BY <1>6 DEF IInv, Typed
<1>9. ASSUME NEW a \in Creators
      PROVE  GrowsBy(queue[a], q[a], IF a \in {c} THEN {cleaner} ELSE {})
  <2>1. queue[a] \in Seq(Registrable)
    BY DEF IInv, Typed
  <2>2. GrowsBy(queue[a], queue[a], {}) /\ GrowsBy(queue[a], Append(queue[a], cleaner), {cleaner})
    BY <1>5, <2>1, Grown
  <2>3. q[a] = IF a = c THEN Append(queue[a], cleaner) ELSE queue[a]
    BY <1>6 DEF IInv, Typed
  <2> QED BY <2>2, <2>3
<1>10. cleanedUp' = cleanedUp /\ aborted' = aborted
       /\ late' = (late \/ Above(c) \cap cleanedUp # {})
  BY DEF Render
<1>11. c \in Above(c) /\ k \notin Creators
  BY <1>4, AboveFacts, KindsDiffer DEF IInv
<1>12. late \/ {c} \cap cleanedUp # {} => late'
  BY <1>10, <1>11
<1>13. Registers({c}, cleaner)
  BY <1>4, <1>7, <1>8, <1>9, <1>10, <1>11, <1>12, CreatedRegisters DEF IInv
<1> QED BY <1>1, <1>3, <1>13, Zenon

\* New, DrawAgain: nothing is registered.
LEMMA CreatorRegisters ==
  ASSUME IInv, NEW e \in Elements \cup Fragments, NEW cleaner,
         objects' = Append(objects, Object("creator", objects[e].by, e, Around(e))),
         queue' = Extended(queue, Len(objects'), <<>>),
         promised' = Extended(promised, Len(objects'), {}),
         cleanedUp' = cleanedUp, aborted' = aborted, late => late'
  PROVE  Registers({}, cleaner)
<1>0. PICK W : W = {}
  OBVIOUS
<1>1. PICK k : k = Made
  OBVIOUS
<1>2. Creators' = Creators \cup {k} /\ k \notin Creators /\ Len(objects') = k
  <2>1. Creators' = Creators \cup {Made} /\ Made \notin DOMAIN objects /\ Len(objects') = Made
    BY CreatorMade
  <2> QED BY <1>1, <2>1, KindsDiffer
<1>3. queue' = Extended(queue, k, <<>>) /\ promised' = Extended(promised, k, {})
  BY <1>2
<1>4. ASSUME NEW a \in Creators
      PROVE  GrowsBy(queue[a], queue[a], IF a \in W THEN {cleaner} ELSE {})
  <2>1. queue[a] \in Seq(Registrable)
    BY DEF IInv, Typed
  <2>2. Len(queue[a]) \in Nat
    BY <2>1
  <2> QED BY <1>0, <2>1, <2>2 DEF GrowsBy
<1>5. DOMAIN queue = Creators /\ (late \/ W \cap cleanedUp # {} => late') /\ Typed
  BY <1>0 DEF IInv, Typed
<1>6. Registers(W, cleaner)
  BY <1>2, <1>3, <1>4, <1>5, CreatedRegisters
<1> QED BY <1>0, <1>6

LEMMA RenderedRegisters ==
  ASSUME IInv, Rendered
  PROVE  /\ Registers(Above(objects[Top.of].by), Cleaner("clean", Top.of))
         /\ Top.of \in Fragments /\ Top.of \in Nat /\ objects[Top.of].by \in Creators
         /\ stack # <<>> /\ Top.do = "first" /\ stack' = Front(stack) /\ objects' = objects
         /\ Creators' = Creators
<1>1. stack # <<>> /\ Top.do = "first" /\ stack' = Front(stack) /\ objects' = objects
  BY DEF Rendered, At
<1>2. PICK f : f = Top.of
  OBVIOUS
<1>3. f \in Fragments /\ f \in Nat
  <2>1. Sits(Len(stack)) /\ Top = stack[Len(stack)]
    BY <1>1, TopOf DEF IInv, Stacked
  <2>2. f \in Fragments
    BY <1>1, <1>2, <2>1 DEF Sits
  <2> QED BY <2>2, Numbers, KindsDiffer DEF IInv
<1>4. PICK c : c = objects[f].by
  OBVIOUS
<1>5. c \in Creators
  <2>1. MadeBy(f) /\ f # Root
    BY <1>3, Numbers, KindsDiffer DEF IInv, Shape
  <2> QED BY <1>4, <2>1 DEF MadeBy
<1>6. Cleaner("clean", f) \in Registrable
  BY <1>3 DEF Cleaner, Registrable, Deeds
<1>7. OnCleanup(c, TRUE, Cleaner("clean", f)) /\ UNCHANGED <<cleaningVars, aborted>>
  BY <1>2, <1>4 DEF Rendered
<1>8. Creators' = Creators
  BY <1>1, NothingMade DEF IInv
<1>9. Registers(With(c, TRUE), Cleaner("clean", f))
  BY <1>5, <1>6, <1>7, <1>8, OnCleanupRegisters DEF IInv
<1>10. With(c, TRUE) = Above(c)
  BY DEF With
<1>11. Registers(Above(c), Cleaner("clean", f))
  BY <1>9, <1>10, Zenon
<1> QED BY <1>1, <1>2, <1>3, <1>4, <1>5, <1>8, <1>11, Zenon

(***************************************************************************)
(* All other steps clean up.                                               *)
(***************************************************************************)
\* The cleaner that is run, and the creator it is registered with.
LEMMA CalledFacts ==
  ASSUME IInv, NEW do, Runs(do)
  PROVE  /\ stack # <<>> /\ At("cleanup") /\ Top.next # 0 /\ Top.do = "cleanup"
         /\ Top.of \in cleanedUp /\ Top.of \in Creators
         /\ Top.next \in 1..Len(queue[Top.of]) /\ Called = queue[Top.of][Top.next]
         /\ Called \in Registrable /\ Cleans(Top.of, Called) /\ Called.do = do
<1>1. stack # <<>> /\ At("cleanup") /\ Top.do = "cleanup" /\ Top.next # 0 /\ Called.do = do
  BY DEF Runs, At
<1>2. Sits(Len(stack)) /\ Top = stack[Len(stack)]
  BY <1>1, TopOf DEF IInv, Stacked
<1>3. Top.of \in cleanedUp /\ Top.of \in Creators /\ Top.next \in 0..Len(queue[Top.of])
  BY <1>1, <1>2 DEF Sits, IInv, Typed
<1>4. /\ queue[Top.of] \in Seq(Registrable)
      /\ \A x \in ToSet(queue[Top.of]) : Cleans(Top.of, x)
  BY <1>3 DEF IInv, Typed
<1>5. Top.next \in 1..Len(queue[Top.of])
  BY <1>1, <1>3, <1>4
<1>6. Called = queue[Top.of][Top.next]
  BY DEF Called
<1>7. Top.next \in DOMAIN queue[Top.of] /\ Called \in ToSet(queue[Top.of])
  BY <1>4, <1>5, <1>6 DEF ToSet
<1>8. Called \in Registrable /\ Cleans(Top.of, Called)
  BY <1>4, <1>6, <1>7
<1> QED BY <1>1, <1>3, <1>5, <1>6, <1>8

\* A cleanup begins, unless there is nothing to clean up.
LEMMA Begun ==
  ASSUME Typed, Shape, NEW k \in Creators \cup {None}, BeginCleanup(k)
  PROVE  /\ cleanedUp' = cleanedUp \cup ({k} \ {None}) /\ cleanedUp' \subseteq Creators
         /\ DOMAIN promised' = Creators
         /\ \A c \in Creators :
              promised'[c] = IF c \in cleanedUp' \ cleanedUp THEN ToSet(queue[c])
                             ELSE promised[c]
<1>1. cleanedUp' = cleanedUp \cup ({k} \ {None}) /\ cleanedUp' \subseteq Creators
  BY DEF BeginCleanup, Typed
<1>2. None \notin Creators
  BY Numbers, KindsDiffer DEF None
<1>3. CASE k \in {None} \cup cleanedUp
  <2>1. cleanedUp' \ cleanedUp = {} /\ promised' = promised
    BY <1>1, <1>3 DEF BeginCleanup
  <2> QED BY <1>1, <2>1 DEF Typed
<1>4. CASE k \notin {None} \cup cleanedUp
  <2>1. cleanedUp' \ cleanedUp = {k} /\ promised' = [promised EXCEPT ![k] = ToSet(queue[k])]
    BY <1>1, <1>4 DEF BeginCleanup
  <2> QED BY <1>1, <1>4, <2>1 DEF Typed
<1> QED BY <1>3, <1>4

Emptied(c) == c \in cleanedUp /\ queue'[c] = <<>>

QueuesEmptied ==
  DOMAIN queue' = Creators /\ \A c \in Creators : queue'[c] = queue[c] \/ Emptied(c)
PromisesMade ==
  /\ DOMAIN promised' = Creators
  /\ \A c \in Creators : promised'[c] = IF c \in cleanedUp' \ cleanedUp THEN ToSet(queue[c])
                                        ELSE promised[c]
  /\ cleanedUp \subseteq cleanedUp' /\ cleanedUp' \subseteq Creators
  /\ aborted \subseteq aborted' /\ aborted' \subseteq cleanedUp'
RoundsGone ==
  /\ DOMAIN current' = Fragments
  /\ \A f \in Fragments :
       \/ current'[f] = current[f]
       \/ current'[f] = None /\ current[f] \in cleanedUp' \cup {None}
CleansUp ==
  /\ objects' = objects /\ (late => late')
  /\ QueuesEmptied /\ PromisesMade /\ RoundsGone
  /\ listening' \subseteq listening /\ page' \subseteq page /\ released \subseteq released'

LEMMA NonePromised ==
  ASSUME Typed, cleanedUp' = cleanedUp, promised' = promised,
         aborted \subseteq aborted', aborted' \subseteq cleanedUp
  PROVE  PromisesMade
<1>1. cleanedUp' \ cleanedUp = {}
  OBVIOUS
<1>2. \A c \in Creators : promised'[c] = IF c \in cleanedUp' \ cleanedUp THEN ToSet(queue[c])
                                        ELSE promised[c]
  BY <1>1
<1> QED BY <1>2 DEF Typed, PromisesMade

LEMMA StepsCleanUp ==
  ASSUME IInv, Others, ~Rendered
  PROVE  CleansUp
<1>0. Typed /\ Shape /\ objects' = objects
  BY OthersMakeNothing DEF IInv
<1>1. ASSUME NEW k \in Creators \cup {None}, BeginCleanup(k), queue' = queue, late' = late,
             aborted' = aborted, DOMAIN current' = Fragments,
             \A f \in Fragments : \/ current'[f] = current[f]
                                  \/ current'[f] = None /\ current[f] = k,
             listening' = listening, page' \subseteq page, released' = released
      PROVE  CleansUp
  <2>1. QueuesEmptied
    BY <1>0, <1>1 DEF QueuesEmptied, Typed
  <2>2. PromisesMade
    BY <1>0, <1>1, Begun DEF PromisesMade, Typed
  <2>3. RoundsGone
    <3>1. cleanedUp' = cleanedUp \cup ({k} \ {None})
      BY <1>0, <1>1, Begun
    <3>2. k \in cleanedUp' \cup {None}
      BY <3>1
    <3> QED BY <1>1, <3>2 DEF RoundsGone
  <2> QED BY <1>0, <1>1, <2>1, <2>2, <2>3 DEF CleansUp
<1>2. ASSUME UNCHANGED <<queue, cleaningVars, aborted, current>>, late => late',
             listening' \subseteq listening, page' \subseteq page, released \subseteq released'
      PROVE  CleansUp
  <2>1. QueuesEmptied
    BY <1>0, <1>2 DEF QueuesEmptied, Typed
  <2>2. PromisesMade
    <3>1. /\ cleanedUp' = cleanedUp /\ promised' = promised
          /\ aborted \subseteq aborted' /\ aborted' \subseteq cleanedUp
      BY <1>0, <1>2 DEF cleaningVars, Typed
    <3> QED BY <1>0, <3>1, NonePromised
  <2>3. RoundsGone
    BY <1>0, <1>2 DEF RoundsGone, Typed
  <2> QED BY <1>0, <1>2, <2>1, <2>2, <2>3 DEF CleansUp
<1>3. CASE \E f \in Fragments : Redraw(f)
  <2>1. PICK f \in Fragments : Redraw(f)
    BY <1>3
  <2>2. PICK k : k = current[f]
    OBVIOUS
  <2>3. k \in Creators \cup {None}
    BY <1>0, <2>2 DEF Typed
  <2>4. /\ BeginCleanup(k) /\ current' = [current EXCEPT ![f] = None] /\ page' = page \ Drawn(f)
        /\ UNCHANGED <<queue, listening, released, historyVars>>
    BY <2>1, <2>2 DEF Redraw, LastRound
  <2>5. /\ DOMAIN current' = Fragments
        /\ \A g \in Fragments : \/ current'[g] = current[g]
                                \/ current'[g] = None /\ current[g] = k
    BY <1>0, <2>2, <2>4 DEF Typed
  <2> QED BY <1>1, <2>3, <2>4, <2>5 DEF historyVars
<1>4. CASE ClosePage
  <2>1. Root \in Creators
    BY <1>0, Numbers
  <2>2. BeginCleanup(Root) /\ UNCHANGED <<queue, drawingVars, page, released, historyVars>>
    BY <1>4 DEF ClosePage
  <2> QED BY <1>0, <1>1, <2>1, <2>2 DEF historyVars, drawingVars, Typed
<1>5. CASE CleanFragment
  <2>1. PICK f : f = Called.of
    OBVIOUS
  <2>2. f \in Fragments
    BY <1>5, <2>1, CalledFacts DEF CleanFragment, Cleans
  <2>3. PICK k : k = current[f]
    OBVIOUS
  <2>4. k \in Creators \cup {None}
    BY <1>0, <2>2, <2>3 DEF Typed
  <2>5. /\ BeginCleanup(k) /\ current' = [current EXCEPT ![f] = None]
        /\ UNCHANGED <<queue, listening, page, released, historyVars>>
    BY <1>5, <2>1, <2>3 DEF CleanFragment
  <2>6. /\ DOMAIN current' = Fragments
        /\ \A g \in Fragments : \/ current'[g] = current[g]
                                \/ current'[g] = None /\ current[g] = k
    BY <1>0, <2>2, <2>3, <2>5 DEF Typed
  <2> QED BY <1>1, <2>4, <2>5, <2>6 DEF historyVars
<1>6. CASE CleanupEnds
  <2>1. PICK c : c = Top.of
    OBVIOUS
  <2>2. c \in cleanedUp
    <3>1. stack # <<>> /\ Top.do = "cleanup"
      BY <1>6 DEF CleanupEnds, At
    <3>2. Sits(Len(stack)) /\ Top = stack[Len(stack)]
      BY <3>1, TopOf DEF IInv, Stacked
    <3> QED BY <2>1, <3>1, <3>2 DEF Sits
  <2>3. /\ queue' = [queue EXCEPT ![c] = <<>>]
        /\ UNCHANGED <<cleaningVars, drawingVars, page, released, historyVars>>
    BY <1>6, <2>1 DEF CleanupEnds
  <2>4. QueuesEmptied
    BY <1>0, <2>2, <2>3 DEF QueuesEmptied, Typed, Emptied
  <2>5. PromisesMade
    <3>1. /\ cleanedUp' = cleanedUp /\ promised' = promised
          /\ aborted \subseteq aborted' /\ aborted' \subseteq cleanedUp
      BY <1>0, <2>3 DEF cleaningVars, historyVars, Typed
    <3> QED BY <1>0, <3>1, NonePromised
  <2>6. RoundsGone
    BY <1>0, <2>3 DEF RoundsGone, Typed, drawingVars
  <2> QED BY <1>0, <2>3, <2>4, <2>5, <2>6 DEF CleansUp, drawingVars, historyVars
<1>7. CASE CleanerThrows
  <2>1. PICK c : c = stack[Len(stack) - 1].of
    OBVIOUS
  <2>2. c \in cleanedUp
    <3>1. stack # <<>> /\ Top.do = "user"
      BY <1>7 DEF CleanerThrows, At
    <3>2. Sits(Len(stack)) /\ Top = stack[Len(stack)]
      BY <3>1, TopOf DEF IInv, Stacked
    <3>3. Is(Len(stack) - 1, "cleanup")
      BY <3>1, <3>2 DEF Sits
    <3>4. Sits(Len(stack) - 1) /\ stack[Len(stack) - 1].do = "cleanup"
      BY <3>3 DEF Is, IInv, Stacked
    <3> QED BY <2>1, <3>4 DEF Sits
  <2>3. /\ queue' = [queue EXCEPT ![c] = <<>>] /\ aborted' = aborted \cup {c}
        /\ UNCHANGED <<cleaningVars, drawingVars, page, released, late>>
    BY <1>7, <2>1 DEF CleanerThrows
  <2>4. QueuesEmptied
    BY <1>0, <2>2, <2>3 DEF QueuesEmptied, Typed, Emptied
  <2>5. PromisesMade
    <3>1. /\ cleanedUp' = cleanedUp /\ promised' = promised
          /\ aborted \subseteq aborted' /\ aborted' \subseteq cleanedUp
      BY <1>0, <2>2, <2>3 DEF cleaningVars, Typed
    <3> QED BY <1>0, <3>1, NonePromised
  <2>6. RoundsGone
    BY <1>0, <2>3 DEF RoundsGone, Typed, drawingVars
  <2> QED BY <1>0, <2>3, <2>4, <2>5, <2>6 DEF CleansUp, drawingVars
<1>8. CASE BlockReturns \/ CleanerReturns
  BY <1>8, <1>2 DEF BlockReturns, CleanerReturns, historyVars, drawingVars
<1>9. CASE DeleteElement
  BY <1>9, <1>2 DEF DeleteElement, historyVars, drawingVars
<1>10. CASE CloseResource
  BY <1>10, <1>2 DEF CloseResource, historyVars, drawingVars
<1>11. CASE Unlisten
  BY <1>11, <1>2 DEF Unlisten, historyVars
<1>12. CASE BlockThrows
  <2>1. late => late'
    BY <1>12, Zenon DEF BlockThrows
  <2>2. /\ UNCHANGED <<queue, cleaningVars, aborted, current>>
        /\ listening' = listening /\ page' = page /\ released' = released
    BY <1>12 DEF BlockThrows
  <2> QED BY <1>2, <2>1, <2>2
<1> QED BY <1>3, <1>4, <1>5, <1>6, <1>7, <1>8, <1>9, <1>10, <1>11, <1>12 DEF Others

(***************************************************************************)
(* Cleaners are of the right kind.                                         *)
(***************************************************************************)
LEMMA StillCleans ==
  ASSUME Shape, Stays, NEW c, NEW cleaner, Cleans(c, cleaner)
  PROVE  Cleans(c, cleaner)'
<1>1. /\ Elements \subseteq Elements' /\ Fragments \subseteq Fragments'
      /\ Resources \subseteq Resources'
  BY KindsStay
<1>2. cleaner.of \in Fragments => objects'[cleaner.of] = objects[cleaner.of]
  BY KindsDiffer DEF Stays
<1> QED BY <1>1, <1>2 DEF Cleans

\* A creator's rounds: those of a fragment.
Rounds == /\ DOMAIN current = Fragments
          /\ \A f \in Fragments :
               current[f] # None => current[f] \in Creators /\ objects[current[f]].in = f

LEMMA TypedWhenRegistering ==
  ASSUME Typed, Shape, Stays, NEW W, NEW cleaner, Registers(W, cleaner),
         W = {} \/ cleaner \in Registrable, \A a \in W : Cleans(a, cleaner)',
         Rounds', listening' \subseteq Fragments', page' \subseteq Elements' \cup Fragments'
  PROVE  Typed'
<1>1. Creators \subseteq Creators'
  BY KindsStay
<1>2. ASSUME NEW c \in Creators'
      PROVE  /\ queue'[c] \in Seq(Registrable) /\ promised'[c] \subseteq Registrable
             /\ \A x \in ToSet(queue'[c]) \cup promised'[c] : Cleans(c, x)'
  <2>1. CASE c \in Creators
    <3>1. /\ queue'[c] \in Seq(Registrable) /\ promised'[c] = promised[c]
          /\ ToSet(queue'[c]) = ToSet(queue[c]) \cup (IF c \in W THEN {cleaner} ELSE {})
      BY <2>1 DEF Registers, GrowsBy
    <3>2. /\ promised[c] \subseteq Registrable
          /\ \A x \in ToSet(queue[c]) \cup promised[c] : Cleans(c, x)
      BY <2>1 DEF Typed
    <3>3. \A x \in ToSet(queue[c]) \cup promised[c] : Cleans(c, x)'
      BY <3>2, StillCleans
    <3> QED BY <3>1, <3>2, <3>3
  <2>2. CASE c \notin Creators
    <3>1. queue'[c] = <<>> /\ promised'[c] = {}
      BY <2>2 DEF Registers
    <3>2. ToSet(<<>>) = {}
      BY DEF ToSet
    <3> QED BY <3>1, <3>2
  <2> QED BY <2>1, <2>2
<1>3. DOMAIN queue' = Creators' /\ DOMAIN promised' = Creators'
      /\ cleanedUp' = cleanedUp /\ aborted' = aborted
  BY DEF Registers
<1>4. cleanedUp' \subseteq Creators' /\ aborted' \subseteq cleanedUp'
  BY <1>1, <1>3 DEF Typed
<1> QED BY <1>2, <1>3, <1>4 DEF Typed, Rounds

LEMMA TypedWhenCleaning ==
  ASSUME Typed, Shape, CleansUp
  PROVE  Typed'
<1>1. /\ Creators' = Creators /\ Elements' = Elements /\ Fragments' = Fragments
      /\ Stays /\ objects' = objects
  BY NothingMade DEF CleansUp
<1>2. ASSUME NEW c \in Creators
      PROVE  /\ queue'[c] \in Seq(Registrable) /\ promised'[c] \subseteq Registrable
             /\ \A x \in ToSet(queue'[c]) \cup promised'[c] : Cleans(c, x)'
  <2>1. /\ queue[c] \in Seq(Registrable) /\ promised[c] \subseteq Registrable
        /\ \A x \in ToSet(queue[c]) \cup promised[c] : Cleans(c, x)
    BY DEF Typed
  <2>2. queue'[c] = queue[c] \/ queue'[c] = <<>>
    BY DEF CleansUp, QueuesEmptied, Emptied
  <2>3. queue'[c] \in Seq(Registrable) /\ ToSet(queue'[c]) \subseteq ToSet(queue[c])
    <3>1. CASE queue'[c] = queue[c]
      BY <2>1, <3>1
    <3>2. CASE queue'[c] = <<>>
      BY <3>2 DEF ToSet
    <3> QED BY <2>2, <3>1, <3>2
  <2>4. promised'[c] = promised[c] \/ promised'[c] = ToSet(queue[c])
    BY DEF CleansUp, PromisesMade
  <2>5. ToSet(queue[c]) \subseteq Registrable
    BY <2>1 DEF ToSet
  <2>6. /\ promised'[c] \subseteq Registrable
        /\ \A x \in ToSet(queue'[c]) \cup promised'[c] : Cleans(c, x)
    BY <2>1, <2>3, <2>4, <2>5
  <2> QED BY <1>1, <2>3, <2>6, StillCleans
<1>3. /\ DOMAIN queue' = Creators /\ DOMAIN promised' = Creators
      /\ cleanedUp' \subseteq Creators /\ aborted' \subseteq cleanedUp'
  BY DEF CleansUp, QueuesEmptied, PromisesMade
<1>4. /\ DOMAIN current' = Fragments
      /\ \A f \in Fragments :
           current'[f] # None => current'[f] \in Creators /\ objects'[current'[f]].in = f
  BY <1>1 DEF CleansUp, RoundsGone, Typed
<1>5. listening' \subseteq Fragments /\ page' \subseteq Elements \cup Fragments
  BY DEF CleansUp, Typed
<1> QED BY <1>1, <1>2, <1>3, <1>4, <1>5 DEF Typed

LEMMA TypedKept ==
  ASSUME IInv, Next
  PROVE  Typed'
<1>0. Typed /\ Shape /\ Shape' /\ Stays
  BY ShapeKept DEF IInv
<1>1. /\ Elements \subseteq Elements' /\ Fragments \subseteq Fragments'
      /\ Creators \subseteq Creators' /\ Resources \subseteq Resources'
  BY <1>0, KindsStay
<1>2. ASSUME current' = current, Fragments' = Fragments PROVE Rounds'
  <2>1. ASSUME NEW f \in Fragments, current[f] # None
        PROVE  current[f] \in Creators' /\ objects'[current[f]].in = f
    <3>1. current[f] \in Creators /\ objects[current[f]].in = f
      BY <1>0, <2>1 DEF Typed
    <3> QED BY <1>0, <1>1, <3>1, KindsDiffer DEF Stays
  <2> QED BY <1>0, <1>2, <2>1 DEF Rounds, Typed
<1>3. ASSUME NEW c \in Creators, MakeResource(c) PROVE Typed'
  <2>1. PICK m, W : m = Made /\ W = Above(c)
    OBVIOUS
  <2>2. PICK cleaner : cleaner = Cleaner("close", m)
    OBVIOUS
  <2>3. Registers(W, cleaner) /\ m \in Nat
    <3>1. Registers(Above(c), Cleaner("close", Made)) /\ Made \in Nat
      BY <1>3, ResourceRegisters
    <3> QED BY <2>1, <2>2, <3>1, Zenon
  <2>4. Resources' = Resources \cup {m} /\ Fragments' = Fragments
    <3>1. Resources' = Resources \cup {Made} /\ Fragments' = Fragments
      BY <1>3, ResourceMade
    <3> QED BY <2>1, <3>1
  <2>5. cleaner \in Registrable /\ cleaner.do = "close" /\ cleaner.of = m
    BY <2>2, <2>3 DEF Cleaner, Registrable, Deeds
  <2>6. \A a \in W : Cleans(a, cleaner)'
    BY <2>4, <2>5 DEF Cleans
  <2>7. current' = current /\ listening' = listening /\ page' = page
    BY <1>3 DEF MakeResource, drawingVars
  <2>8. Rounds' /\ listening' \subseteq Fragments' /\ page' \subseteq Elements' \cup Fragments'
    BY <1>0, <1>1, <1>2, <2>4, <2>7 DEF Typed
  <2> QED BY <1>0, <2>3, <2>5, <2>6, <2>8, TypedWhenRegistering
<1>4. ASSUME NEW c \in Creators, MakeElement(c) PROVE Typed'
  <2>1. PICK m, W : m = Made /\ W = {c}
    OBVIOUS
  <2>2. PICK cleaner : cleaner = Cleaner("delete", m)
    OBVIOUS
  <2>3. Registers(W, cleaner) /\ m \in Nat
    <3>1. Registers({c}, Cleaner("delete", Made)) /\ Made \in Nat
      BY <1>4, ElementRegisters
    <3> QED BY <2>1, <2>2, <3>1, Zenon
  <2>4. Elements' = Elements \cup {m} /\ Fragments' = Fragments
    <3>1. Elements' = Elements \cup {Made} /\ Fragments' = Fragments
      BY <1>4, ElementMade
    <3> QED BY <2>1, <3>1
  <2>5. cleaner \in Registrable /\ cleaner.do = "delete" /\ cleaner.of = m
    BY <2>2, <2>3 DEF Cleaner, Registrable, Deeds
  <2>6. \A a \in W : Cleans(a, cleaner)'
    BY <2>4, <2>5 DEF Cleans
  <2>7. current' = current /\ listening' = listening /\ page' \subseteq page \cup {m}
    BY <1>4, <2>1 DEF MakeElement, drawingVars, Placed
  <2>8. Rounds' /\ listening' \subseteq Fragments' /\ page' \subseteq Elements' \cup Fragments'
    BY <1>0, <1>1, <1>2, <2>4, <2>7 DEF Typed
  <2> QED BY <1>0, <2>3, <2>5, <2>6, <2>8, TypedWhenRegistering
<1>5. ASSUME NEW c \in Creators, Render(c) PROVE Typed'
  <2>1. PICK m, W : m = Made /\ W = {c}
    OBVIOUS
  <2>2. PICK cleaner, k : cleaner = Cleaner("delete", m) /\ k = m + 1
    OBVIOUS
  <2>3. Registers(W, cleaner) /\ m \in Nat
    <3>1. Registers({c}, Cleaner("delete", Made)) /\ Made \in Nat
      BY <1>5, FragmentRegisters
    <3> QED BY <2>1, <2>2, <3>1, Zenon
  <2>4. /\ Elements' = Elements /\ Fragments' = Fragments \cup {m}
        /\ Creators' = Creators \cup {k} /\ m \notin DOMAIN objects /\ objects'[k].in = m
    <3>1. /\ Elements' = Elements /\ Fragments' = Fragments \cup {Made}
          /\ Creators' = Creators \cup {Made + 1} /\ {Made, Made + 1} \cap DOMAIN objects = {}
          /\ objects'[Made + 1] = Object("creator", c, Made, {Made} \cup Around(Place(c)))
      BY <1>5, FragmentMade
    <3>2. objects'[Made + 1].in = Made
      BY <3>1, Fields
    <3> QED BY <2>1, <2>2, <3>1, <3>2
  <2>5. cleaner \in Registrable /\ cleaner.do = "delete" /\ cleaner.of = m
    BY <2>2, <2>3 DEF Cleaner, Registrable, Deeds
  <2>6. \A a \in W : Cleans(a, cleaner)'
    BY <2>4, <2>5 DEF Cleans
  <2>7. /\ current' = Extended(current, m, k) /\ listening' = listening \cup {m}
        /\ page' \subseteq page \cup {m}
    BY <1>5, <2>1, <2>2 DEF Render, Placed
  <2>8. Rounds'
    <3>1. DOMAIN current' = Fragments'
      BY <1>0, <2>4, <2>7 DEF Extended, Typed
    <3>2. ASSUME NEW f \in Fragments', current'[f] # None
          PROVE  current'[f] \in Creators' /\ objects'[current'[f]].in = f
      <4>1. CASE f = m
        <5>1. current'[f] = k
          BY <1>0, <2>7, <4>1 DEF Extended, Typed
        <5> QED BY <2>4, <4>1, <5>1
      <4>2. CASE f # m
        <5>1. f \in Fragments /\ current'[f] = current[f]
          BY <1>0, <2>4, <2>7, <4>2 DEF Extended, Typed
        <5>2. current[f] \in Creators /\ objects[current[f]].in = f
          BY <1>0, <3>2, <5>1 DEF Typed
        <5> QED BY <1>0, <1>1, <5>1, <5>2, KindsDiffer DEF Stays
      <4> QED BY <4>1, <4>2
    <3> QED BY <3>1, <3>2 DEF Rounds
  <2>9. listening' \subseteq Fragments' /\ page' \subseteq Elements' \cup Fragments'
    BY <1>0, <1>1, <2>4, <2>7 DEF Typed
  <2> QED BY <1>0, <2>3, <2>5, <2>6, <2>8, <2>9, TypedWhenRegistering
<1>6. ASSUME NEW e \in Elements, New(e) PROVE Typed'
  <2>1. /\ objects' = Append(objects, Object("creator", objects[e].by, e, Around(e)))
        /\ queue' = Extended(queue, Len(objects'), <<>>)
        /\ promised' = Extended(promised, Len(objects'), {})
    BY <1>6, InElement
  <2>2. /\ cleanedUp' = cleanedUp /\ aborted' = aborted /\ (late => late')
        /\ current' = current /\ listening' = listening /\ page' = page
    BY <1>6 DEF New, drawingVars
  <2>3. PICK W, cleaner : W = {} /\ cleaner = 0
    OBVIOUS
  <2>4. Registers(W, cleaner)
    <3>1. Registers({}, cleaner)
      BY <2>1, <2>2, CreatorRegisters
    <3> QED BY <2>3, <3>1, Zenon
  <2>5. Fragments' = Fragments
    BY <2>1, CreatorMade
  <2>6. Rounds' /\ listening' \subseteq Fragments' /\ page' \subseteq Elements' \cup Fragments'
    BY <1>0, <1>1, <1>2, <2>2, <2>5 DEF Typed
  <2>7. \A a \in W : Cleans(a, cleaner)'
    BY <2>3
  <2> QED BY <1>0, <2>3, <2>4, <2>6, <2>7, TypedWhenRegistering
<1>7. CASE DrawAgain
  <2>1. PICK f, m : f = Top.of /\ m = Made
    OBVIOUS
  <2>2. /\ f \in Fragments
        /\ objects' = Append(objects, Object("creator", objects[f].by, f, Around(f)))
        /\ queue' = Extended(queue, Len(objects'), <<>>)
        /\ promised' = Extended(promised, Len(objects'), {})
        /\ current' = [current EXCEPT ![f] = m]
    BY <1>7, <2>1, InFragment
  <2>3. /\ cleanedUp' = cleanedUp /\ aborted' = aborted /\ (late => late')
        /\ listening' = listening /\ page' = page
    BY <1>7 DEF DrawAgain
  <2>4. PICK W, cleaner : W = {} /\ cleaner = 0
    OBVIOUS
  <2>5. Registers(W, cleaner)
    <3>1. Registers({}, cleaner)
      BY <2>2, <2>3, CreatorRegisters
    <3> QED BY <2>4, <3>1, Zenon
  <2>6. Fragments' = Fragments /\ Creators' = Creators \cup {m} /\ objects'[m].in = f
    <3>1. /\ Fragments' = Fragments /\ Creators' = Creators \cup {Made}
          /\ objects'[Made] = Object("creator", objects[f].by, f, Around(f))
      BY <2>2, CreatorMade
    <3>2. objects'[Made].in = f
      BY <3>1, Fields
    <3> QED BY <2>1, <3>1, <3>2
  <2>7. Rounds'
    <3>1. ASSUME NEW g \in Fragments, current'[g] # None
          PROVE  current'[g] \in Creators' /\ objects'[current'[g]].in = g
      <4>1. CASE g = f
        <5>1. current'[g] = m
          BY <1>0, <2>2, <4>1 DEF Typed
        <5> QED BY <2>6, <4>1, <5>1
      <4>2. CASE g # f
        <5>1. current'[g] = current[g]
          BY <1>0, <2>2, <4>2 DEF Typed
        <5>2. current[g] \in Creators /\ objects[current[g]].in = g
          BY <1>0, <3>1, <5>1 DEF Typed
        <5> QED BY <1>0, <1>1, <5>1, <5>2, KindsDiffer DEF Stays
      <4> QED BY <4>1, <4>2
    <3>2. DOMAIN current' = Fragments'
      BY <1>0, <2>2, <2>6 DEF Typed
    <3> QED BY <2>6, <3>1, <3>2 DEF Rounds
  <2>8. listening' \subseteq Fragments' /\ page' \subseteq Elements' \cup Fragments'
    BY <1>0, <1>1, <2>3 DEF Typed
  <2>9. \A a \in W : Cleans(a, cleaner)'
    BY <2>4
  <2> QED BY <1>0, <2>4, <2>5, <2>7, <2>8, <2>9, TypedWhenRegistering
<1>8. CASE Rendered
  <2>1. PICK f : f = Top.of
    OBVIOUS
  <2>2. PICK W, cleaner : W = Above(objects[f].by) /\ cleaner = Cleaner("clean", f)
    OBVIOUS
  <2>3. /\ Registers(W, cleaner) /\ f \in Fragments /\ f \in Nat /\ objects' = objects
    <3>1. /\ Registers(Above(objects[Top.of].by), Cleaner("clean", Top.of))
          /\ Top.of \in Fragments /\ Top.of \in Nat /\ objects' = objects
      BY <1>8, RenderedRegisters
    <3> QED BY <2>1, <2>2, <3>1, Zenon
  <2>4. Fragments' = Fragments /\ Elements' = Elements
    BY <1>0, <2>3, NothingMade
  <2>5. cleaner \in Registrable /\ cleaner.do = "clean" /\ cleaner.of = f
    BY <2>2, <2>3 DEF Cleaner, Registrable, Deeds
  <2>6. \A a \in W : Cleans(a, cleaner)'
    <3>1. MadeBy(f)
      BY <1>0, <2>3, KindsDiffer DEF Shape
    <3>2. \A a \in W : a \in objects[f].under
      BY <2>2, <3>1 DEF MadeBy
    <3> QED BY <2>3, <2>4, <2>5, <3>2 DEF Cleans
  <2>7. current' = current /\ listening' = listening /\ page' = page
    BY <1>8 DEF Rendered, drawingVars
  <2>8. Rounds' /\ listening' \subseteq Fragments' /\ page' \subseteq Elements' \cup Fragments'
    BY <1>0, <1>1, <1>2, <2>4, <2>7 DEF Typed
  <2> QED BY <1>0, <2>3, <2>5, <2>6, <2>8, TypedWhenRegistering
<1>9. CASE Others /\ ~Rendered
  BY <1>0, <1>9, StepsCleanUp, TypedWhenCleaning
<1> QED BY <1>3, <1>4, <1>5, <1>6, <1>7, <1>8, <1>9, StepKinds DEF Makes

(***************************************************************************)
(* What a step leaves on the stack.                                        *)
(***************************************************************************)
StackKeeps(k) ==
  /\ stack' \in Seq(Frames) /\ DOMAIN stack' = 1..Len(stack') /\ Len(stack') \in Nat
  /\ DOMAIN stack = 1..Len(stack) /\ Len(stack) \in Nat
  /\ k \in Nat /\ k <= Len(stack) /\ k <= Len(stack')
  /\ \A i \in 1..k : Remains(i) /\ (i < Len(stack) => stack'[i] = stack[i])

Same(k) == \A i \in 1..k : stack'[i] = stack[i]

LEMMA StackStays ==
  ASSUME Stacked, stack' = stack
  PROVE  StackKeeps(Len(stack)) /\ Len(stack') = Len(stack) /\ Same(Len(stack))
<1>1. stack \in Seq(Frames) /\ Len(stack) \in Nat /\ DOMAIN stack = 1..Len(stack)
  BY DEF Stacked
<1>2. \A i \in 1..Len(stack) : Remains(i) /\ stack'[i] = stack[i]
  BY <1>1 DEF Remains
<1> QED BY <1>1, <1>2 DEF StackKeeps, Same

LEMMA StackPops ==
  ASSUME Stacked, stack # <<>>, stack' = Front(stack)
  PROVE  StackKeeps(Len(stack) - 1) /\ Len(stack') = Len(stack) - 1
<1>1. /\ stack' \in Seq(Frames) /\ DOMAIN stack' = 1..(Len(stack) - 1)
      /\ Len(stack') = Len(stack) - 1
      /\ \A i \in DOMAIN stack' : i \in DOMAIN stack /\ stack'[i] = stack[i]
  BY Returned
<1>2. Len(stack) \in Nat \ {0} /\ DOMAIN stack = 1..Len(stack)
  BY TopOf
<1>3. \A i \in 1..(Len(stack) - 1) : Remains(i) /\ stack'[i] = stack[i]
  BY <1>1 DEF Remains
<1> QED BY <1>1, <1>2, <1>3 DEF StackKeeps

LEMMA StackThrows ==
  ASSUME IInv, CleanerThrows
  PROVE  /\ Len(stack) \in Nat /\ Len(stack) >= 2
         /\ StackKeeps(Len(stack) - 2) /\ Len(stack') = Len(stack) - 2
         /\ stack[Len(stack)].do = "user" /\ stack[Len(stack) - 1].do = "cleanup"
<1>1. stack # <<>> /\ Top.do = "user" /\ stack' = Front(Front(stack)) /\ Stacked
  BY DEF CleanerThrows, At, IInv
<1>2. /\ Len(stack) \in DOMAIN stack /\ Len(stack) \in Nat \ {0} /\ Top = stack[Len(stack)]
      /\ DOMAIN stack = 1..Len(stack)
  BY <1>1, TopOf
<1>3. Is(Len(stack) - 1, "cleanup")
  BY <1>1, <1>2 DEF Stacked, Sits
<1>4. Len(stack) - 1 \in 1..Len(stack) /\ stack[Len(stack) - 1].do = "cleanup"
  BY <1>2, <1>3 DEF Is
<1>5. PICK s : s = Front(stack)
  OBVIOUS
<1>6. /\ s \in Seq(Frames) /\ Len(s) = Len(stack) - 1
      /\ \A i \in 1..(Len(stack) - 1) : s[i] = stack[i]
  BY <1>1, <1>5, Beneath DEF Stacked
<1>7. s # <<>>
  BY <1>2, <1>4, <1>6
<1>8. /\ Front(s) \in Seq(Frames) /\ Len(Front(s)) = Len(s) - 1
      /\ \A i \in 1..(Len(s) - 1) : Front(s)[i] = s[i]
  BY <1>6, <1>7, Beneath
<1>9. stack' = Front(s)
  BY <1>1, <1>5
<1>10. /\ stack' \in Seq(Frames) /\ Len(stack') = Len(stack) - 2 /\ Len(stack) >= 2
       /\ \A i \in 1..(Len(stack) - 2) : stack'[i] = stack[i]
  <2>1. /\ stack' \in Seq(Frames) /\ Len(stack') = Len(s) - 1
        /\ \A i \in 1..(Len(s) - 1) : stack'[i] = s[i]
    BY <1>8, <1>9, Zenon
  <2>2. Len(stack) >= 2 /\ Len(s) - 1 = Len(stack) - 2 /\ 1..(Len(s) - 1) = 1..(Len(stack) - 2)
    BY <1>2, <1>4, <1>6
  <2>3. \A i \in 1..(Len(stack) - 2) : i \in 1..(Len(stack) - 1)
    BY <1>2
  <2> QED BY <1>6, <2>1, <2>2, <2>3
<1>11. DOMAIN stack' = 1..Len(stack')
  BY <1>10
<1>12. \A i \in 1..(Len(stack) - 2) : Remains(i)
  BY <1>2, <1>10, <1>11 DEF Remains
<1> QED BY <1>1, <1>2, <1>4, <1>10, <1>11, <1>12 DEF StackKeeps

LEMMA StackGrows ==
  ASSUME Stacked, NEW calls \in Seq(Frames), stack' = stack \o calls
  PROVE  /\ StackKeeps(Len(stack)) /\ Len(stack') = Len(stack) + Len(calls)
         /\ Len(calls) \in Nat /\ Same(Len(stack))
         /\ \A i \in 1..Len(calls) : stack'[Len(stack) + i] = calls[i]
<1>1. stack \in Seq(Frames) /\ Len(stack) \in Nat /\ DOMAIN stack = 1..Len(stack)
  BY DEF Stacked
<1>2. /\ stack' \in Seq(Frames) /\ Len(stack') = Len(stack) + Len(calls)
      /\ Len(calls) \in Nat
      /\ DOMAIN stack' = 1..(Len(stack) + Len(calls))
      /\ \A i \in 1..Len(stack) : stack'[i] = stack[i]
      /\ \A i \in 1..Len(calls) : stack'[Len(stack) + i] = calls[i]
  BY <1>1, Pushed
<1>3. \A i \in 1..Len(stack) : Remains(i)
  BY <1>1, <1>2 DEF Remains
<1> QED BY <1>1, <1>2, <1>3 DEF StackKeeps, Same

LEMMA StackContinues ==
  ASSUME Stacked, Typed, At("cleanup"), Top.next # 0, NEW calls \in Seq(Frames), Continue(calls)
  PROVE  /\ StackKeeps(Len(stack)) /\ Len(stack') = Len(stack) + Len(calls)
         /\ Len(calls) \in Nat
         /\ \A i \in 1..Len(calls) : stack'[Len(stack) + i] = calls[i]
         /\ Len(stack) >= 1 /\ Top = stack[Len(stack)] /\ Top.do = "cleanup"
         /\ stack'[Len(stack)].next = NextCleaner
         /\ NextCleaner \in 0..Len(queue[Top.of])
<1>1. /\ stack' \in Seq(Frames) /\ Len(stack') = Len(stack) + Len(calls)
      /\ Len(calls) \in Nat /\ DOMAIN stack' = 1..(Len(stack) + Len(calls))
      /\ \A i \in 1..(Len(stack) - 1) : stack'[i] = stack[i]
      /\ stack'[Len(stack)].do = "cleanup" /\ stack'[Len(stack)].of = Top.of
      /\ stack'[Len(stack)].next = NextCleaner
      /\ \A i \in 1..Len(calls) : stack'[Len(stack) + i] = calls[i]
      /\ NextCleaner \in 0..Len(queue[Top.of])
  BY Continued
<1>2. stack # <<>> /\ Top.do = "cleanup"
  BY DEF At
<1>3. Len(stack) \in Nat \ {0} /\ Top = stack[Len(stack)] /\ DOMAIN stack = 1..Len(stack)
  BY <1>2, TopOf
<1>4. ASSUME NEW i \in 1..Len(stack) PROVE Remains(i) /\ (i < Len(stack) => stack'[i] = stack[i])
  <2>1. i \in DOMAIN stack'
    BY <1>1, <1>3
  <2>2. CASE i = Len(stack)
    BY <1>1, <1>2, <1>3, <2>1, <2>2 DEF Remains
  <2>3. CASE i # Len(stack)
    <3>1. i \in 1..(Len(stack) - 1) /\ i \in DOMAIN stack
      BY <1>3, <2>3
    <3>2. stack'[i] = stack[i]
      BY <1>1, <3>1
    <3> QED BY <2>1, <3>1, <3>2 DEF Remains
  <2> QED BY <2>2, <2>3
<1> QED BY <1>1, <1>2, <1>3, <1>4 DEF StackKeeps

\* Render, Redraw and DrawAgain.
LEMMA StackRenders ==
  ASSUME IInv, NEW c \in Creators, Render(c)
  PROVE  /\ StackKeeps(Len(stack)) /\ Len(stack') = Len(stack) + 1 /\ Same(Len(stack))
         /\ stack'[Len(stack) + 1] = Frame("first", Made)
         /\ Frame("first", Made) \in Frames
<1>1. PICK e : e = Frame("first", Made)
  OBVIOUS
<1>2. e \in Frames
  BY <1>1, Numbers, FrameFacts DEF IInv, FrameKinds
<1>3. stack' = Append(stack, e) /\ stack \in Seq(Frames)
  BY <1>1 DEF Render, IInv, Stacked
<1>4. /\ Append(stack, e) \in Seq(Frames) /\ Len(Append(stack, e)) = Len(stack) + 1
      /\ DOMAIN Append(stack, e) = 1..(Len(stack) + 1)
      /\ \A i \in 1..Len(stack) : Append(stack, e)[i] = stack[i]
      /\ Append(stack, e)[Len(stack) + 1] = e
  BY <1>2, <1>3, Above1
<1>5. Len(stack) \in Nat /\ DOMAIN stack = 1..Len(stack)
  BY <1>3
<1>6. \A i \in 1..Len(stack) : Remains(i)
  BY <1>3, <1>4, <1>5 DEF Remains
<1>7. StackKeeps(Len(stack))
  BY <1>3, <1>4, <1>5, <1>6 DEF StackKeeps
<1>8. Len(stack') = Len(stack) + 1 /\ stack'[Len(stack) + 1] = e /\ Same(Len(stack))
  BY <1>3, <1>4 DEF Same
<1> QED BY <1>1, <1>2, <1>7, <1>8, Zenon

LEMMA StackRedraws ==
  ASSUME IInv, NEW f \in Fragments, Redraw(f)
  PROVE  /\ StackKeeps(Len(stack)) /\ Same(Len(stack))
         /\ CallsToCleanUp(current[f]) \in Seq(Frames)
         /\ Len(CallsToCleanUp(current[f])) \in Nat
         /\ Len(stack') = Len(stack) + 1 + Len(CallsToCleanUp(current[f]))
         /\ stack'[Len(stack) + 1] = Frame("redraw", f)
         /\ \A i \in 1..Len(CallsToCleanUp(current[f])) :
              stack'[Len(stack) + 1 + i] = CallsToCleanUp(current[f])[i]
<1>1. PICK e, calls : e = Frame("redraw", f) /\ calls = CallsToCleanUp(current[f])
  OBVIOUS
<1>2. e \in Frames /\ calls \in Seq(Frames)
  <2>1. f \in Nat /\ current[f] \in Creators \cup {None}
    BY Numbers, KindsDiffer DEF IInv, Typed
  <2> QED BY <1>1, <2>1, FrameFacts, CallsFacts DEF IInv, FrameKinds
<1>3. stack' = Append(stack, e) \o calls /\ stack \in Seq(Frames)
  BY <1>1 DEF Redraw, LastRound, IInv, Stacked
<1>4. PICK s : s = Append(stack, e)
  OBVIOUS
<1>5. /\ s \in Seq(Frames) /\ Len(s) = Len(stack) + 1
      /\ \A i \in 1..Len(stack) : s[i] = stack[i]
      /\ s[Len(stack) + 1] = e
  BY <1>2, <1>3, <1>4, Above1
<1>6. /\ stack' \in Seq(Frames) /\ Len(stack') = Len(s) + Len(calls)
      /\ Len(calls) \in Nat /\ DOMAIN stack' = 1..(Len(s) + Len(calls))
      /\ \A i \in 1..Len(s) : stack'[i] = s[i]
      /\ \A i \in 1..Len(calls) : stack'[Len(s) + i] = calls[i]
  BY <1>2, <1>3, <1>4, <1>5, Pushed
<1>7. Len(stack) \in Nat /\ DOMAIN stack = 1..Len(stack)
  BY <1>3
<1>8. \A i \in 1..Len(stack) : Remains(i) /\ stack'[i] = stack[i]
  BY <1>5, <1>6, <1>7 DEF Remains
<1>9. StackKeeps(Len(stack))
  BY <1>5, <1>6, <1>7, <1>8 DEF StackKeeps
<1>10. stack'[Len(stack) + 1] = e
  BY <1>5, <1>6, <1>7
<1>11. \A i \in 1..Len(calls) : stack'[Len(stack) + 1 + i] = calls[i]
  BY <1>5, <1>6
<1>12. Len(stack') = Len(stack) + 1 + Len(calls) /\ Len(calls) \in Nat
  BY <1>5, <1>6
<1>13. Same(Len(stack))
  BY <1>8 DEF Same
<1> QED BY <1>1, <1>2, <1>9, <1>10, <1>11, <1>12, <1>13, Zenon

LEMMA StackDrawsAgain ==
  ASSUME IInv, DrawAgain
  PROVE  /\ StackKeeps(Len(stack) - 1) /\ Len(stack') = Len(stack) /\ Len(stack) >= 1
         /\ stack[Len(stack)].do = "redraw" /\ Top = stack[Len(stack)]
         /\ stack'[Len(stack)] = Frame("block", Top.of)
<1>1. PICK e : e = Frame("block", Top.of)
  OBVIOUS
<1>2. stack # <<>> /\ Top.do = "redraw" /\ Top.of \in Fragments /\ stack' = Append(Front(stack), e)
  BY <1>1, InFragment
<1>3. e \in Frames /\ stack \in Seq(Frames)
  BY <1>1, <1>2, FrameFacts, Numbers, KindsDiffer DEF IInv, FrameKinds, Stacked
<1>4. Len(stack) \in Nat \ {0} /\ DOMAIN stack = 1..Len(stack) /\ Top = stack[Len(stack)]
  BY <1>2, TopOf DEF IInv
<1>5. PICK s : s = Append(Front(stack), e)
  OBVIOUS
<1>6. /\ s \in Seq(Frames) /\ Len(s) = Len(stack) /\ DOMAIN s = 1..Len(stack)
      /\ \A i \in 1..(Len(stack) - 1) : s[i] = stack[i]
      /\ s[Len(stack)] = e
  BY <1>2, <1>3, <1>5, Changed
<1>7. stack' = s
  BY <1>2, <1>5
<1>8. \A i \in 1..(Len(stack) - 1) : Remains(i) /\ stack'[i] = stack[i]
  BY <1>4, <1>6, <1>7 DEF Remains
<1>9. /\ stack' \in Seq(Frames) /\ Len(stack') = Len(stack) /\ DOMAIN stack' = 1..Len(stack')
      /\ stack'[Len(stack)] = e
  BY <1>6, <1>7, Zenon
<1>10. StackKeeps(Len(stack) - 1)
  BY <1>4, <1>8, <1>9 DEF StackKeeps
<1>11. Len(stack) >= 1
  BY <1>4
<1> QED BY <1>1, <1>2, <1>4, <1>9, <1>10, <1>11, Zenon

(***************************************************************************)
(* What is made is registered.                                             *)
(***************************************************************************)
LEMMA FirstStays ==
  ASSUME IInv, Next, NEW f, BeingRendered(f), ~(Rendered /\ Top.of = f), ~late'
  PROVE  BeingRendered(f)'
<1>0. Stacked /\ Typed
  BY DEF IInv
<1>1. PICK i \in DOMAIN stack : stack[i].do = "first" /\ stack[i].of = f
  BY DEF BeingRendered
<1>2. DOMAIN stack = 1..Len(stack) /\ Len(stack) \in Nat /\ stack # <<>>
  BY <1>0, <1>1 DEF Stacked
<1>3. ASSUME NEW k \in Nat, StackKeeps(k), i <= k PROVE BeingRendered(f)'
  <2>1. i \in DOMAIN stack' /\ stack'[i].do = "first" /\ stack'[i].of = f
    BY <1>1, <1>2, <1>3 DEF StackKeeps, Remains
  <2> QED BY <2>1 DEF BeingRendered
<1>4. ASSUME StackKeeps(Len(stack)) PROVE BeingRendered(f)'
  BY <1>1, <1>2, <1>3, <1>4
<1>5. ASSUME Top.do # "first" \/ Top.of # f PROVE i <= Len(stack) - 1
  <2>1. Top = stack[Len(stack)]
    BY <1>0, <1>2, TopOf
  <2>2. i # Len(stack)
    BY <1>1, <1>5, <2>1
  <2> QED BY <1>1, <1>2, <2>2
<1>6. ASSUME Top.do # "first" \/ Top.of # f, stack' = Front(stack) PROVE BeingRendered(f)'
  <2>1. StackKeeps(Len(stack) - 1) /\ Len(stack) - 1 \in Nat
    BY <1>0, <1>2, <1>6, StackPops DEF StackKeeps
  <2> QED BY <1>3, <1>5, <1>6, <2>1
<1>7. CASE (\E c \in Creators : MakeResource(c) \/ MakeElement(c)) \/ \E e \in Elements : New(e)
  <2>1. stack' = stack
    BY <1>7 DEF MakeResource, MakeElement, New
  <2> QED BY <1>0, <1>4, <2>1, StackStays
<1>8. CASE \E c \in Creators : Render(c)
  BY <1>4, <1>8, StackRenders
<1>9. CASE \E g \in Fragments : Redraw(g)
  BY <1>4, <1>9, StackRedraws
<1>10. CASE DrawAgain
  <2>1. StackKeeps(Len(stack) - 1) /\ Top.do = "redraw" /\ Len(stack) - 1 \in Nat
    BY <1>10, StackDrawsAgain DEF StackKeeps
  <2> QED BY <1>3, <1>5, <2>1
<1>11. CASE ClosePage
  <2>1. Root \in Creators \cup {None} /\ Shape
    BY Numbers DEF IInv
  <2>2. CallsToCleanUp(Root) \in Seq(Frames)
    BY <1>0, <2>1, CallsFacts
  <2>3. stack' = stack \o CallsToCleanUp(Root)
    <3>1. stack = <<>> /\ stack' = CallsToCleanUp(Root)
      BY <1>11 DEF ClosePage
    <3> QED BY <1>2, <3>1
  <2> QED BY <1>0, <1>4, <2>2, <2>3, StackGrows
<1>12. CASE Rendered
  <2>1. Top.of # f /\ stack' = Front(stack)
    BY <1>12 DEF Rendered
  <2> QED BY <1>6, <2>1
<1>13. CASE BlockReturns \/ BlockThrows \/ CleanerReturns \/ Unlisten \/ CleanupEnds
  <2>1. Top.do # "first" /\ stack' = Front(stack)
    BY <1>13 DEF BlockReturns, BlockThrows, CleanerReturns, Unlisten, CleanupEnds, At
  <2> QED BY <1>6, <2>1
<1>14. CASE CleanerThrows
  <2>1. /\ StackKeeps(Len(stack) - 2) /\ Len(stack) - 2 \in Nat
        /\ stack[Len(stack)].do = "user" /\ stack[Len(stack) - 1].do = "cleanup"
    BY <1>14, StackThrows DEF StackKeeps
  <2>2. i # Len(stack) /\ i # Len(stack) - 1
    BY <1>1, <2>1
  <2>3. i <= Len(stack) - 2
    BY <1>1, <1>2, <2>2
  <2> QED BY <1>3, <2>1, <2>3
<1>15. CASE DeleteElement
  <2>1. PICK calls : calls = <<>>
    OBVIOUS
  <2>2. At("cleanup") /\ Top.next # 0 /\ Continue(calls)
    BY <1>15, <2>1, CalledFacts DEF DeleteElement
  <2>3. calls \in Seq(Frames)
    BY <2>1
  <2> QED BY <1>0, <1>4, <2>2, <2>3, StackContinues
<1>16. CASE CloseResource
  <2>1. /\ At("cleanup") /\ Top.next # 0 /\ Called.of \in Nat
        /\ Continue(<<Frame("user", Called.of)>>)
    BY <1>16, CalledFacts DEF CloseResource, Registrable
  <2>2. <<Frame("user", Called.of)>> \in Seq(Frames)
    BY <2>1, FrameFacts DEF FrameKinds
  <2> QED BY <1>0, <1>4, <2>1, <2>2, StackContinues
<1>17. CASE CleanFragment
  <2>1. At("cleanup") /\ Top.next # 0 /\ Called.of \in Fragments
    BY <1>17, CalledFacts DEF CleanFragment, Cleans
  <2>2. Called.of \in Nat /\ current[Called.of] \in Creators \cup {None}
    BY <2>1, Numbers, KindsDiffer DEF IInv, Typed
  <2>3. PICK calls : calls = <<Frame("unlisten", Called.of)>> \o CallsToCleanUp(current[Called.of])
    OBVIOUS
  <2>4. calls \in Seq(Frames)
    BY <2>2, <2>3, CallsFacts, FrameFacts, ConcatProperties DEF IInv, FrameKinds
  <2>5. Continue(calls)
    BY <1>17, <2>3 DEF CleanFragment
  <2> QED BY <1>0, <1>4, <2>1, <2>4, <2>5, StackContinues
<1> QED BY <1>7, <1>8, <1>9, <1>10, <1>11, <1>12, <1>13, <1>14, <1>15, <1>16, <1>17, StepKinds
        DEF Makes, Others

\* What is registered stays so, until the cleanup.
LEMMA RegisteredStays ==
  ASSUME IInv, NEW c \in Creators, NEW x, Registered(c, x),
         CleansUp \/ \E W, cleaner : Registers(W, cleaner)
  PROVE  Registered(c, x)'
<1>1. CASE \E W, cleaner : Registers(W, cleaner)
  <2>1. PICK W, cleaner : Registers(W, cleaner)
    BY <1>1
  <2>2. /\ ToSet(queue'[c]) = ToSet(queue[c]) \cup (IF c \in W THEN {cleaner} ELSE {})
        /\ promised'[c] = promised[c] /\ cleanedUp' = cleanedUp /\ (late => late')
    BY <2>1 DEF Registers, GrowsBy
  <2> QED BY <2>2 DEF Registered
<1>2. CASE CleansUp
  <2>1. /\ queue'[c] = queue[c] \/ Emptied(c)
        /\ promised'[c] = IF c \in cleanedUp' \ cleanedUp THEN ToSet(queue[c]) ELSE promised[c]
        /\ cleanedUp \subseteq cleanedUp' /\ (late => late')
    BY <1>2 DEF CleansUp, QueuesEmptied, PromisesMade
  <2> QED BY <2>1 DEF Registered, Emptied
<1> QED BY <1>1, <1>2

\* A cleaner is registered.
LEMMA RegisteredNow ==
  ASSUME NEW W, NEW cleaner, Registers(W, cleaner), W \subseteq Creators, NEW c \in W
  PROVE  Registered(c, cleaner)'
<1>1. /\ ToSet(queue'[c]) = ToSet(queue[c]) \cup {cleaner} /\ cleanedUp' = cleanedUp
      /\ (c \in cleanedUp => late')
  BY DEF Registers, GrowsBy
<1> QED BY <1>1 DEF Registered

\* All that was registered is, and only what is new remains to be looked at.
LEMMA RegisteredBefore ==
  ASSUME IInv, Next, Stays, CleansUp \/ \E W, cleaner : Registers(W, cleaner)
  PROVE  /\ \A n \in Resources : \A c \in objects'[n].under : Registered(c, Cleaner("close", n))'
         /\ \A n \in Elements \cup Fragments :
              Registered(objects[n].by, Cleaner("delete", n))' /\ objects'[n].by = objects[n].by
         /\ \A f \in Fragments : ~BeingRendered(f)' /\ ~late' /\ ~(Rendered /\ Top.of = f) =>
              \A c \in objects'[f].under : Registered(c, Cleaner("clean", f))'
<1>0. \A n \in DOMAIN objects :
        /\ objects'[n] = objects[n] /\ objects[n].under \subseteq Creators
        /\ n # Root => objects[n].by \in Creators
  BY DEF IInv, Shape, MadeBy, Stays
<1>1. ASSUME NEW c \in Creators, NEW x, Registered(c, x) PROVE Registered(c, x)'
  BY <1>1, RegisteredStays
<1>2. ASSUME NEW n \in Resources, NEW c \in objects'[n].under
      PROVE  Registered(c, Cleaner("close", n))'
  <2>1. c \in objects[n].under /\ c \in Creators
    BY <1>0, <1>2, KindsDiffer
  <2>2. PICK x : x = Cleaner("close", n)
    OBVIOUS
  <2>3. Registered(c, x)
    BY <1>2, <2>1, <2>2 DEF IInv, AllRegistered
  <2>4. Registered(c, x)'
    BY <1>1, <2>1, <2>3
  <2> QED BY <2>2, <2>4 DEF Cleaner
<1>3. ASSUME NEW n \in Elements \cup Fragments
      PROVE  Registered(objects[n].by, Cleaner("delete", n))' /\ objects'[n].by = objects[n].by
  <2>1. PICK x, c : x = Cleaner("delete", n) /\ c = objects[n].by
    OBVIOUS
  <2>2. objects'[n].by = c /\ c \in Creators
    BY <1>0, <2>1, Numbers, KindsDiffer DEF IInv
  <2>3. Registered(c, x)
    BY <1>3, <2>1 DEF IInv, AllRegistered
  <2>4. Registered(c, x)'
    BY <1>1, <2>2, <2>3
  <2> QED BY <2>1, <2>2, <2>4 DEF Cleaner
<1>4. ASSUME NEW f \in Fragments, ~BeingRendered(f)', ~late', ~(Rendered /\ Top.of = f),
             NEW c \in objects'[f].under
      PROVE  Registered(c, Cleaner("clean", f))'
  <2>1. c \in objects[f].under /\ c \in Creators
    BY <1>0, <1>4, KindsDiffer
  <2>2. PICK x : x = Cleaner("clean", f)
    OBVIOUS
  <2>3. ~BeingRendered(f) /\ ~late
    BY <1>4, FirstStays DEF CleansUp, Registers
  <2>4. Registered(c, x)
    BY <1>4, <2>1, <2>2, <2>3 DEF IInv, AllRegistered
  <2>5. Registered(c, x)'
    BY <1>1, <2>1, <2>4
  <2> QED BY <2>2, <2>5 DEF Cleaner
<1> QED BY <1>2, <1>3, <1>4

LEMMA AllRegisteredKept ==
  ASSUME IInv, Next
  PROVE  AllRegistered'
<1>0. Typed /\ Shape /\ Shape' /\ Stays
  BY ShapeKept DEF IInv
<1>1. ASSUME NEW c \in Creators, MakeResource(c) PROVE AllRegistered'
  <2>1. PICK m, W : m = Made /\ W = Above(c)
    OBVIOUS
  <2>2. PICK x : x = Cleaner("close", m)
    OBVIOUS
  <2>3. Registers(W, x)
    <3>1. Registers(Above(c), Cleaner("close", Made))
      BY <1>1, ResourceRegisters
    <3> QED BY <2>1, <2>2, <3>1, Zenon
  <2>4. /\ Resources' = Resources \cup {m} /\ Fragments' = Fragments /\ Elements' = Elements
        /\ objects'[m].under = W
    <3>1. /\ Resources' = Resources \cup {Made} /\ Fragments' = Fragments
          /\ Elements' = Elements /\ objects'[Made] = Object("resource", c, None, {})
      BY <1>1, ResourceMade
    <3>2. objects'[Made].under = Above(c)
      BY <3>1, Fields
    <3> QED BY <2>1, <3>1, <3>2, Zenon
  <2>5. W \subseteq Creators
    BY <1>0, <2>1, AboveFacts
  <2>6. \A a \in W : Registered(a, x)'
    BY <2>3, <2>5, RegisteredNow
  <2>7. \A a \in objects'[m].under : Registered(a, Cleaner("close", m))'
    BY <2>2, <2>4, <2>6 DEF Cleaner
  <2>8. ~Rendered
    BY <1>1, <1>0, <2>4, KindsDiffer, ResourceMade DEF Rendered
  <2>9. /\ \A n \in Resources :
             \A a \in objects'[n].under : Registered(a, Cleaner("close", n))'
        /\ \A n \in Elements \cup Fragments :
             Registered(objects[n].by, Cleaner("delete", n))' /\ objects'[n].by = objects[n].by
        /\ \A f \in Fragments : ~BeingRendered(f)' /\ ~late' /\ ~(Rendered /\ Top.of = f) =>
             \A a \in objects'[f].under : Registered(a, Cleaner("clean", f))'
    BY <1>0, <2>3, RegisteredBefore
  <2> QED BY <2>4, <2>7, <2>8, <2>9 DEF AllRegistered
<1>2. ASSUME NEW c \in Creators, MakeElement(c) \/ Render(c) PROVE AllRegistered'
  <2>1. PICK m, W : m = Made /\ W = {c}
    OBVIOUS
  <2>2. PICK x : x = Cleaner("delete", m)
    OBVIOUS
  <2>3. Registers(W, x)
    <3>1. Registers({c}, Cleaner("delete", Made))
      BY <1>2, ElementRegisters, FragmentRegisters
    <3> QED BY <2>1, <2>2, <3>1, Zenon
  <2>4. /\ Resources' = Resources /\ objects'[m].by = c
        /\ \/ Elements' = Elements \cup {m} /\ Fragments' = Fragments
           \/ Elements' = Elements /\ Fragments' = Fragments \cup {m}
    <3>1. CASE MakeElement(c)
      <4>1. /\ Resources' = Resources /\ Fragments' = Fragments
            /\ Elements' = Elements \cup {Made}
            /\ objects'[Made] = Object("element", c, Place(c), Around(Place(c)))
        BY <3>1, ElementMade
      <4>2. objects'[Made].by = c
        BY <4>1, Fields
      <4> QED BY <2>1, <4>1, <4>2
    <3>2. CASE Render(c)
      <4>1. /\ Resources' = Resources /\ Fragments' = Fragments \cup {Made}
            /\ Elements' = Elements
            /\ objects'[Made] = Object("fragment", c, Place(c), Around(Place(c)))
        BY <3>2, FragmentMade
      <4>2. objects'[Made].by = c
        BY <4>1, Fields
      <4> QED BY <2>1, <4>1, <4>2
    <3> QED BY <1>2, <3>1, <3>2
  <2>5. Registered(c, x)'
    BY <2>1, <2>3, RegisteredNow
  <2>6. Registered(objects[m].by, Cleaner("delete", m))'
    BY <2>2, <2>4, <2>5 DEF Cleaner
  <2>7. ~Rendered \/ Fragments' = Fragments
    BY <1>0, NothingMade DEF Rendered
  <2>8. ASSUME m \in Fragments', m \notin Fragments PROVE BeingRendered(m)'
    <3>1. Render(c)
      BY <1>2, <2>4, <2>8, ElementMade
    <3>2. /\ StackKeeps(Len(stack)) /\ Len(stack') = Len(stack) + 1
          /\ stack'[Len(stack) + 1] = Frame("first", Made)
      BY <3>1, StackRenders
    <3>3. stack'[Len(stack) + 1].do = "first" /\ stack'[Len(stack) + 1].of = m
      BY <2>1, <3>2 DEF Frame
    <3>4. Len(stack) + 1 \in DOMAIN stack'
      BY <3>2 DEF StackKeeps
    <3> QED BY <3>3, <3>4 DEF BeingRendered
  <2>9. /\ \A n \in Resources :
             \A a \in objects'[n].under : Registered(a, Cleaner("close", n))'
        /\ \A n \in Elements \cup Fragments :
             Registered(objects[n].by, Cleaner("delete", n))' /\ objects'[n].by = objects[n].by
        /\ \A f \in Fragments : ~BeingRendered(f)' /\ ~late' /\ ~(Rendered /\ Top.of = f) =>
             \A a \in objects'[f].under : Registered(a, Cleaner("clean", f))'
    BY <1>0, <1>2, <2>3, RegisteredBefore
  <2>10. ~Rendered
    <3>1. objects' # objects
      BY <1>2, ElementMade, FragmentMade
    <3> QED BY <3>1 DEF Rendered
  <2>11. \A f \in Fragments' : ~BeingRendered(f)' /\ ~late' =>
           \A a \in objects'[f].under : Registered(a, Cleaner("clean", f))'
    BY <2>4, <2>8, <2>9, <2>10
  <2>12. \A n \in Elements' \cup Fragments' : Registered(objects[n].by, Cleaner("delete", n))'
    BY <2>4, <2>6, <2>9
  <2> QED BY <2>4, <2>9, <2>11, <2>12 DEF AllRegistered
<1>3. ASSUME Resources' = Resources, Elements' = Elements, Fragments' = Fragments,
             CleansUp \/ \E W, cleaner : Registers(W, cleaner)
      PROVE  /\ \A n \in Resources' : \A a \in objects'[n].under :
                  Registered(a, Cleaner("close", n))'
             /\ \A n \in Elements' \cup Fragments' :
                  Registered(objects[n].by, Cleaner("delete", n))'
             /\ \A f \in Fragments' : ~BeingRendered(f)' /\ ~late' /\ ~(Rendered /\ Top.of = f) =>
                  \A a \in objects'[f].under : Registered(a, Cleaner("clean", f))'
  BY <1>0, <1>3, RegisteredBefore
<1>4. ASSUME NEW e \in Elements \cup Fragments,
             objects' = Append(objects, Object("creator", objects[e].by, e, Around(e))),
             queue' = Extended(queue, Len(objects'), <<>>),
             promised' = Extended(promised, Len(objects'), {}),
             cleanedUp' = cleanedUp, aborted' = aborted, late => late'
      PROVE  AllRegistered'
  <2>1. Resources' = Resources /\ Elements' = Elements /\ Fragments' = Fragments
    BY <1>4, CreatorMade
  <2>2. \E W, cleaner : Registers(W, cleaner)
    <3>1. PICK cleaner : cleaner = 0
      OBVIOUS
    <3>2. Registers({}, cleaner)
      BY <1>4, CreatorRegisters
    <3> QED BY <3>2, Zenon
  <2>3. ~Rendered
    <3>1. objects' # objects
      BY <1>4, CreatorMade
    <3> QED BY <3>1 DEF Rendered
  <2> QED BY <1>3, <2>1, <2>2, <2>3 DEF AllRegistered
<1>5. CASE (\E e \in Elements : New(e)) \/ DrawAgain
  <2>1. ASSUME NEW e \in Elements, New(e) PROVE AllRegistered'
    <3>1. cleanedUp' = cleanedUp /\ aborted' = aborted /\ (late => late')
      BY <2>1 DEF New
    <3> QED BY <1>4, <2>1, <3>1, InElement
  <2>2. ASSUME DrawAgain PROVE AllRegistered'
    <3>1. cleanedUp' = cleanedUp /\ aborted' = aborted /\ (late => late')
      BY <2>2 DEF DrawAgain
    <3>2. PICK f : f = Top.of
      OBVIOUS
    <3>3. /\ f \in Fragments
          /\ objects' = Append(objects, Object("creator", objects[f].by, f, Around(f)))
          /\ queue' = Extended(queue, Len(objects'), <<>>)
          /\ promised' = Extended(promised, Len(objects'), {})
      BY <2>2, <3>2, InFragment
    <3> QED BY <1>4, <3>1, <3>3
  <2> QED BY <1>5, <2>1, <2>2
<1>6. CASE Rendered
  <2>1. PICK f : f = Top.of
    OBVIOUS
  <2>2. PICK W, x : W = Above(objects[f].by) /\ x = Cleaner("clean", f)
    OBVIOUS
  <2>3. /\ Registers(W, x) /\ f \in Fragments /\ objects[f].by \in Creators
        /\ objects' = objects
    <3>1. /\ Registers(Above(objects[Top.of].by), Cleaner("clean", Top.of))
          /\ Top.of \in Fragments /\ objects[Top.of].by \in Creators /\ objects' = objects
      BY <1>6, RenderedRegisters
    <3> QED BY <2>1, <2>2, <3>1, Zenon
  <2>4. Resources' = Resources /\ Elements' = Elements /\ Fragments' = Fragments
    BY <1>0, <2>3, NothingMade
  <2>5. W \subseteq Creators /\ objects'[f].under = W
    <3>1. MadeBy(f)
      BY <1>0, <2>3, KindsDiffer DEF Shape
    <3> QED BY <1>0, <2>2, <2>3, <3>1, AboveFacts DEF MadeBy
  <2>6. \A a \in W : Registered(a, x)'
    BY <2>3, <2>5, RegisteredNow
  <2>7. \A a \in objects'[f].under : Registered(a, Cleaner("clean", f))'
    BY <2>2, <2>5, <2>6 DEF Cleaner
  <2>8. \A g \in Fragments' : ~BeingRendered(g)' /\ ~late' =>
          \A a \in objects'[g].under : Registered(a, Cleaner("clean", g))'
    <3>1. ASSUME NEW g \in Fragments', ~BeingRendered(g)', ~late', NEW a \in objects'[g].under
          PROVE  Registered(a, Cleaner("clean", g))'
      <4>1. CASE g = f
        BY <2>7, <3>1, <4>1
      <4>2. CASE g # f
        BY <1>3, <2>1, <2>3, <2>4, <3>1, <4>2
      <4> QED BY <4>1, <4>2
    <3> QED BY <3>1
  <2> QED BY <1>3, <2>3, <2>4, <2>8 DEF AllRegistered
<1>7. CASE Others /\ ~Rendered
  <2>1. CleansUp
    BY <1>7, StepsCleanUp
  <2>2. Resources' = Resources /\ Elements' = Elements /\ Fragments' = Fragments
    BY <1>0, <2>1, NothingMade DEF CleansUp
  <2> QED BY <1>3, <1>7, <2>1, <2>2 DEF AllRegistered
<1> QED BY <1>1, <1>2, <1>5, <1>6, <1>7, StepKinds DEF Makes

(***************************************************************************)
(* One round of each fragment.                                             *)
(***************************************************************************)
LEMMA OneRoundKept ==
  ASSUME IInv, Next
  PROVE  OneRound'
<1>0. Typed /\ Shape /\ Shape' /\ Stays /\ OneRound
  BY ShapeKept DEF IInv
<1>1. ASSUME Creators' = Creators, Fragments' = Fragments, cleanedUp \subseteq cleanedUp',
             \A f \in Fragments : \/ current'[f] = current[f]
                                  \/ current'[f] = None /\ current[f] \in cleanedUp' \cup {None}
      PROVE  OneRound'
  <2>1. \A c \in Creators : objects'[c] = objects[c] /\ c # None
    BY <1>0, Numbers, KindsDiffer DEF Stays, None
  <2>2. ASSUME NEW f \in Fragments, NEW c \in Creators, objects'[c].in = f
        PROVE  c \in cleanedUp' \cup {current'[f]}
    <3>1. c \in cleanedUp \cup {current[f]}
      BY <1>0, <2>1, <2>2 DEF OneRound
    <3> QED BY <1>1, <2>1, <3>1
  <2> QED BY <1>1, <2>2 DEF OneRound
<1>2. ASSUME NEW c \in Creators, MakeResource(c) PROVE OneRound'
  BY <1>1, <1>2, ResourceMade DEF MakeResource, cleaningVars, drawingVars
<1>3. ASSUME NEW c \in Creators, MakeElement(c) PROVE OneRound'
  BY <1>1, <1>3, ElementMade DEF MakeElement, cleaningVars, drawingVars
<1>4. \A c \in Creators : objects[c].in \in DOMAIN objects \cup {None}
  <2>1. ASSUME NEW c \in Creators PROVE objects[c].in \in DOMAIN objects \cup {None}
    <3>1. CASE c = Root
      BY <1>0, <3>1 DEF Shape, Object
    <3>2. CASE c # Root
      BY <1>0, <3>2, KindsDiffer DEF Shape, Belongs
    <3> QED BY <3>1, <3>2
  <2> QED BY <2>1
<1>5. ASSUME NEW c \in Creators, Render(c) PROVE OneRound'
  <2>1. PICK m, k : m = Made /\ k = Made + 1
    OBVIOUS
  <2>2. /\ Fragments' = Fragments \cup {m} /\ Creators' = Creators \cup {k}
        /\ m \notin DOMAIN objects /\ k \notin DOMAIN objects /\ objects'[k].in = m
    <3>1. /\ Fragments' = Fragments \cup {Made} /\ Creators' = Creators \cup {Made + 1}
          /\ {Made, Made + 1} \cap DOMAIN objects = {}
          /\ objects'[Made + 1] = Object("creator", c, Made, {Made} \cup Around(Place(c)))
      BY <1>5, FragmentMade
    <3>2. objects'[Made + 1].in = Made
      BY <3>1, Fields
    <3> QED BY <2>1, <3>1, <3>2
  <2>3. current' = Extended(current, m, k) /\ cleanedUp' = cleanedUp
    BY <1>5, <2>1 DEF Render
  <2>4. \A f \in Fragments : current'[f] = current[f] /\ f # m
    BY <1>0, <2>2, <2>3, KindsDiffer DEF Extended, Typed
  <2>5. current'[m] = k /\ m # None
    <3>1. m # None
      BY <1>0, <2>1, Numbers DEF None, Made
    <3> QED BY <2>3, <3>1 DEF Extended
  <2>6. ASSUME NEW f \in Fragments', NEW d \in Creators', objects'[d].in = f
        PROVE  d \in cleanedUp' \cup {current'[f]}
    <3>1. CASE d = k
      BY <2>2, <2>5, <2>6, <3>1
    <3>2. CASE d # k
      <4>1. d \in Creators /\ objects'[d] = objects[d]
        BY <1>0, <2>2, <3>2, KindsDiffer DEF Stays
      <4>2. f # m
        BY <1>4, <2>2, <2>5, <2>6, <4>1
      <4>3. f \in Fragments /\ d \in cleanedUp \cup {current[f]}
        BY <1>0, <2>2, <2>6, <4>1, <4>2 DEF OneRound
      <4> QED BY <2>3, <2>4, <4>3
    <3> QED BY <3>1, <3>2
  <2> QED BY <2>6 DEF OneRound
<1>6. ASSUME NEW e \in Elements, New(e) PROVE OneRound'
  <2>1. PICK k : k = Made
    OBVIOUS
  <2>2. /\ Fragments' = Fragments /\ Creators' = Creators \cup {k} /\ k \notin DOMAIN objects
        /\ objects'[k].in = e
    <3>1. /\ Fragments' = Fragments /\ Creators' = Creators \cup {Made}
          /\ Made \notin DOMAIN objects
          /\ objects'[Made] = Object("creator", objects[e].by, e, Around(e))
      BY <1>6, InElement, CreatorMade
    <3>2. objects'[Made].in = e
      BY <3>1, Fields
    <3> QED BY <2>1, <3>1, <3>2
  <2>3. current' = current /\ cleanedUp' = cleanedUp /\ e \notin Fragments
    BY <1>6, KindsDiffer DEF New, drawingVars
  <2>4. \A c \in Creators : objects'[c] = objects[c]
    BY <1>0, KindsDiffer DEF Stays
  <2> QED BY <1>0, <2>2, <2>3, <2>4 DEF OneRound
<1>7. CASE DrawAgain
  <2>1. PICK k, f : k = Made /\ f = Top.of
    OBVIOUS
  <2>2. /\ f \in Fragments /\ stack # <<>> /\ Top.do = "redraw"
        /\ objects' = Append(objects, Object("creator", objects[f].by, f, Around(f)))
        /\ current' = [current EXCEPT ![f] = k]
    BY <1>7, <2>1, InFragment
  <2>3. /\ Fragments' = Fragments /\ Creators' = Creators \cup {k} /\ k \notin DOMAIN objects
        /\ objects'[k].in = f
    <3>1. /\ Fragments' = Fragments /\ Creators' = Creators \cup {Made}
          /\ Made \notin DOMAIN objects
          /\ objects'[Made] = Object("creator", objects[f].by, f, Around(f))
      BY <2>2, CreatorMade
    <3>2. objects'[Made].in = f
      BY <3>1, Fields
    <3> QED BY <2>1, <3>1, <3>2
  <2>4. current[f] = None
    <3>1. Sits(Len(stack)) /\ Top = stack[Len(stack)]
      BY <2>2, TopOf DEF IInv, Stacked
    <3> QED BY <2>1, <2>2, <3>1 DEF Sits
  <2>5. cleanedUp' = cleanedUp /\ current'[f] = k
        /\ \A g \in Fragments : g # f => current'[g] = current[g]
    BY <1>0, <1>7, <2>2 DEF DrawAgain, Typed
  <2>6. \A c \in Creators : objects'[c] = objects[c] /\ c # None
    BY <1>0, Numbers, KindsDiffer DEF Stays, None
  <2>7. ASSUME NEW g \in Fragments, NEW d \in Creators', objects'[d].in = g
        PROVE  d \in cleanedUp' \cup {current'[g]}
    <3>1. CASE d = k
      BY <2>3, <2>5, <2>7, <3>1
    <3>2. CASE d # k
      <4>1. d \in Creators /\ objects[d].in = g
        BY <2>3, <2>6, <2>7, <3>2
      <4>2. d \in cleanedUp \cup {current[g]}
        BY <1>0, <4>1 DEF OneRound
      <4> QED BY <2>4, <2>5, <2>6, <4>1, <4>2
    <3> QED BY <3>1, <3>2
  <2> QED BY <2>3, <2>7 DEF OneRound
<1>8. CASE Rendered
  <2>1. objects' = objects /\ current' = current /\ cleanedUp' = cleanedUp
    BY <1>8 DEF Rendered, drawingVars, cleaningVars
  <2> QED BY <1>0, <1>1, <2>1, NothingMade
<1>9. CASE Others /\ ~Rendered
  <2>1. CleansUp
    BY <1>9, StepsCleanUp
  <2>2. Creators' = Creators /\ Fragments' = Fragments
    BY <1>0, <2>1, NothingMade DEF CleansUp
  <2> QED BY <1>1, <2>1, <2>2 DEF CleansUp, PromisesMade, RoundsGone
<1> QED BY <1>2, <1>3, <1>5, <1>6, <1>7, <1>8, <1>9, StepKinds DEF Makes

(***************************************************************************)
(* What is on the stack sits and fits.                                     *)
(***************************************************************************)
LEMMA StackedFrom ==
  ASSUME Stacked, Shape, Stays, NEW k, StackKeeps(k), cleanedUp \subseteq cleanedUp',
         \A i \in 1..k : stack[i].do = "cleanup" =>
           stack'[i].next \in 0..Len(queue'[stack[i].of]),
         \A i \in 1..k : stack[i].do \in {"unlisten", "redraw"} => current'[stack[i].of] = None,
         \A i \in 1..k : stack[i].do = "redraw" => stack[i].of \in listening',
         \A i \in DOMAIN stack' \ 1..k : Sits(i)',
         \A i \in DOMAIN stack' \ 1..k : \A j \in DOMAIN stack' : Fits(i, j)' /\ Fits(j, i)'
  PROVE  Stacked'
<1>1. /\ stack' \in Seq(Frames) /\ DOMAIN stack = 1..Len(stack) /\ Len(stack) \in Nat /\ k \in Nat
      /\ k <= Len(stack) /\ \A i \in 1..k : Remains(i)
  BY DEF StackKeeps
<1>2. ASSUME NEW i \in 1..k PROVE Sits(i)'
  <2>1. Remains(i) /\ (i - 1 \in DOMAIN stack => Remains(i - 1))
    BY <1>1
  <2> QED BY <2>1, StillSits
<1>3. ASSUME NEW i \in 1..k, NEW j \in 1..k PROVE Fits(i, j)'
  BY <1>1, StillFits
<1> QED BY <1>1, <1>2, <1>3 DEF Stacked

\* What is beneath the call that returns.
LEMMA KeptBelow ==
  ASSUME NEW n \in Nat, n <= Len(stack), StackKeeps(n - 1)
  PROVE  \A i \in 1..(n - 1) : i \in DOMAIN stack /\ i # n /\ stack'[i] = stack[i]
<1>1. PICK k : k = n - 1
  OBVIOUS
<1>2. /\ k \in Nat /\ k < Len(stack) /\ DOMAIN stack = 1..Len(stack)
      /\ \A i \in 1..k : i < Len(stack) => stack'[i] = stack[i]
  BY <1>1 DEF StackKeeps
<1>3. Len(stack) \in Nat /\ k < n
  BY <1>1 DEF StackKeeps
<1>4. \A i \in 1..k : i \in DOMAIN stack /\ i # n /\ i < Len(stack)
  BY <1>2, <1>3
<1> QED BY <1>1, <1>2, <1>4

LEMMA FitsAlways ==
  ASSUME NEW i, NEW j, stack'[i].do \notin {"cleanup", "redraw", "unlisten"}
  PROVE  Fits(i, j)' /\ Fits(j, i)'
BY DEF Fits

\* Queues are no shorter than they were.
Longer == \A c \in Creators : Len(queue[c]) <= Len(queue'[c]) /\ Len(queue'[c]) \in Nat

LEMMA LongerQueues ==
  ASSUME Typed, queue' = queue \/ \E W, cleaner : Registers(W, cleaner)
  PROVE  Longer
<1>1. \A c \in Creators : queue[c] \in Seq(Registrable)
  BY DEF Typed
<1>2. \A c \in Creators : Len(queue[c]) \in Nat
  BY <1>1
<1>3. CASE queue' = queue
  BY <1>2, <1>3 DEF Longer
<1>4. CASE \E W, cleaner : Registers(W, cleaner)
  BY <1>4 DEF Registers, GrowsBy, Longer
<1> QED BY <1>3, <1>4

LEMMA NextStays ==
  ASSUME Stacked, Typed, Longer, NEW i \in DOMAIN stack, stack'[i] = stack[i]
  PROVE  stack[i].do = "cleanup" => stack'[i].next \in 0..Len(queue'[stack[i].of])
<1> SUFFICES ASSUME stack[i].do = "cleanup"
             PROVE  stack[i].next \in 0..Len(queue'[stack[i].of])
  OBVIOUS
<1>1. stack[i].of \in cleanedUp /\ stack[i].next \in 0..Len(queue[stack[i].of])
  BY DEF Stacked, Sits
<1>2. queue[stack[i].of] \in Seq(Registrable) /\ stack[i].of \in Creators
  BY <1>1 DEF Typed
<1>3. Len(queue[stack[i].of]) \in Nat
  BY <1>2
<1> QED BY <1>1, <1>2, <1>3 DEF Longer

\* Steps that leave the calls in progress alone, and may make one.
LEMMA StackedBeneath ==
  ASSUME IInv, Stays, NEW k, StackKeeps(k), Same(k), Longer, cleanedUp \subseteq cleanedUp',
         \A f \in Fragments : current[f] = None => current'[f] = None,
         listening \subseteq listening',
         \A i \in DOMAIN stack' \ 1..k : Sits(i)',
         \A i \in DOMAIN stack' \ 1..k : \A j \in DOMAIN stack' : Fits(i, j)' /\ Fits(j, i)'
  PROVE  Stacked'
<1>1. Stacked /\ Typed /\ Shape
  BY DEF IInv
<1>2. \A i \in 1..k : i \in DOMAIN stack /\ stack'[i] = stack[i] /\ Sits(i)
  BY <1>1 DEF StackKeeps, Remains, Same, Stacked
<1>3. \A i \in 1..k : stack[i].do = "cleanup" => stack'[i].next \in 0..Len(queue'[stack[i].of])
  BY <1>1, <1>2, NextStays
<1>4. \A i \in 1..k : stack[i].do \in {"unlisten", "redraw"} => current'[stack[i].of] = None
  BY <1>2 DEF Sits
<1>5. \A i \in 1..k : stack[i].do = "redraw" => stack[i].of \in listening'
  BY <1>2 DEF Sits
<1> QED BY <1>1, <1>3, <1>4, <1>5, StackedFrom

LEMMA StackedMakes ==
  ASSUME IInv, Shape', Stays, stack' = stack, current' = current, listening' = listening,
         NEW W, NEW cleaner, Registers(W, cleaner)
  PROVE  Stacked'
<1>1. Longer /\ cleanedUp \subseteq cleanedUp'
  BY LongerQueues DEF IInv, Registers
<1>2. StackKeeps(Len(stack)) /\ Len(stack') = Len(stack) /\ Same(Len(stack))
  BY StackStays DEF IInv
<1>3. DOMAIN stack' \ 1..Len(stack) = {}
  BY <1>2 DEF StackKeeps
<1> QED BY <1>1, <1>2, <1>3, StackedBeneath

LEMMA StackedRenders ==
  ASSUME IInv, NEW c \in Creators, Render(c)
  PROVE  Stacked'
<1>1. PICK n, m : n = Len(stack) /\ m = Made
  OBVIOUS
<1>2. /\ StackKeeps(n) /\ Len(stack') = n + 1 /\ Same(n)
      /\ stack'[n + 1].do = "first" /\ stack'[n + 1].of = m
  <2>1. /\ StackKeeps(Len(stack)) /\ Len(stack') = Len(stack) + 1 /\ Same(Len(stack))
        /\ stack'[Len(stack) + 1] = Frame("first", Made)
    BY StackRenders
  <2>2. /\ StackKeeps(n) /\ Len(stack') = n + 1 /\ Same(n) /\ stack'[n + 1] = Frame("first", m)
    BY <1>1, <2>1, Zenon
  <2> QED BY <2>2 DEF Frame
<1>3. Stays /\ Fragments' = Fragments \cup {m} /\ m \notin DOMAIN objects
  <2>1. Stays /\ Fragments' = Fragments \cup {Made} /\ {Made, Made + 1} \cap DOMAIN objects = {}
    BY FragmentMade
  <2> QED BY <1>1, <2>1
<1>4. Longer
  <2>1. \E W, cleaner : Registers(W, cleaner)
    BY FragmentRegisters
  <2> QED BY <2>1, LongerQueues DEF IInv
<1>5. /\ cleanedUp' = cleanedUp /\ listening \subseteq listening'
      /\ current' = Extended(current, m, m + 1)
  BY <1>1 DEF Render
<1>6. \A f \in Fragments : current[f] = None => current'[f] = None
  BY <1>3, <1>5, KindsDiffer DEF Extended, IInv, Typed
<1>7. ASSUME NEW i \in DOMAIN stack' \ 1..n
      PROVE  Sits(i)' /\ \A j \in DOMAIN stack' : Fits(i, j)' /\ Fits(j, i)'
  <2>1. i = n + 1
    BY <1>2, <1>7 DEF StackKeeps
  <2>2. stack'[i].do = "first" /\ stack'[i].of \in Fragments'
    BY <1>2, <1>3, <2>1
  <2> QED BY <2>2, FitsAlways DEF Sits
<1> QED BY <1>2, <1>3, <1>4, <1>5, <1>6, <1>7, StackedBeneath

LEMMA StackedDrawsAgain ==
  ASSUME IInv, DrawAgain
  PROVE  Stacked'
<1>1. PICK n, f : n = Len(stack) /\ f = Top.of
  OBVIOUS
<1>2. /\ StackKeeps(n - 1) /\ Len(stack') = n /\ n >= 1 /\ Top = stack[n]
      /\ stack[n].do = "redraw" /\ stack'[n].do = "block" /\ stack'[n].of = f
  <2>1. /\ StackKeeps(Len(stack) - 1) /\ Len(stack') = Len(stack) /\ Len(stack) >= 1
        /\ stack[Len(stack)].do = "redraw" /\ Top = stack[Len(stack)]
        /\ stack'[Len(stack)] = Frame("block", Top.of)
    BY StackDrawsAgain
  <2>2. /\ StackKeeps(n - 1) /\ Len(stack') = n /\ n >= 1 /\ Top = stack[n]
        /\ stack[n].do = "redraw" /\ stack'[n] = Frame("block", f)
    BY <1>1, <2>1, Zenon
  <2> QED BY <2>2 DEF Frame
<1>3. /\ f \in Fragments
      /\ objects' = Append(objects, Object("creator", objects[f].by, f, Around(f)))
      /\ queue' = Extended(queue, Len(objects'), <<>>)
      /\ promised' = Extended(promised, Len(objects'), {})
      /\ current' = [current EXCEPT ![f] = Made]
  BY <1>1, InFragment
<1>4. /\ cleanedUp' = cleanedUp /\ listening' = listening /\ aborted' = aborted
      /\ (late => late')
  BY DEF DrawAgain
<1>5. Stays /\ Fragments' = Fragments
  BY <1>3, CreatorMade
<1>6. Longer
  <2>1. PICK cleaner : cleaner = 0
    OBVIOUS
  <2>2. Registers({}, cleaner)
    BY <1>3, <1>4, CreatorRegisters
  <2>3. \E W, x : Registers(W, x)
    BY <2>2, Zenon
  <2> QED BY <2>3, LongerQueues DEF IInv
<1>7. Stacked /\ Typed /\ Shape /\ n \in DOMAIN stack
  BY <1>1, <1>2 DEF IInv, StackKeeps
<1>8. \A i \in 1..(n - 1) : /\ i \in DOMAIN stack /\ i # n /\ stack'[i] = stack[i]
                            /\ Sits(i) /\ Fits(i, n) /\ Fits(n, i)
  <2>1. n \in Nat /\ n = Len(stack) /\ DOMAIN stack = 1..n
    BY <1>1, <1>2 DEF StackKeeps
  <2>2. ASSUME NEW i \in 1..(n - 1)
        PROVE  i \in DOMAIN stack /\ i # n /\ stack'[i] = stack[i]
    BY <1>2, <2>1, KeptBelow
  <2>3. \A i, j \in DOMAIN stack : Sits(i) /\ Fits(i, j)
    BY <1>7 DEF Stacked
  <2> QED BY <1>7, <2>2, <2>3
<1>9. \A i \in 1..(n - 1) : stack[i].do \in {"unlisten", "redraw"} => current'[stack[i].of] = None
  <2>1. ASSUME NEW i \in 1..(n - 1), stack[i].do \in {"unlisten", "redraw"}
        PROVE  current'[stack[i].of] = None
    <3>1. stack[i].of # f
      BY <1>1, <1>2, <1>8, <2>1 DEF Fits
    <3>2. current[stack[i].of] = None /\ stack[i].of \in Fragments
      BY <1>8, <2>1 DEF Sits
    <3> QED BY <1>3, <1>7, <3>1, <3>2 DEF Typed
  <2> QED BY <2>1
<1>10. \A i \in 1..(n - 1) : stack[i].do = "redraw" => stack[i].of \in listening'
  BY <1>4, <1>8 DEF Sits
<1>11. \A i \in 1..(n - 1) :
         stack[i].do = "cleanup" => stack'[i].next \in 0..Len(queue'[stack[i].of])
  BY <1>6, <1>7, <1>8, NextStays
<1>12. ASSUME NEW i \in DOMAIN stack' \ 1..(n - 1)
       PROVE  Sits(i)' /\ \A j \in DOMAIN stack' : Fits(i, j)' /\ Fits(j, i)'
  <2>1. i = n
    BY <1>2, <1>12 DEF StackKeeps
  <2>2. stack'[i].do = "block" /\ stack'[i].of \in Fragments'
    BY <1>2, <1>3, <1>5, <2>1
  <2> QED BY <2>2, FitsAlways DEF Sits
<1> QED BY <1>2, <1>4, <1>5, <1>7, <1>9, <1>10, <1>11, <1>12, StackedFrom

LEMMA StackedReturns ==
  ASSUME IInv, Shape', Stays, stack # <<>>, stack' = Front(stack), Longer,
         cleanedUp' = cleanedUp, current' = current, listening' = listening
  PROVE  Stacked'
<1>1. PICK n : n = Len(stack)
  OBVIOUS
<1>2. StackKeeps(n - 1) /\ Len(stack') = n - 1 /\ n \in Nat
  <2>1. StackKeeps(Len(stack) - 1) /\ Len(stack') = Len(stack) - 1
    BY StackPops DEF IInv
  <2> QED BY <1>1, <2>1 DEF StackKeeps
<1>3. Same(n - 1) /\ DOMAIN stack' \ 1..(n - 1) = {}
  BY <1>1, <1>2 DEF StackKeeps, Same
<1> QED BY <1>2, <1>3, StackedBeneath

\* A cleanup ends, or is ended by what a cleaner throws.
LEMMA StackedEnds ==
  ASSUME IInv, objects' = objects, NEW k, k \in DOMAIN stack, stack[k].do = "cleanup",
         StackKeeps(k - 1), Len(stack') = k - 1, queue' = [queue EXCEPT ![stack[k].of] = <<>>],
         cleanedUp' = cleanedUp, current' = current, listening' = listening
  PROVE  Stacked'
<1>1. Stacked /\ Typed /\ Shape /\ Stays
  BY NothingMade DEF IInv
<1>2. k \in Nat /\ k <= Len(stack) /\ Len(stack) \in Nat /\ DOMAIN stack = 1..Len(stack)
  BY DEF StackKeeps
<1>3. \A i \in 1..(k - 1) : i \in DOMAIN stack /\ i # k /\ stack'[i] = stack[i]
  BY <1>2, KeptBelow
<1>4. \A i, j \in DOMAIN stack : Sits(i) /\ Fits(i, j)
  BY <1>1 DEF Stacked
<1>5. \A i \in 1..(k - 1) : stack[i].do = "cleanup" =>
        stack'[i].next \in 0..Len(queue'[stack[i].of])
  <2>1. ASSUME NEW i \in 1..(k - 1), stack[i].do = "cleanup"
        PROVE  stack'[i].next \in 0..Len(queue'[stack[i].of])
    <3>1. Sits(i) /\ Fits(i, k)
      BY <1>3, <1>4
    <3>2. stack[i].of # stack[k].of /\ stack[i].of \in Creators
          /\ stack[i].next \in 0..Len(queue[stack[i].of])
      BY <1>1, <1>3, <2>1, <3>1 DEF Sits, Fits, Typed
    <3>3. queue'[stack[i].of] = queue[stack[i].of]
      BY <1>1, <3>2 DEF Typed
    <3> QED BY <1>3, <3>2, <3>3
  <2> QED BY <2>1
<1>6. \A i \in 1..(k - 1) : stack[i].do \in {"unlisten", "redraw"} => current'[stack[i].of] = None
  BY <1>3, <1>4 DEF Sits
<1>7. \A i \in 1..(k - 1) : stack[i].do = "redraw" => stack[i].of \in listening'
  BY <1>3, <1>4 DEF Sits
<1>8. DOMAIN stack' \ 1..(k - 1) = {}
  BY <1>2 DEF StackKeeps
<1> QED BY <1>1, <1>5, <1>6, <1>7, <1>8, StackedFrom

LEMMA StackedUnlistens ==
  ASSUME IInv, Unlisten
  PROVE  Stacked'
<1>1. PICK n, f : n = Len(stack) /\ f = Top.of
  OBVIOUS
<1>2. /\ stack # <<>> /\ Top.do = "unlisten" /\ stack' = Front(stack) /\ objects' = objects
      /\ UNCHANGED <<queue, cleaningVars, current>> /\ listening' = listening \ {f}
  BY <1>1 DEF Unlisten, At
<1>3. Stacked /\ Typed /\ Shape /\ Stays
  BY <1>2, NothingMade DEF IInv
<1>4. /\ StackKeeps(n - 1) /\ Len(stack') = n - 1 /\ n \in Nat /\ n = Len(stack)
      /\ Top = stack[n] /\ n \in DOMAIN stack
  <2>1. StackKeeps(Len(stack) - 1) /\ Len(stack') = Len(stack) - 1
    BY <1>2, <1>3, StackPops
  <2>2. Top = stack[Len(stack)] /\ Len(stack) \in DOMAIN stack
    BY <1>2, <1>3, TopOf
  <2> QED BY <1>1, <2>1, <2>2 DEF StackKeeps
<1>5. \A i \in 1..(n - 1) : i \in DOMAIN stack /\ i # n /\ stack'[i] = stack[i]
  BY <1>4, KeptBelow
<1>6. \A i, j \in DOMAIN stack : Sits(i) /\ Fits(i, j)
  BY <1>3 DEF Stacked
<1>7. Longer
  BY <1>2, <1>3, LongerQueues
<1>8. \A i \in 1..(n - 1) : stack[i].do = "cleanup" =>
        stack'[i].next \in 0..Len(queue'[stack[i].of])
  BY <1>3, <1>5, <1>7, NextStays
<1>9. \A i \in 1..(n - 1) : stack[i].do \in {"unlisten", "redraw"} => current'[stack[i].of] = None
  BY <1>2, <1>5, <1>6 DEF Sits
<1>10. \A i \in 1..(n - 1) : stack[i].do = "redraw" => stack[i].of \in listening'
  <2>1. ASSUME NEW i \in 1..(n - 1), stack[i].do = "redraw" PROVE stack[i].of \in listening'
    <3>1. Sits(i) /\ Fits(i, n)
      BY <1>4, <1>5, <1>6
    <3>2. stack[i].of # f /\ stack[i].of \in listening
      BY <1>1, <1>2, <1>4, <2>1, <3>1 DEF Sits, Fits
    <3> QED BY <1>2, <3>2
  <2> QED BY <2>1
<1>11. DOMAIN stack' \ 1..(n - 1) = {} /\ cleanedUp \subseteq cleanedUp'
  BY <1>2, <1>4 DEF StackKeeps, cleaningVars
<1> QED BY <1>3, <1>4, <1>8, <1>9, <1>10, <1>11, StackedFrom

\* A cleanup goes on, having made calls.
LEMMA StackedContinues ==
  ASSUME IInv, objects' = objects, At("cleanup"), Top.next # 0, NEW calls \in Seq(Frames),
         Continue(calls), queue' = queue, cleanedUp \subseteq cleanedUp',
         \A f \in Fragments : current[f] = None => current'[f] = None, listening' = listening,
         \A i \in DOMAIN stack' \ 1..Len(stack) : Sits(i)',
         \A i \in DOMAIN stack' \ 1..Len(stack) :
           \A j \in DOMAIN stack' : Fits(i, j)' /\ Fits(j, i)'
  PROVE  Stacked'
<1>1. Stacked /\ Typed /\ Shape /\ Stays
  BY NothingMade DEF IInv
<1>2. PICK n : n = Len(stack)
  OBVIOUS
<1>3. /\ StackKeeps(n) /\ n >= 1 /\ Top = stack[n]
      /\ stack'[n].next = NextCleaner /\ NextCleaner \in 0..Len(queue[Top.of])
  <2>1. /\ StackKeeps(Len(stack)) /\ Len(stack) >= 1 /\ Top = stack[Len(stack)]
        /\ stack'[Len(stack)].next = NextCleaner
        /\ NextCleaner \in 0..Len(queue[Top.of])
    BY <1>1, StackContinues
  <2> QED BY <1>2, <2>1
<1>4. Longer
  BY <1>1, LongerQueues
<1>5. \A i \in 1..n : stack[i].do = "cleanup" => stack'[i].next \in 0..Len(queue'[stack[i].of])
  <2>1. ASSUME NEW i \in 1..n, i # n
        PROVE  stack[i].do = "cleanup" => stack'[i].next \in 0..Len(queue'[stack[i].of])
    <3>1. i \in DOMAIN stack /\ stack'[i] = stack[i]
      BY <1>2, <1>3, <2>1 DEF StackKeeps
    <3> QED BY <1>1, <1>4, <3>1, NextStays
  <2> QED BY <1>3, <2>1
<1>6. \A i \in 1..n : i \in DOMAIN stack /\ Sits(i)
  BY <1>1, <1>2, <1>3 DEF StackKeeps, Stacked
<1>7. \A i \in 1..n : stack[i].do \in {"unlisten", "redraw"} => current'[stack[i].of] = None
  BY <1>6 DEF Sits
<1>8. \A i \in 1..n : stack[i].do = "redraw" => stack[i].of \in listening'
  BY <1>6 DEF Sits
<1> QED BY <1>1, <1>2, <1>3, <1>5, <1>7, <1>8, StackedFrom

LEMMA StackedDeletes ==
  ASSUME IInv, DeleteElement
  PROVE  Stacked'
<1>1. PICK calls : calls = <<>>
  OBVIOUS
<1>2. /\ At("cleanup") /\ Top.next # 0 /\ Continue(calls) /\ calls \in Seq(Frames)
      /\ Len(calls) = 0 /\ objects' = objects /\ queue' = queue
      /\ UNCHANGED <<cleaningVars, drawingVars>>
  BY <1>1, CalledFacts DEF DeleteElement
<1>3. StackKeeps(Len(stack)) /\ Len(stack') = Len(stack) + Len(calls)
  BY <1>2, StackContinues DEF IInv
<1>4. DOMAIN stack' \ 1..Len(stack) = {}
  BY <1>2, <1>3 DEF StackKeeps
<1> QED BY <1>2, <1>4, StackedContinues DEF cleaningVars, drawingVars

LEMMA StackedCloses ==
  ASSUME IInv, CloseResource
  PROVE  Stacked'
<1>1. PICK e, n : e = Frame("user", Called.of) /\ n = Len(stack)
  OBVIOUS
<1>2. e \in Frames /\ e.do = "user"
  <2>1. Called.of \in Nat
    BY CalledFacts DEF CloseResource, Registrable
  <2> QED BY <1>1, <2>1, FrameFacts DEF FrameKinds
<1>3. PICK calls : calls = <<e>>
  OBVIOUS
<1>4. calls \in Seq(Frames) /\ Len(calls) = 1 /\ calls[1] = e
  BY <1>2, <1>3
<1>5. /\ At("cleanup") /\ Top.next # 0 /\ Continue(calls)
      /\ objects' = objects /\ queue' = queue /\ UNCHANGED <<cleaningVars, drawingVars>>
  BY <1>1, <1>3, CalledFacts DEF CloseResource
<1>6. /\ StackKeeps(n) /\ Len(stack') = n + 1 /\ n \in Nat /\ n >= 1 /\ stack'[n + 1] = e
      /\ stack[n].do = "cleanup"
  <2>1. /\ StackKeeps(Len(stack)) /\ Len(stack') = Len(stack) + Len(calls)
        /\ \A i \in 1..Len(calls) : stack'[Len(stack) + i] = calls[i]
        /\ Len(stack) >= 1 /\ Top = stack[Len(stack)] /\ Top.do = "cleanup"
    BY <1>4, <1>5, StackContinues DEF IInv
  <2> QED BY <1>1, <1>4, <2>1 DEF StackKeeps
<1>7. ASSUME NEW i \in DOMAIN stack' \ 1..n
      PROVE  Sits(i)' /\ \A j \in DOMAIN stack' : Fits(i, j)' /\ Fits(j, i)'
  <2>1. i = n + 1 /\ i - 1 = n
    BY <1>6, <1>7 DEF StackKeeps
  <2>2. stack'[i].do = "user"
    BY <1>2, <1>6, <2>1
  <2>3. n \in DOMAIN stack' /\ stack'[n].do = "cleanup"
    BY <1>6 DEF StackKeeps, Remains
  <2>4. Sits(i)'
    BY <2>1, <2>2, <2>3 DEF Sits, Is
  <2> QED BY <2>2, <2>4, FitsAlways
<1> QED BY <1>1, <1>4, <1>5, <1>7, StackedContinues DEF cleaningVars, drawingVars

\* A fragment is drawn again, or listens no more, after its last round is cleaned up
\* if there is one.
NewCalls(n, do, f, k) ==
  /\ DOMAIN stack' = 1..Len(stack') /\ Len(stack') \in {n + 1, n + 2}
  /\ stack'[n + 1].do = do /\ stack'[n + 1].of = f
  /\ Len(stack') = n + 2 =>
       /\ stack'[n + 2].do = "cleanup" /\ stack'[n + 2].of = k
       /\ k \in Creators \ cleanedUp /\ stack'[n + 2].next \in 0..Len(queue[k])

LEMMA OneOrTwo ==
  ASSUME NEW n \in Nat, NEW d \in {0, 1}, NEW l, l = n + 1 + d
  PROVE  l \in {n + 1, n + 2} /\ (l = n + 2 => d = 1)
<1>1. CASE d = 0
  BY <1>1
<1>2. CASE d = 1
  BY <1>2
<1> QED BY <1>1, <1>2

LEMMA Beyond ==
  ASSUME NEW n \in Nat, NEW l \in {n + 1, n + 2}, NEW i \in (1..l) \ (1..n)
  PROVE  i = n + 1 \/ (i = n + 2 /\ l = n + 2)
<1>1. i \in Int /\ i > n /\ i <= l
  OBVIOUS
<1>2. CASE l = n + 1
  BY <1>1, <1>2
<1>3. CASE l = n + 2
  BY <1>1, <1>3
<1> QED BY <1>2, <1>3

LEMMA SitsFragment ==
  ASSUME NEW i, NEW do \in {"unlisten", "redraw"}, NEW f, f \in Fragments',
         stack'[i].do = do, stack'[i].of = f, current'[f] = None,
         do = "redraw" => f \in listening'
  PROVE  Sits(i)'
BY DEF Sits

LEMMA FitsItself ==
  ASSUME NEW i
  PROVE  Fits(i, i)'
BY DEF Fits

LEMMA FitsFragment ==
  ASSUME NEW i, NEW j, ~(i < j), NEW do \in {"unlisten", "redraw"}, NEW f, NEW g, NEW other,
         stack'[i].do = do, stack'[i].of = f, stack'[j].do = other, stack'[j].of = g,
         other = "redraw" => g # f, do = "redraw" /\ other = "unlisten" => g # f
  PROVE  Fits(i, j)' /\ Fits(j, i)'
BY DEF Fits

LEMMA SitsNew ==
  ASSUME NEW n \in Nat, NEW do \in {"unlisten", "redraw"}, NEW f \in Fragments, NEW k,
         NewCalls(n, do, f, k), objects' = objects, queue' = queue, current'[f] = None,
         do = "redraw" => f \in listening', k \in Creators => k \in cleanedUp'
  PROVE  \A i \in DOMAIN stack' \ 1..n : Sits(i)'
<1>1. ASSUME NEW i \in DOMAIN stack' \ 1..n PROVE i = n + 1 \/ (i = n + 2 /\ Len(stack') = n + 2)
  <2>1. PICK l : l = Len(stack')
    OBVIOUS
  <2>2. DOMAIN stack' = 1..Len(stack') /\ Len(stack') \in {n + 1, n + 2}
    BY Zenon DEF NewCalls
  <2>3. i \in (1..l) \ (1..n) /\ l \in {n + 1, n + 2}
    BY <2>1, <2>2, Zenon
  <2>4. i = n + 1 \/ (i = n + 2 /\ l = n + 2)
    BY <2>3, Beyond, Zenon
  <2> QED BY <2>1, <2>4, Zenon
<1>2. Fragments' = Fragments
  BY DEF Fragments, All
<1>3. ASSUME NEW i, i = n + 1 PROVE Sits(i)'
  <2>1. stack'[i].do = do /\ stack'[i].of = f
    BY <1>3, Zenon DEF NewCalls
  <2> QED BY <1>2, <2>1, SitsFragment, Zenon
<1>4. ASSUME NEW i, i = n + 2, Len(stack') = n + 2 PROVE Sits(i)'
  <2>1. /\ stack'[i].do = "cleanup" /\ stack'[i].of = k
        /\ k \in Creators /\ stack'[i].next \in 0..Len(queue[k])
    BY <1>4 DEF NewCalls
  <2> QED BY <2>1 DEF Sits
<1> QED BY <1>1, <1>3, <1>4, Zenon

LEMMA FitsNew ==
  ASSUME Stacked, NEW n \in Nat, n = Len(stack), StackKeeps(n), objects' = objects,
         NEW do \in {"unlisten", "redraw"}, NEW f \in Fragments, NEW k, NewCalls(n, do, f, k),
         \A i \in 1..n : stack[i].do = "redraw" =>
           stack[i].of # f /\ (k \in Creators \ cleanedUp => k \notin objects[stack[i].of].under),
         do = "redraw" =>
           /\ \A i \in 1..n : stack[i].do = "unlisten" => stack[i].of # f
           /\ k \in Creators => k \notin objects[f].under
  PROVE  \A i \in DOMAIN stack' \ 1..n : \A j \in DOMAIN stack' : Fits(i, j)' /\ Fits(j, i)'
<1>1. \A i \in DOMAIN stack' : i \in 1..n \/ i = n + 1 \/ (i = n + 2 /\ Len(stack') = n + 2)
  <2>1. PICK l : l = Len(stack')
    OBVIOUS
  <2>2. DOMAIN stack' = 1..l /\ l \in {n + 1, n + 2}
    BY <2>1, Zenon DEF NewCalls
  <2>3. \A i \in 1..l : i \in 1..n \/ i = n + 1 \/ (i = n + 2 /\ l = n + 2)
    BY <2>2
  <2> QED BY <2>1, <2>2, <2>3
<1>2. ASSUME NEW i \in 1..n
      PROVE  /\ stack'[i].do = stack[i].do /\ stack'[i].of = stack[i].of
             /\ stack[i].do = "cleanup" => stack[i].of \in cleanedUp
  <2>1. Remains(i) /\ Sits(i)
    BY DEF StackKeeps, Remains, Stacked
  <2> QED BY <2>1 DEF Remains, Sits
<1>3. ASSUME NEW i, i = n + 1, NEW j \in 1..n PROVE Fits(i, j)' /\ Fits(j, i)'
  <2>1. stack'[i].do = do /\ stack'[i].of = f
    BY <1>3, Zenon DEF NewCalls
  <2>2. stack'[j].do = stack[j].do /\ stack'[j].of = stack[j].of
    BY <1>2, <1>3
  <2>3. ~(i < j)
    BY <1>3
  <2>4. PICK other, g : other = stack[j].do /\ g = stack[j].of
    OBVIOUS
  <2>5. (other = "redraw" => g # f) /\ (do = "redraw" /\ other = "unlisten" => g # f)
    BY <1>3, <2>4, Zenon
  <2>6. stack'[j].do = other /\ stack'[j].of = g
    BY <2>2, <2>4, Zenon
  <2> QED BY <2>1, <2>3, <2>5, <2>6, FitsFragment
<1>4. ASSUME NEW i, i = n + 2, Len(stack') = n + 2, NEW j \in 1..n PROVE Fits(i, j)' /\ Fits(j, i)'
  <2>1. stack'[i].do = "cleanup" /\ stack'[i].of = k /\ k \in Creators \ cleanedUp
    BY <1>4 DEF NewCalls
  <2>2. /\ stack'[j].do = stack[j].do /\ stack'[j].of = stack[j].of
        /\ stack[j].do = "cleanup" => stack[j].of \in cleanedUp
    BY <1>2, <1>4
  <2> QED BY <1>4, <2>1, <2>2 DEF Fits
<1>5. ASSUME NEW i, i = n + 1, NEW j, j = n + 2, Len(stack') = n + 2
      PROVE  Fits(i, j)' /\ Fits(j, i)'
  <2>1. stack'[i].do = do /\ stack'[i].of = f
    BY <1>5 DEF NewCalls
  <2>2. stack'[j].do = "cleanup" /\ stack'[j].of = k /\ k \in Creators \ cleanedUp
    BY <1>5 DEF NewCalls
  <2> QED BY <2>1, <2>2 DEF Fits
<1>6. ASSUME NEW i \in DOMAIN stack' \ 1..n, NEW j \in DOMAIN stack'
      PROVE  Fits(i, j)' /\ Fits(j, i)'
  <2>1. CASE i = n + 1
    BY <1>1, <1>3, <1>5, <1>6, <2>1, FitsItself
  <2>2. CASE i = n + 2 /\ Len(stack') = n + 2
    BY <1>1, <1>4, <1>5, <1>6, <2>2, FitsItself
  <2> QED BY <1>1, <1>6, <2>1, <2>2
<1> QED BY <1>6

\* The creator of a round is beneath the creators that its fragment is beneath.
LEMMA RoundOf ==
  ASSUME Shape, NEW f \in Fragments, NEW k \in Creators, objects[k].in = f
  PROVE  objects[k].under = objects[f].under /\ k \notin objects[f].under
<1>1. MadeBy(f) /\ MadeBy(k) /\ Belongs(k)
  BY KindsDiffer DEF Shape
<1>2. k # Root
  <2>1. f # None
    BY Numbers, KindsDiffer DEF None
  <2> QED BY <2>1 DEF Shape, Object
<1>3. objects[f].by = objects[k].by
  BY <1>1, <1>2 DEF Belongs
<1>4. objects[k].under = objects[f].under
  BY <1>1, <1>3 DEF MadeBy
<1>5. \A c \in objects[k].under : c < k /\ c \in Nat /\ k \in Nat
  BY <1>1, Numbers, KindsDiffer DEF MadeBy
<1> QED BY <1>4, <1>5

LEMMA StackedCleans ==
  ASSUME IInv, CleanFragment
  PROVE  Stacked'
<1>1. PICK n, f, c : n = Len(stack) /\ f = Called.of /\ c = Top.of
  OBVIOUS
<1>2. Stacked /\ Typed /\ Shape /\ Runs("clean")
  BY DEF IInv, CleanFragment
<1>3. /\ stack # <<>> /\ At("cleanup") /\ Top.next # 0 /\ Top.do = "cleanup"
      /\ f \in Fragments /\ c \in objects[f].under
  BY <1>1, <1>2, CalledFacts DEF Cleans
<1>4. Top = stack[n] /\ n \in DOMAIN stack /\ n \in Nat /\ n = Len(stack) /\ DOMAIN stack = 1..n
  BY <1>1, <1>2, <1>3, TopOf
<1>5. PICK k, e, q : k = current[f] /\ e = Frame("unlisten", f) /\ q = CallsToCleanUp(k)
  OBVIOUS
<1>6. k \in Creators \cup {None} /\ f \in Nat /\ (k \in Creators => objects[k].in = f)
      /\ None \notin Creators
  BY <1>2, <1>3, <1>5, Numbers, KindsDiffer DEF Typed, None
<1>7. e \in Frames /\ e.do = "unlisten" /\ e.of = f
  BY <1>5, <1>6, FrameFacts DEF FrameKinds
<1>8. /\ q \in Seq(Frames) /\ (k \in cleanedUp \cup {None} => Len(q) = 0)
      /\ k \notin cleanedUp \cup {None} =>
           /\ Len(q) = 1 /\ q[1].do = "cleanup" /\ q[1].of = k
           /\ q[1].next \in 0..Len(queue[k])
  BY <1>2, <1>5, <1>6, CallsFacts
<1>9. PICK calls : calls = <<e>> \o q
  OBVIOUS
<1>10. /\ calls \in Seq(Frames) /\ Len(calls) = 1 + Len(q) /\ calls[1] = e
       /\ \A i \in 1..Len(q) : calls[1 + i] = q[i]
  <2>1. PICK s : s = <<e>>
    OBVIOUS
  <2>2. s \in Seq(Frames) /\ Len(s) = 1 /\ s[1] = e
    BY <1>7, <2>1
  <2>3. /\ s \o q \in Seq(Frames) /\ Len(s \o q) = Len(s) + Len(q)
        /\ \A i \in 1..(Len(s) + Len(q)) :
             (s \o q)[i] = IF i <= Len(s) THEN s[i] ELSE q[i - Len(s)]
    BY <1>8, <2>2, ConcatProperties, Zenon
  <2>4. /\ calls \in Seq(Frames) /\ Len(calls) = Len(s) + Len(q)
        /\ \A i \in 1..(Len(s) + Len(q)) :
             calls[i] = IF i <= Len(s) THEN s[i] ELSE q[i - Len(s)]
    BY <1>9, <2>1, <2>3, Zenon
  <2>5. Len(q) \in Nat
    BY <1>8
  <2> QED BY <2>2, <2>4, <2>5
<1>11. /\ BeginCleanup(k) /\ current' = [current EXCEPT ![f] = None] /\ Continue(calls)
       /\ UNCHANGED <<objects, queue, listening>>
  BY <1>1, <1>5, <1>9 DEF CleanFragment
<1>12. /\ StackKeeps(n) /\ Len(stack') = n + Len(calls)
       /\ \A i \in 1..Len(calls) : stack'[n + i] = calls[i]
  <2>1. /\ StackKeeps(Len(stack)) /\ Len(stack') = Len(stack) + Len(calls)
        /\ \A i \in 1..Len(calls) : stack'[Len(stack) + i] = calls[i]
    BY <1>2, <1>3, <1>10, <1>11, StackContinues
  <2> QED BY <1>1, <2>1
<1>13. NewCalls(n, "unlisten", f, k)
  <2>1. stack'[n + 1] = e
    <3>1. 1 \in 1..Len(calls)
      BY <1>8, <1>10
    <3> QED BY <1>10, <1>12, <3>1
  <2>2. Len(q) = 1 => stack'[n + 2] = q[1]
    <3>1. Len(q) = 1 => 2 \in 1..Len(calls) /\ calls[2] = q[1]
      BY <1>10
    <3> QED BY <1>12, <3>1
  <2>3. Len(q) \in {0, 1} /\ Len(stack') = n + 1 + Len(q)
    <3>1. Len(q) \in {0, 1}
      BY <1>8
    <3>2. Len(calls) = 1 + Len(q) /\ Len(stack') = n + Len(calls)
      BY <1>10, <1>12
    <3>3. PICK d, m : d = Len(q) /\ m = Len(calls)
      OBVIOUS
    <3>4. n + m = n + 1 + d
      BY <1>4, <3>1, <3>2, <3>3
    <3> QED BY <3>1, <3>2, <3>3, <3>4
  <2>4. Len(stack') \in {n + 1, n + 2} /\ (Len(stack') = n + 2 => Len(q) = 1)
    BY <1>4, <2>3, OneOrTwo
  <2>5. Len(q) = 1 => k \in Creators \ cleanedUp
    BY <1>6, <1>8
  <2>6. DOMAIN stack' = 1..Len(stack')
    BY <1>12 DEF StackKeeps
  <2> QED BY <1>7, <1>8, <2>1, <2>2, <2>4, <2>5, <2>6 DEF NewCalls
<1>14. cleanedUp \subseteq cleanedUp' /\ (k \in Creators => k \in cleanedUp')
  <2>1. cleanedUp' = cleanedUp \cup ({k} \ {None})
    BY <1>2, <1>6, <1>11, Begun
  <2> QED BY <1>6, <2>1
<1>15. current'[f] = None /\ \A g \in Fragments : current[g] = None => current'[g] = None
  BY <1>2, <1>3, <1>11 DEF Typed
<1>16. \A i \in DOMAIN stack' \ 1..n : Sits(i)'
  <2>1. PICK do \in {"unlisten", "redraw"} : do = "unlisten"
    OBVIOUS
  <2>2. NewCalls(n, do, f, k)
    BY <1>13, <2>1
  <2> QED BY <1>3, <1>4, <1>11, <1>14, <1>15, <2>1, <2>2, SitsNew
<1>17. \A i \in 1..n : stack[i].do = "redraw" =>
         stack[i].of # f /\ (k \in Creators \ cleanedUp => k \notin objects[stack[i].of].under)
  <2>1. ASSUME NEW i \in 1..n, stack[i].do = "redraw"
        PROVE  stack[i].of # f /\ (k \in Creators => k \notin objects[stack[i].of].under)
    <3>1. PICK g : g = stack[i].of
      OBVIOUS
    <3>2. Sits(i) /\ Fits(i, n) /\ i # n /\ i < n
      BY <1>2, <1>3, <1>4, <2>1 DEF Stacked
    <3>3. g \in Fragments /\ c \notin objects[g].under
      BY <1>1, <1>3, <1>4, <2>1, <3>1, <3>2 DEF Sits, Fits
    <3>4. ASSUME k \in Creators PROVE k \notin objects[g].under
      <4>1. objects[k].under = objects[f].under
        BY <1>2, <1>3, <1>6, <3>4, RoundOf
      <4>2. MadeBy(g)
        BY <1>2, <3>3, KindsDiffer DEF Shape
      <4> QED BY <1>3, <3>3, <4>1, <4>2 DEF MadeBy
    <3> QED BY <1>3, <3>1, <3>3, <3>4
  <2> QED BY <2>1
<1>18. \A i \in DOMAIN stack' \ 1..n : \A j \in DOMAIN stack' : Fits(i, j)' /\ Fits(j, i)'
  <2>1. PICK do \in {"unlisten", "redraw"} : do = "unlisten"
    OBVIOUS
  <2>2. NewCalls(n, do, f, k)
    BY <1>13, <2>1
  <2> QED BY <1>2, <1>3, <1>4, <1>11, <1>12, <1>17, <2>1, <2>2, FitsNew
<1> QED BY <1>1, <1>3, <1>10, <1>11, <1>14, <1>15, <1>16, <1>18, StackedContinues

LEMMA StackedRedraws ==
  ASSUME IInv, ~CleanersRedraw, NEW f \in Fragments, Redraw(f)
  PROVE  Stacked'
<1>1. PICK n, k, q : n = Len(stack) /\ k = current[f] /\ q = CallsToCleanUp(k)
  OBVIOUS
<1>2. Stacked /\ Typed /\ Shape
  BY DEF IInv
<1>3. /\ k \in Creators \cup {None} /\ f \in Nat /\ (k \in Creators => objects[k].in = f)
      /\ None \notin Creators
  BY <1>1, <1>2, Numbers, KindsDiffer DEF Typed, None
<1>4. /\ f \in listening /\ ~Busy(f) /\ BeginCleanup(k)
      /\ current' = [current EXCEPT ![f] = None] /\ UNCHANGED <<objects, queue, listening>>
  BY <1>1 DEF Redraw, LastRound
<1>5. /\ q \in Seq(Frames) /\ (k \in cleanedUp \cup {None} => Len(q) = 0)
      /\ k \notin cleanedUp \cup {None} =>
           /\ Len(q) = 1 /\ q[1].do = "cleanup" /\ q[1].of = k
           /\ q[1].next \in 0..Len(queue[k])
  BY <1>1, <1>2, <1>3, CallsFacts
<1>6. /\ StackKeeps(n) /\ Same(n) /\ Len(stack') = n + 1 + Len(q)
      /\ stack'[n + 1] = Frame("redraw", f)
      /\ \A i \in 1..Len(q) : stack'[n + 1 + i] = q[i]
  <2>1. /\ StackKeeps(Len(stack)) /\ Same(Len(stack))
        /\ Len(stack') = Len(stack) + 1 + Len(CallsToCleanUp(current[f]))
        /\ stack'[Len(stack) + 1] = Frame("redraw", f)
        /\ \A i \in 1..Len(CallsToCleanUp(current[f])) :
             stack'[Len(stack) + 1 + i] = CallsToCleanUp(current[f])[i]
    BY StackRedraws
  <2> QED BY <1>1, <2>1, Zenon
<1>7. n \in Nat /\ n = Len(stack) /\ DOMAIN stack = 1..n
  BY <1>1, <1>6 DEF StackKeeps
<1>8. PICK do \in {"unlisten", "redraw"} : do = "redraw"
  OBVIOUS
<1>9. NewCalls(n, do, f, k)
  <2>1. Frame("redraw", f).do = "redraw" /\ Frame("redraw", f).of = f
    BY DEF Frame
  <2>2. stack'[n + 1].do = do /\ stack'[n + 1].of = f
    BY <1>6, <1>8, <2>1
  <2>3. Len(q) = 1 => stack'[n + 2] = q[1]
    <3>1. Len(q) = 1 => 1 \in 1..Len(q) /\ n + 1 + 1 = n + 2
      BY <1>7
    <3> QED BY <1>6, <3>1
  <2>4. Len(q) \in {0, 1}
    BY <1>5
  <2>5. Len(stack') \in {n + 1, n + 2} /\ (Len(stack') = n + 2 => Len(q) = 1)
    <3>1. Len(stack') = n + 1 + Len(q)
      BY <1>6
    <3> QED BY <1>7, <2>4, <3>1, OneOrTwo
  <2>6. Len(q) = 1 => k \in Creators \ cleanedUp
    BY <1>3, <1>5
  <2>7. DOMAIN stack' = 1..Len(stack')
    BY <1>6 DEF StackKeeps
  <2> QED BY <1>5, <2>2, <2>3, <2>5, <2>6, <2>7 DEF NewCalls
<1>10. cleanedUp \subseteq cleanedUp' /\ (k \in Creators => k \in cleanedUp')
  <2>1. cleanedUp' = cleanedUp \cup ({k} \ {None})
    BY <1>2, <1>3, <1>4, Begun
  <2> QED BY <1>3, <2>1
<1>11. current'[f] = None /\ \A g \in Fragments : current[g] = None => current'[g] = None
  BY <1>2, <1>4 DEF Typed
<1>12. \A i \in DOMAIN stack' \ 1..n : Sits(i)'
  BY <1>4, <1>7, <1>8, <1>9, <1>10, <1>11, SitsNew
<1>13. ASSUME NEW i \in 1..n, stack[i].do \in {"redraw", "unlisten"}
       PROVE  /\ stack[i].of # f
              /\ k \in Creators => k \notin objects[stack[i].of].under
  <2>1. PICK g : g = stack[i].of
    OBVIOUS
  <2>2. g \in Fragments
    BY <1>2, <1>7, <1>13, <2>1 DEF Stacked, Sits
  <2>3. f # g /\ ~\E c \in Above(objects[g].by) : objects[c].in = f
    BY <1>4, <1>7, <1>13, <2>1 DEF Busy
  <2>4. MadeBy(g)
    BY <1>2, <2>2, KindsDiffer DEF Shape
  <2>5. \A c \in objects[g].under : objects[c].in # f
    BY <2>3, <2>4 DEF MadeBy
  <2> QED BY <1>3, <2>1, <2>3, <2>5
<1>14. k \in Creators => k \notin objects[f].under
  BY <1>2, <1>3, RoundOf
<1>15. \A i \in DOMAIN stack' \ 1..n : \A j \in DOMAIN stack' : Fits(i, j)' /\ Fits(j, i)'
  BY <1>2, <1>4, <1>6, <1>7, <1>8, <1>9, <1>13, <1>14, FitsNew
<1>16. Stays /\ Longer
  BY <1>2, <1>4, NothingMade, LongerQueues
<1>17. listening \subseteq listening'
  BY <1>4
<1> QED BY <1>6, <1>10, <1>11, <1>12, <1>15, <1>16, <1>17, StackedBeneath

LEMMA StackedClosesPage ==
  ASSUME IInv, ClosePage
  PROVE  Stacked'
<1>1. Stacked /\ Typed /\ Shape /\ Root \in Creators /\ None \notin Creators
  BY Numbers, KindsDiffer DEF IInv, None
<1>2. PICK q : q = CallsToCleanUp(Root)
  OBVIOUS
<1>3. /\ stack = <<>> /\ Root \notin cleanedUp /\ BeginCleanup(Root) /\ stack' = q
      /\ UNCHANGED <<objects, queue, drawingVars>>
  BY <1>2 DEF ClosePage
<1>4. /\ q \in Seq(Frames) /\ Len(q) = 1 /\ q[1].do = "cleanup" /\ q[1].of = Root
      /\ q[1].next \in 0..Len(queue[Root])
  BY <1>1, <1>2, <1>3, CallsFacts DEF Root, None
<1>5. DOMAIN stack' = {1} /\ stack' \in Seq(Frames) /\ stack'[1] = q[1]
  BY <1>3, <1>4
<1>6. Root \in cleanedUp'
  <2>1. cleanedUp' = cleanedUp \cup ({Root} \ {None})
    BY <1>1, <1>3, Begun
  <2> QED BY <2>1 DEF Root, None
<1>7. Sits(1)'
  BY <1>3, <1>4, <1>5, <1>6 DEF Sits
<1>8. Fits(1, 1)'
  BY <1>4, <1>5 DEF Fits
<1> QED BY <1>5, <1>7, <1>8 DEF Stacked

LEMMA StackedKept ==
  ASSUME IInv, ~CleanersRedraw, Next
  PROVE  Stacked'
<1>0. Typed /\ Shape /\ Shape' /\ Stays /\ Stacked
  BY ShapeKept DEF IInv
<1>1. ASSUME NEW c \in Creators, MakeResource(c) \/ MakeElement(c) PROVE Stacked'
  <2>1. \E W, cleaner : Registers(W, cleaner)
    BY <1>1, ResourceRegisters, ElementRegisters
  <2>2. stack' = stack /\ current' = current /\ listening' = listening
    BY <1>1 DEF MakeResource, MakeElement, drawingVars
  <2> QED BY <1>0, <2>1, <2>2, StackedMakes
<1>2. ASSUME NEW e \in Elements, New(e) PROVE Stacked'
  <2>1. /\ objects' = Append(objects, Object("creator", objects[e].by, e, Around(e)))
        /\ queue' = Extended(queue, Len(objects'), <<>>)
        /\ promised' = Extended(promised, Len(objects'), {})
    BY <1>2, InElement
  <2>2. /\ cleanedUp' = cleanedUp /\ aborted' = aborted /\ (late => late')
        /\ current' = current /\ listening' = listening /\ stack' = stack
    BY <1>2 DEF New, drawingVars
  <2>3. PICK cleaner : cleaner = 0
    OBVIOUS
  <2>4. Registers({}, cleaner)
    BY <2>1, <2>2, CreatorRegisters
  <2>5. \E W, x : Registers(W, x)
    BY <2>4, Zenon
  <2> QED BY <1>0, <2>2, <2>5, StackedMakes
<1>3. CASE Rendered
  <2>1. \E W, x : Registers(W, x)
    BY <1>3, RenderedRegisters
  <2>2. stack # <<>> /\ stack' = Front(stack)
    BY <1>3 DEF Rendered, At
  <2>3. cleanedUp' = cleanedUp /\ current' = current /\ listening' = listening
    BY <1>3 DEF Rendered, cleaningVars, drawingVars
  <2> QED BY <1>0, <2>1, <2>2, <2>3, LongerQueues, StackedReturns
<1>4. CASE BlockReturns \/ BlockThrows \/ CleanerReturns
  <2>1. /\ stack # <<>> /\ stack' = Front(stack) /\ queue' = queue
        /\ cleanedUp' = cleanedUp /\ current' = current /\ listening' = listening
    BY <1>4 DEF BlockReturns, BlockThrows, CleanerReturns, At, cleaningVars, drawingVars
  <2> QED BY <1>0, <2>1, LongerQueues, StackedReturns
<1>5. CASE CleanupEnds
  <2>1. PICK k : k = Len(stack)
    OBVIOUS
  <2>2. /\ stack # <<>> /\ Top.do = "cleanup" /\ stack' = Front(stack) /\ objects' = objects
        /\ queue' = [queue EXCEPT ![Top.of] = <<>>]
        /\ cleanedUp' = cleanedUp /\ current' = current /\ listening' = listening
    BY <1>5 DEF CleanupEnds, At, cleaningVars, drawingVars
  <2>3. Top = stack[k] /\ k \in DOMAIN stack
    BY <1>0, <2>1, <2>2, TopOf
  <2>4. StackKeeps(k - 1) /\ Len(stack') = k - 1
    <3>1. StackKeeps(Len(stack) - 1) /\ Len(stack') = Len(stack) - 1
      BY <1>0, <2>2, StackPops
    <3> QED BY <2>1, <3>1
  <2> QED BY <2>2, <2>3, <2>4, StackedEnds
<1>6. CASE CleanerThrows
  <2>1. PICK k : k = Len(stack) - 1
    OBVIOUS
  <2>2. /\ objects' = objects /\ queue' = [queue EXCEPT ![stack[k].of] = <<>>]
        /\ cleanedUp' = cleanedUp /\ current' = current /\ listening' = listening
    BY <1>6, <2>1 DEF CleanerThrows, cleaningVars, drawingVars
  <2>3. /\ StackKeeps(k - 1) /\ Len(stack') = k - 1 /\ stack[k].do = "cleanup"
        /\ k \in DOMAIN stack
    <3>1. /\ StackKeeps(Len(stack) - 2) /\ Len(stack') = Len(stack) - 2
          /\ stack[Len(stack) - 1].do = "cleanup" /\ Len(stack) \in Nat /\ Len(stack) >= 2
      BY <1>6, StackThrows
    <3>2. Len(stack) - 2 = k - 1 /\ k \in 1..Len(stack)
      BY <2>1, <3>1
    <3>3. DOMAIN stack = 1..Len(stack)
      BY <3>1 DEF StackKeeps
    <3> QED BY <2>1, <3>1, <3>2, <3>3
  <2> QED BY <2>2, <2>3, StackedEnds
<1> QED BY <1>1, <1>2, <1>3, <1>4, <1>5, <1>6, StackedRenders, StackedDrawsAgain,
           StackedUnlistens, StackedDeletes, StackedCloses, StackedCleans, StackedRedraws,
           StackedClosesPage, StepKinds DEF Makes, Others

(***************************************************************************)
(* Promises are kept.                                                      *)
(***************************************************************************)
LEMMA DoneStays ==
  ASSUME IInv, Next, NEW c, NEW x, Cleans(c, x), Done(x)
  PROVE  Done(x)'
<1>0. Typed /\ Shape
  BY DEF IInv
<1>1. PICK f : f = x.of
  OBVIOUS
<1>2. CASE x.do = "close"
  <2>1. f \in released
    BY <1>1, <1>2 DEF Done
  <2>2. released \subseteq released'
    <3>1. CASE Others /\ ~Rendered
      BY <3>1, StepsCleanUp DEF CleansUp
    <3>2. CASE Makes \/ Rendered
      BY <3>2 DEF Makes, MakeResource, MakeElement, Render, New, DrawAgain, Rendered
    <3> QED BY <3>1, <3>2, StepKinds
  <2> QED BY <1>1, <1>2, <2>1, <2>2 DEF Done
<1>3. CASE x.do = "delete"
  <2>1. f \notin page /\ f \in DOMAIN objects
    BY <1>1, <1>3, KindsDiffer DEF Done, Cleans
  <2>2. f # Made
    BY <1>0, <2>1, Numbers DEF Made
  <2>3. page' \subseteq page \cup {Made}
    <3>1. CASE Others /\ ~Rendered
      BY <3>1, StepsCleanUp DEF CleansUp
    <3>2. CASE Makes \/ Rendered
      BY <3>2 DEF Makes, MakeResource, MakeElement, Render, New, DrawAgain, Rendered, Placed
    <3> QED BY <3>1, <3>2, StepKinds
  <2>4. f \notin page'
    BY <2>1, <2>2, <2>3
  <2> QED BY <1>1, <1>3, <2>4 DEF Done
<1>4. CASE x.do = "clean"
  <2>1. f \notin listening /\ current[f] = None /\ f \in Fragments
    BY <1>1, <1>4 DEF Done, Cleans
  <2>2. f # Made
    BY <1>0, <2>1, Numbers, KindsDiffer DEF Made
  <2>3. f \notin listening' /\ current'[f] = None
    <3>1. CASE Others /\ ~Rendered
      <4>1. listening' \subseteq listening /\ (current'[f] = current[f] \/ current'[f] = None)
        BY <2>1, <3>1, StepsCleanUp DEF CleansUp, RoundsGone
      <4> QED BY <2>1, <4>1
    <3>2. CASE DrawAgain
      <4>1. PICK g : g = Top.of
        OBVIOUS
      <4>2. stack # <<>> /\ Top.do = "redraw" /\ current' = [current EXCEPT ![g] = Made]
        BY <3>2, <4>1, InFragment
      <4>3. Sits(Len(stack)) /\ Top = stack[Len(stack)]
        BY <4>2, TopOf DEF IInv, Stacked
      <4>4. g \in listening
        BY <4>1, <4>2, <4>3 DEF Sits
      <4>5. current'[f] = current[f]
        BY <1>0, <2>1, <4>2, <4>4 DEF Typed
      <4> QED BY <2>1, <3>2, <4>5 DEF DrawAgain
    <3>3. CASE \E d \in Creators : Render(d)
      <4>1. PICK m : m = Made
        OBVIOUS
      <4>2. current' = Extended(current, m, m + 1) /\ listening' = listening \cup {m}
        BY <3>3, <4>1 DEF Render
      <4>3. current'[f] = current[f]
        BY <1>0, <2>1, <2>2, <4>1, <4>2 DEF Extended, Typed
      <4> QED BY <2>1, <2>2, <4>1, <4>2, <4>3
    <3>4. CASE \/ \E d \in Creators : MakeResource(d) \/ MakeElement(d)
               \/ \E e \in Elements : New(e)
               \/ Rendered
      BY <2>1, <3>4 DEF MakeResource, MakeElement, New, Rendered, drawingVars
    <3> QED BY <3>1, <3>2, <3>3, <3>4, StepKinds DEF Makes
  <2> QED BY <1>1, <1>4, <2>3 DEF Done
<1> QED BY <1>2, <1>3, <1>4 DEF Cleans

\* The calls that remain, and the rest of their queues.
LEMMA UnlistenStays ==
  ASSUME NEW k, StackKeeps(k), Same(k), NEW i \in 1..k, NEW x, x.do = "clean",
         stack[i] = Frame("unlisten", x.of)
  PROVE  Unlistening(x)'
<1>1. i \in DOMAIN stack' /\ stack'[i] = Frame("unlisten", x.of)
  BY DEF StackKeeps, Same, Remains
<1> QED BY <1>1 DEF Unlistening, ToSet, Frame

Extends(c) ==
  /\ Len(queue[c]) \in Nat /\ Len(queue'[c]) \in Nat /\ Len(queue[c]) <= Len(queue'[c])
  /\ \A j \in 1..Len(queue[c]) : queue'[c][j] = queue[c][j]

LEMMA StillToBeDone ==
  ASSUME NEW k, StackKeeps(k), Same(k), NEW i \in 1..k, NEW c, NEW x, Extends(c),
         stack \in Seq(Frames), stack[i].do = "cleanup", stack[i].of = c, stack[i].next # 0,
         NEW j \in stack[i].next..Len(queue[c]), queue[c][j] = x
  PROVE  ToBeDone(c, x)'
<1>1. i \in DOMAIN stack /\ i \in DOMAIN stack' /\ stack'[i] = stack[i]
  BY DEF StackKeeps, Same, Remains
<1>2. stack[i].next \in Nat \ {0}
  <2>1. stack[i] \in Frames
    BY <1>1
  <2> QED BY <2>1 DEF Frames
<1>3. PICK n, l : n = stack[i].next /\ l = Len(queue[c])
  OBVIOUS
<1>4. n \in Nat \ {0} /\ l \in Nat /\ j \in n..l
  BY <1>2, <1>3 DEF Extends
<1>5. j \in 1..l
  BY <1>4
<1>6. queue'[c][j] = x /\ l <= Len(queue'[c]) /\ Len(queue'[c]) \in Nat
  BY <1>3, <1>5 DEF Extends
<1>7. j \in n..Len(queue'[c])
  BY <1>4, <1>6
<1>8. /\ stack'[i].do = "cleanup" /\ stack'[i].of = c
      /\ stack'[i].next # 0 /\ stack'[i].next = n
  BY <1>1, <1>3
<1>9. \E m \in stack'[i].next..Len(queue'[c]) : queue'[c][m] = x
  BY <1>6, <1>7, <1>8
<1> QED BY <1>1, <1>8, <1>9 DEF ToBeDone

\* A step that leaves what there is to do.
LEMMA KeptRemaining ==
  ASSUME IInv, Next, NEW k, StackKeeps(k), Same(k), NEW c \in cleanedUp \ aborted,
         \A i \in DOMAIN stack : stack[i].do = "cleanup" /\ stack[i].of = c /\ stack[i].next # 0 =>
           i \in 1..k /\ Extends(c),
         \A i \in DOMAIN stack : stack[i].do = "unlisten" =>
           i \in 1..k \/ (stack[i].of \notin listening' /\ current'[stack[i].of] = None),
         NEW x \in promised[c]
  PROVE  Done(x)' \/ Unlistening(x)' \/ ToBeDone(c, x)'
<1>1. Done(x) \/ Unlistening(x) \/ ToBeDone(c, x)
  BY DEF IInv, Kept
<1>2. Cleans(c, x)
  BY DEF IInv, Typed
<1>3. CASE Done(x)
  BY <1>2, <1>3, DoneStays
<1>4. CASE Unlistening(x)
  <2>1. PICK i \in DOMAIN stack : stack[i] = Frame("unlisten", x.of)
    BY <1>4 DEF Unlistening, ToSet
  <2>2. x.do = "clean" /\ stack[i].do = "unlisten" /\ stack[i].of = x.of
    BY <1>4, <2>1 DEF Unlistening, Frame
  <2>3. CASE i \in 1..k
    BY <2>1, <2>2, <2>3, UnlistenStays
  <2>4. CASE i \notin 1..k
    <3>1. x.of \notin listening' /\ current'[x.of] = None
      BY <2>2, <2>4
    <3> QED BY <2>2, <3>1 DEF Done
  <2> QED BY <2>3, <2>4
<1>5. CASE ToBeDone(c, x)
  <2>1. PICK i \in DOMAIN stack :
          /\ stack[i].do = "cleanup" /\ stack[i].of = c /\ stack[i].next # 0
          /\ \E j \in stack[i].next..Len(queue[c]) : queue[c][j] = x
    BY <1>5 DEF ToBeDone
  <2>2. PICK j \in stack[i].next..Len(queue[c]) : queue[c][j] = x
    BY <2>1
  <2>3. i \in 1..k /\ Extends(c) /\ stack \in Seq(Frames)
    BY <2>1 DEF IInv, Stacked
  <2> QED BY <2>1, <2>2, <2>3, StillToBeDone
<1> QED BY <1>1, <1>3, <1>4, <1>5

LEMMA QueuesExtend ==
  ASSUME Typed, queue' = queue \/ \E W, cleaner : Registers(W, cleaner)
  PROVE  \A c \in Creators : Extends(c)
<1>1. \A c \in Creators : queue[c] \in Seq(Registrable)
  BY DEF Typed
<1>2. \A c \in Creators : Len(queue[c]) \in Nat
  BY <1>1
<1>3. CASE queue' = queue
  BY <1>2, <1>3 DEF Extends
<1>4. CASE \E W, cleaner : Registers(W, cleaner)
  BY <1>4 DEF Registers, GrowsBy, Extends
<1> QED BY <1>3, <1>4

\* All calls remain, and calls may be made.
LEMMA KeptUnder ==
  ASSUME IInv, Next, StackKeeps(Len(stack)), Same(Len(stack)),
         queue' = queue \/ (\E W, cleaner : Registers(W, cleaner)),
         NEW c \in cleanedUp \ aborted, NEW x \in promised[c]
  PROVE  Done(x)' \/ Unlistening(x)' \/ ToBeDone(c, x)'
<1>1. Extends(c)
  BY QueuesExtend DEF IInv, Typed
<1>2. PICK k : k = Len(stack)
  OBVIOUS
<1>3. DOMAIN stack = 1..k /\ StackKeeps(k) /\ Same(k)
  BY <1>2 DEF StackKeeps
<1>4. \A i \in DOMAIN stack : i \in 1..k /\ Extends(c)
  BY <1>1, <1>3
<1> QED BY <1>3, <1>4, KeptRemaining

\* A call returns, or runs its block: not a cleanup, or one that is over.
LEMMA KeptPopping ==
  ASSUME IInv, Next, NEW n, n = Len(stack), StackKeeps(n - 1), Same(n - 1), n \in DOMAIN stack,
         queue' = queue \/ (\E W, cleaner : Registers(W, cleaner)),
         stack[n].do # "cleanup",
         stack[n].do = "unlisten" => stack[n].of \notin listening' /\ current'[stack[n].of] = None,
         NEW c \in cleanedUp \ aborted, NEW x \in promised[c]
  PROVE  Done(x)' \/ Unlistening(x)' \/ ToBeDone(c, x)'
<1>1. Extends(c)
  BY QueuesExtend DEF IInv, Typed
<1>2. DOMAIN stack = 1..n /\ n \in Nat
  BY DEF StackKeeps
<1>3. PICK k : k = n - 1
  OBVIOUS
<1>4. ASSUME NEW i \in DOMAIN stack PROVE i = n \/ i \in 1..k
  BY <1>2, <1>3
<1>5. StackKeeps(k) /\ Same(k)
  BY <1>3
<1> QED BY <1>1, <1>4, <1>5, KeptRemaining

\* A cleanup ends, or is ended by what a cleaner throws.
LEMMA KeptEnding ==
  ASSUME IInv, Next, NEW n \in DOMAIN stack, stack[n].do = "cleanup",
         StackKeeps(n - 1), Same(n - 1),
         \A i \in DOMAIN stack : i > n => stack[i].do \notin {"cleanup", "unlisten"},
         queue' = [queue EXCEPT ![stack[n].of] = <<>>],
         stack[n].next = 0 \/ stack[n].of \in aborted',
         NEW c \in cleanedUp \ aborted, c \notin aborted', NEW x \in promised[c]
  PROVE  Done(x)' \/ Unlistening(x)' \/ ToBeDone(c, x)'
<1>1. PICK k : k = n - 1
  OBVIOUS
<1>2. StackKeeps(k) /\ Same(k) /\ n \in Nat /\ DOMAIN stack = 1..Len(stack) /\ Len(stack) \in Nat
  BY <1>1 DEF StackKeeps
<1>3. \A i \in DOMAIN stack : i \in 1..k \/ i = n \/ i > n
  BY <1>1, <1>2
<1>4. ASSUME NEW i \in DOMAIN stack, stack[i].do = "cleanup", stack[i].of = c, stack[i].next # 0
      PROVE  i \in 1..k /\ Extends(c)
  <2>1. Fits(i, n)
    BY DEF IInv, Stacked
  <2>2. i # n
    BY <1>4
  <2>3. c # stack[n].of
    BY <1>4, <2>1, <2>2 DEF Fits
  <2>4. i \in 1..k
    BY <1>3, <1>4, <2>2
  <2>5. queue[c] \in Seq(Registrable) /\ queue'[c] = queue[c]
    BY <2>3 DEF IInv, Typed
  <2>6. Extends(c)
    BY <2>5 DEF Extends
  <2> QED BY <2>4, <2>6
<1>5. \A i \in DOMAIN stack : stack[i].do = "unlisten" => i \in 1..k
  BY <1>3
<1> QED BY <1>2, <1>4, <1>5, KeptRemaining

\* A cleanup goes on: what is called is done, or about to be, and the rest is left.
LEMMA KeptContinuing ==
  ASSUME IInv, Next, At("cleanup"), Top.next # 0, NEW calls \in Seq(Frames), Continue(calls),
         queue' = queue, NEW y, y = Called, Done(y)' \/ Unlistening(y)',
         NEW c \in cleanedUp \ aborted, NEW x \in promised[c]
  PROVE  Done(x)' \/ Unlistening(x)' \/ ToBeDone(c, x)'
<1>0. Stacked /\ Typed
  BY DEF IInv
<1>1. PICK n : n = Len(stack)
  OBVIOUS
<1>2. /\ StackKeeps(n) /\ n \in Nat /\ n = Len(stack) /\ Top = stack[n] /\ Top.do = "cleanup"
      /\ stack'[n].do = "cleanup" /\ stack'[n].of = Top.of /\ stack'[n].next = NextCleaner
      /\ Top.next \in 1..Len(queue[Top.of]) /\ n \in DOMAIN stack /\ n \in DOMAIN stack'
  <2>1. /\ StackKeeps(Len(stack)) /\ Top = stack[Len(stack)] /\ Top.do = "cleanup"
        /\ Len(stack) >= 1
    BY <1>0, StackContinues
  <2>2. /\ stack'[Len(stack)].do = "cleanup" /\ stack'[Len(stack)].of = Top.of
        /\ stack'[Len(stack)].next = NextCleaner
        /\ Top.next \in 1..Len(queue[Top.of])
    BY <1>0, Continued
  <2>3. Len(stack) \in 1..Len(stack) /\ Len(stack) \in Nat
    BY <2>1 DEF StackKeeps
  <2>4. Len(stack) \in DOMAIN stack /\ Len(stack) \in DOMAIN stack'
    BY <2>1, <2>3 DEF StackKeeps, Remains
  <2> QED BY <1>1, <2>1, <2>2, <2>3, <2>4
<1>3. PICK k : k = n - 1
  OBVIOUS
<1>4. StackKeeps(k) /\ Same(k)
  <2>1. n >= 1 /\ k \in Nat /\ k < n
    BY <1>2, <1>3 DEF StackKeeps
  <2>2. \A i \in 1..k : i \in 1..n /\ i < Len(stack)
    BY <1>2, <2>1
  <2> QED BY <1>2, <2>1, <2>2 DEF StackKeeps, Same
<1>5. \A i \in DOMAIN stack : i = n \/ i \in 1..k
  BY <1>2, <1>3 DEF StackKeeps
<1>6. Extends(c)
  BY <1>0, QueuesExtend DEF Typed
<1>7. Done(x) \/ Unlistening(x) \/ ToBeDone(c, x)
  BY DEF IInv, Kept
<1>8. Cleans(c, x)
  BY DEF IInv, Typed
<1>9. CASE Done(x)
  BY <1>8, <1>9, DoneStays
<1>10. CASE Unlistening(x)
  <2>1. PICK i \in DOMAIN stack : stack[i] = Frame("unlisten", x.of)
    BY <1>10 DEF Unlistening, ToSet
  <2>2. x.do = "clean" /\ stack[i].do = "unlisten"
    BY <1>10, <2>1 DEF Unlistening, Frame
  <2>3. i \in 1..k
    BY <1>2, <1>5, <2>2
  <2> QED BY <1>4, <2>1, <2>2, <2>3, UnlistenStays
<1>11. CASE ToBeDone(c, x)
  <2>1. PICK i \in DOMAIN stack :
          /\ stack[i].do = "cleanup" /\ stack[i].of = c /\ stack[i].next # 0
          /\ \E j \in stack[i].next..Len(queue[c]) : queue[c][j] = x
    BY <1>11 DEF ToBeDone
  <2>2. PICK j \in stack[i].next..Len(queue[c]) : queue[c][j] = x
    BY <2>1
  <2>3. CASE i \in 1..k
    <3>1. stack \in Seq(Frames)
      BY <1>0 DEF Stacked
    <3> QED BY <1>4, <1>6, <2>1, <2>2, <2>3, <3>1, StillToBeDone
  <2>4. CASE i = n
    <3>1. PICK m, l : m = Top.next /\ l = Len(queue[c])
      OBVIOUS
    <3>2. Top.of = c /\ stack[i].next = m /\ m \in 1..l /\ j \in m..l /\ l \in Nat
      BY <1>2, <1>6, <2>1, <2>2, <2>4, <3>1 DEF Extends
    <3>3. CASE j = m
      <4>1. y = x
        BY <2>2, <3>1, <3>2, <3>3 DEF Called
      <4> QED BY <4>1
    <3>4. CASE j # m
      <4>1. m < l /\ j \in (m + 1)..l
        BY <3>2, <3>4
      <4>2. stack'[n].next = m + 1
        BY <1>2, <3>1, <3>2, <4>1 DEF NextCleaner
      <4>3. m + 1 # 0
        BY <3>2
      <4>4. j \in stack'[n].next..Len(queue'[c]) /\ queue'[c][j] = x
        BY <2>2, <3>1, <4>1, <4>2
      <4> QED BY <1>2, <3>2, <4>2, <4>3, <4>4 DEF ToBeDone
    <3> QED BY <3>3, <3>4
  <2> QED BY <1>5, <2>3, <2>4
<1> QED BY <1>7, <1>9, <1>10, <1>11

\* The cleaners of a creator whose cleanup begins are in its queue.
LEMMA KeptBeginning ==
  ASSUME Typed, Shape, queue' = queue, NEW k \in Creators \ cleanedUp, NEW i \in DOMAIN stack',
         stack'[i].do = "cleanup", stack'[i].of = k, stack'[i].next \in {0, 1},
         stack'[i].next = 0 => queue[k] = <<>>, NEW x \in ToSet(queue[k])
  PROVE  ToBeDone(k, x)'
<1>1. queue[k] \in Seq(Registrable)
  BY DEF Typed
<1>2. PICK j \in DOMAIN queue[k] : x = queue[k][j]
  BY DEF ToSet
<1>3. j \in 1..Len(queue[k]) /\ Len(queue[k]) \in Nat
  BY <1>1, <1>2
<1>4. stack'[i].next = 1
  BY <1>3
<1> QED BY <1>2, <1>3, <1>4 DEF ToBeDone

\* What was promised is, after any step, done, about to be done or still to be done.
LEMMA KeptReturning ==
  ASSUME IInv, Next, stack # <<>>, stack' = Front(stack),
         queue' = queue \/ (\E W, cleaner : Registers(W, cleaner)),
         Top.do # "cleanup",
         Top.do = "unlisten" => Top.of \notin listening' /\ current'[Top.of] = None,
         NEW c \in cleanedUp \ aborted, NEW x \in promised[c]
  PROVE  Done(x)' \/ Unlistening(x)' \/ ToBeDone(c, x)'
<1>1. PICK n : n = Len(stack)
  OBVIOUS
<1>2. Top = stack[n] /\ n \in DOMAIN stack /\ n \in Nat
  BY <1>1, TopOf DEF IInv
<1>3. StackKeeps(n - 1)
  <2>1. StackKeeps(Len(stack) - 1)
    BY StackPops DEF IInv
  <2> QED BY <1>1, <2>1
<1>4. Same(n - 1)
  <2>1. \A i \in 1..(n - 1) : i < Len(stack)
    BY <1>1, <1>2
  <2> QED BY <1>3, <2>1 DEF StackKeeps, Same
<1>5. /\ stack[n].do # "cleanup"
      /\ stack[n].do = "unlisten" => stack[n].of \notin listening' /\ current'[stack[n].of] = None
  BY <1>2
<1> QED BY <1>1, <1>2, <1>3, <1>4, <1>5, KeptPopping

LEMMA KeptMaking ==
  ASSUME IInv, Next, Makes, NEW c \in cleanedUp \ aborted, NEW x \in promised[c]
  PROVE  Done(x)' \/ Unlistening(x)' \/ ToBeDone(c, x)'
<1>0. Stacked
  BY DEF IInv
<1>1. ASSUME NEW d \in Creators, MakeResource(d) \/ MakeElement(d)
      PROVE  Done(x)' \/ Unlistening(x)' \/ ToBeDone(c, x)'
  <2>1. \E W, cleaner : Registers(W, cleaner)
    BY <1>1, ResourceRegisters, ElementRegisters
  <2>2. stack' = stack
    BY <1>1 DEF MakeResource, MakeElement
  <2>3. StackKeeps(Len(stack)) /\ Same(Len(stack))
    BY <1>0, <2>2, StackStays
  <2> QED BY <2>1, <2>3, KeptUnder
<1>2. ASSUME NEW e \in Elements, New(e)
      PROVE  Done(x)' \/ Unlistening(x)' \/ ToBeDone(c, x)'
  <2>1. /\ objects' = Append(objects, Object("creator", objects[e].by, e, Around(e)))
        /\ queue' = Extended(queue, Len(objects'), <<>>)
        /\ promised' = Extended(promised, Len(objects'), {})
    BY <1>2, InElement
  <2>2. /\ cleanedUp' = cleanedUp /\ aborted' = aborted /\ (late => late') /\ stack' = stack
    BY <1>2 DEF New
  <2>3. PICK cleaner : cleaner = 0
    OBVIOUS
  <2>4. Registers({}, cleaner)
    BY <2>1, <2>2, CreatorRegisters
  <2>5. \E W, y : Registers(W, y)
    BY <2>4, Zenon
  <2>6. StackKeeps(Len(stack)) /\ Same(Len(stack))
    BY <1>0, <2>2, StackStays
  <2> QED BY <2>5, <2>6, KeptUnder
<1>3. ASSUME NEW d \in Creators, Render(d)
      PROVE  Done(x)' \/ Unlistening(x)' \/ ToBeDone(c, x)'
  <2>1. \E W, cleaner : Registers(W, cleaner)
    BY <1>3, FragmentRegisters
  <2>2. StackKeeps(Len(stack)) /\ Same(Len(stack))
    BY <1>3, StackRenders
  <2> QED BY <2>1, <2>2, KeptUnder
<1>4. CASE DrawAgain
  <2>1. PICK n, f : n = Len(stack) /\ f = Top.of
    OBVIOUS
  <2>2. /\ StackKeeps(n - 1) /\ n >= 1 /\ n = Len(stack) /\ stack[n].do = "redraw"
    <3>1. /\ StackKeeps(Len(stack) - 1) /\ Len(stack) >= 1 /\ stack[Len(stack)].do = "redraw"
      BY <1>4, StackDrawsAgain
    <3> QED BY <2>1, <3>1
  <2>3. n \in DOMAIN stack /\ n \in Nat
    BY <2>2 DEF StackKeeps
  <2>4. Same(n - 1)
    <3>1. \A i \in 1..(n - 1) : i < Len(stack)
      BY <2>2, <2>3
    <3> QED BY <2>2, <3>1 DEF StackKeeps, Same
  <2>5. /\ f \in Fragments
        /\ objects' = Append(objects, Object("creator", objects[f].by, f, Around(f)))
        /\ queue' = Extended(queue, Len(objects'), <<>>)
        /\ promised' = Extended(promised, Len(objects'), {})
    BY <1>4, <2>1, InFragment
  <2>6. cleanedUp' = cleanedUp /\ aborted' = aborted /\ (late => late')
    BY <1>4 DEF DrawAgain
  <2>7. PICK cleaner : cleaner = 0
    OBVIOUS
  <2>8. Registers({}, cleaner)
    BY <2>5, <2>6, CreatorRegisters
  <2>9. \E W, y : Registers(W, y)
    BY <2>8, Zenon
  <2> QED BY <2>2, <2>3, <2>4, <2>9, KeptPopping
<1> QED BY <1>1, <1>2, <1>3, <1>4 DEF Makes

\* The cleaner called is done, or its fragment about to listen no more.
LEMMA KeptRunning ==
  ASSUME IInv, Next, DeleteElement \/ CloseResource \/ CleanFragment,
         NEW c \in cleanedUp \ aborted, NEW x \in promised[c]
  PROVE  Done(x)' \/ Unlistening(x)' \/ ToBeDone(c, x)'
<1>0. Stacked /\ Typed /\ Shape
  BY DEF IInv
<1>1. PICK y : y = Called
  OBVIOUS
<1>2. CASE DeleteElement
  <2>1. Runs("delete")
    BY <1>2 DEF DeleteElement
  <2>2. PICK calls : calls = <<>>
    OBVIOUS
  <2>3. calls \in Seq(Frames) /\ Continue(calls) /\ queue' = queue
    BY <1>2, <2>2 DEF DeleteElement
  <2>4. At("cleanup") /\ Top.next # 0 /\ Cleans(Top.of, y) /\ y.do = "delete"
    BY <1>1, <2>1, CalledFacts
  <2>5. page' = page \ IF y.of \in Elements THEN Within(y.of) ELSE {y.of}
    BY <1>1, <1>2 DEF DeleteElement, Elements
  <2>6. y.of \in Around(y.of)
    <3>1. y.of \in Elements \cup Fragments
      BY <2>4 DEF Cleans
    <3>2. y.of # None
      BY <3>1, <1>0, Numbers, KindsDiffer DEF None
    <3> QED BY <3>2 DEF Around
  <2>7. y.of \notin page'
    BY <2>5, <2>6 DEF Within
  <2>8. Done(y)'
    BY <2>4, <2>7 DEF Done
  <2> QED BY <1>1, <2>3, <2>4, <2>8, KeptContinuing
<1>3. CASE CloseResource
  <2>1. Runs("close")
    BY <1>3 DEF CloseResource
  <2>2. PICK e : e = Frame("user", Called.of)
    OBVIOUS
  <2>3. At("cleanup") /\ Top.next # 0 /\ y.do = "close" /\ Called.of \in Nat
    BY <1>1, <2>1, CalledFacts DEF Registrable
  <2>4. e \in Frames
    BY <2>2, <2>3, FrameFacts DEF FrameKinds
  <2>5. PICK calls : calls = <<e>>
    OBVIOUS
  <2>6. calls \in Seq(Frames) /\ Continue(calls) /\ queue' = queue
    BY <1>3, <2>2, <2>4, <2>5 DEF CloseResource
  <2>7. y.of \in released'
    BY <1>1, <1>3 DEF CloseResource
  <2>8. Done(y)'
    BY <2>3, <2>7 DEF Done
  <2> QED BY <1>1, <2>3, <2>6, <2>8, KeptContinuing
<1>4. CASE CleanFragment
  <2>1. Runs("clean")
    BY <1>4 DEF CleanFragment
  <2>2. PICK f, n : f = Called.of /\ n = Len(stack)
    OBVIOUS
  <2>3. /\ At("cleanup") /\ Top.next # 0 /\ Cleans(Top.of, y) /\ y.do = "clean" /\ y.of = f
    BY <1>1, <2>1, <2>2, CalledFacts
  <2>4. f \in Fragments
    BY <2>3 DEF Cleans
  <2>5. PICK e, q : e = Frame("unlisten", f) /\ q = CallsToCleanUp(current[f])
    OBVIOUS
  <2>6. q \in Seq(Frames) /\ e \in Frames
    <3>1. f \in Nat /\ current[f] \in Creators \cup {None}
      BY <1>0, <2>4, Numbers, KindsDiffer DEF Typed
    <3> QED BY <1>0, <2>5, <3>1, FrameFacts, CallsFacts DEF FrameKinds
  <2>7. PICK calls : calls = <<e>> \o q
    OBVIOUS
  <2>8. calls \in Seq(Frames) /\ 1 \in 1..Len(calls) /\ calls[1] = e
    <3>1. PICK s : s = <<e>>
      OBVIOUS
    <3>2. s \in Seq(Frames) /\ Len(s) = 1 /\ s[1] = e
      BY <2>6, <3>1
    <3>3. /\ s \o q \in Seq(Frames) /\ Len(s \o q) = Len(s) + Len(q)
          /\ \A i \in 1..(Len(s) + Len(q)) :
               (s \o q)[i] = IF i <= Len(s) THEN s[i] ELSE q[i - Len(s)]
      BY <2>6, <3>2, ConcatProperties, Zenon
    <3>4. /\ calls \in Seq(Frames) /\ Len(calls) = Len(s) + Len(q)
          /\ \A i \in 1..(Len(s) + Len(q)) :
               calls[i] = IF i <= Len(s) THEN s[i] ELSE q[i - Len(s)]
      BY <2>7, <3>1, <3>3, Zenon
    <3>5. Len(q) \in Nat
      BY <2>6
    <3> QED BY <3>2, <3>4, <3>5
  <2>9. Continue(calls) /\ queue' = queue
    BY <1>4, <2>2, <2>5, <2>7 DEF CleanFragment
  <2>10. /\ StackKeeps(n) /\ Len(stack') = n + Len(calls) /\ Len(calls) \in Nat
         /\ \A i \in 1..Len(calls) : stack'[n + i] = calls[i]
    <3>1. /\ StackKeeps(Len(stack)) /\ Len(stack') = Len(stack) + Len(calls)
          /\ Len(calls) \in Nat
          /\ \A i \in 1..Len(calls) : stack'[Len(stack) + i] = calls[i]
      BY <1>0, <2>3, <2>8, <2>9, StackContinues
    <3> QED BY <2>2, <3>1
  <2>11. stack'[n + 1] = e
    BY <2>8, <2>10
  <2>12. n + 1 \in DOMAIN stack'
    BY <2>8, <2>10 DEF StackKeeps
  <2>13. Unlistening(y)'
    BY <2>3, <2>5, <2>11, <2>12 DEF Unlistening, ToSet
  <2> QED BY <1>1, <2>3, <2>8, <2>9, <2>13, KeptContinuing
<1> QED BY <1>2, <1>3, <1>4

LEMMA KeptStep ==
  ASSUME IInv, Next, NEW c \in cleanedUp \ aborted, c \notin aborted', NEW x \in promised[c]
  PROVE  Done(x)' \/ Unlistening(x)' \/ ToBeDone(c, x)'
<1>0. Stacked /\ Typed /\ Shape
  BY DEF IInv
<1>1. ASSUME NEW f \in Fragments, Redraw(f)
      PROVE  Done(x)' \/ Unlistening(x)' \/ ToBeDone(c, x)'
  <2>1. queue' = queue
    BY <1>1 DEF Redraw
  <2>2. StackKeeps(Len(stack)) /\ Same(Len(stack))
    BY <1>1, StackRedraws
  <2> QED BY <2>1, <2>2, KeptUnder
<1>2. CASE Rendered
  <2>1. \E W, cleaner : Registers(W, cleaner)
    BY <1>2, RenderedRegisters
  <2>2. stack # <<>> /\ stack' = Front(stack) /\ Top.do = "first"
    BY <1>2 DEF Rendered, At
  <2> QED BY <2>1, <2>2, KeptReturning
<1>3. CASE BlockReturns \/ BlockThrows \/ CleanerReturns
  <2>1. /\ stack # <<>> /\ stack' = Front(stack) /\ queue' = queue
        /\ Top.do \in {"block", "first", "user"}
    BY <1>3 DEF BlockReturns, BlockThrows, CleanerReturns, At
  <2> QED BY <2>1, KeptReturning
<1>4. CASE Unlisten
  <2>1. PICK f : f = Top.of
    OBVIOUS
  <2>2. /\ stack # <<>> /\ stack' = Front(stack) /\ queue' = queue /\ Top.do = "unlisten"
        /\ f \notin listening' /\ current' = current
    BY <1>4, <2>1 DEF Unlisten, At
  <2>3. current[f] = None
    <3>1. Len(stack) \in DOMAIN stack /\ Top = stack[Len(stack)]
      BY <1>0, <2>2, TopOf
    <3> QED BY <1>0, <2>1, <2>2, <3>1 DEF Stacked, Sits
  <2>4. Top.of \notin listening' /\ current'[Top.of] = None
    BY <2>1, <2>2, <2>3
  <2> QED BY <2>2, <2>4, KeptReturning
<1>5. CASE ClosePage
  <2>1. PICK q : q = CallsToCleanUp(Root)
    OBVIOUS
  <2>2. stack = <<>> /\ stack' = q /\ queue' = queue
    BY <1>5, <2>1 DEF ClosePage
  <2>3. Root \in Creators
    BY <1>0, Numbers
  <2>4. q \in Seq(Frames)
    BY <1>0, <2>1, <2>3, CallsFacts
  <2>5. stack' = stack \o q
    BY <2>2, <2>4
  <2>6. StackKeeps(Len(stack)) /\ Same(Len(stack))
    BY <1>0, <2>4, <2>5, StackGrows
  <2> QED BY <2>2, <2>6, KeptUnder
<1>6. CASE CleanupEnds
  <2>1. PICK n : n = Len(stack)
    OBVIOUS
  <2>2. /\ stack # <<>> /\ Top.do = "cleanup" /\ Top.next = 0 /\ stack' = Front(stack)
        /\ queue' = [queue EXCEPT ![Top.of] = <<>>]
    BY <1>6 DEF CleanupEnds, At
  <2>3. Top = stack[n] /\ n \in DOMAIN stack /\ n \in Nat /\ DOMAIN stack = 1..n
    BY <1>0, <2>1, <2>2, TopOf
  <2>4. StackKeeps(n - 1)
    <3>1. StackKeeps(Len(stack) - 1)
      BY <1>0, <2>2, StackPops
    <3> QED BY <2>1, <3>1
  <2>5. Same(n - 1)
    <3>1. \A i \in 1..(n - 1) : i < Len(stack)
      BY <2>1, <2>3
    <3> QED BY <2>4, <3>1 DEF StackKeeps, Same
  <2>6. \A i \in DOMAIN stack : ~(i > n)
    BY <2>3
  <2>7. /\ stack[n].do = "cleanup" /\ stack[n].next = 0
        /\ queue' = [queue EXCEPT ![stack[n].of] = <<>>]
    BY <2>2, <2>3
  <2> QED BY <2>3, <2>4, <2>5, <2>6, <2>7, KeptEnding
<1>7. CASE CleanerThrows
  <2>1. PICK n : n = Len(stack) - 1
    OBVIOUS
  <2>2. /\ queue' = [queue EXCEPT ![stack[n].of] = <<>>]
        /\ stack[n].of \in aborted'
    BY <1>7, <2>1 DEF CleanerThrows
  <2>3. /\ StackKeeps(n - 1) /\ stack[n].do = "cleanup" /\ n \in DOMAIN stack /\ n \in Nat
        /\ Len(stack) = n + 1 /\ DOMAIN stack = 1..(n + 1) /\ stack[n + 1].do = "user"
    <3>1. /\ StackKeeps(Len(stack) - 2) /\ stack[Len(stack) - 1].do = "cleanup"
          /\ Len(stack) \in Nat /\ Len(stack) >= 2 /\ stack[Len(stack)].do = "user"
      BY <1>7, StackThrows
    <3>2. Len(stack) - 2 = n - 1 /\ n \in 1..Len(stack) /\ Len(stack) = n + 1 /\ n \in Nat
      BY <2>1, <3>1
    <3>3. DOMAIN stack = 1..Len(stack)
      BY <3>1 DEF StackKeeps
    <3> QED BY <2>1, <3>1, <3>2, <3>3
  <2>4. Same(n - 1)
    <3>1. \A i \in 1..(n - 1) : i < Len(stack)
      BY <2>3
    <3> QED BY <2>3, <3>1 DEF StackKeeps, Same
  <2>5. \A i \in DOMAIN stack : i > n => stack[i].do \notin {"cleanup", "unlisten"}
    <3>1. \A i \in 1..(n + 1) : i > n => i = n + 1
      BY <2>3
    <3> QED BY <2>3, <3>1
  <2> QED BY <2>2, <2>3, <2>4, <2>5, KeptEnding
<1> QED BY <1>1, <1>2, <1>3, <1>4, <1>5, <1>6, <1>7, KeptMaking, KeptRunning, StepKinds
        DEF Others

\* What registers cleaners, and what begins a cleanup.
LEMMA StepsRegister ==
  ASSUME IInv, Makes \/ Rendered
  PROVE  \E W, cleaner : Registers(W, cleaner)
<1>1. ASSUME NEW e \in Elements \cup Fragments,
             objects' = Append(objects, Object("creator", objects[e].by, e, Around(e))),
             queue' = Extended(queue, Len(objects'), <<>>),
             promised' = Extended(promised, Len(objects'), {}),
             cleanedUp' = cleanedUp, aborted' = aborted, late => late'
      PROVE  \E W, cleaner : Registers(W, cleaner)
  <2>1. PICK y : y = 0
    OBVIOUS
  <2>2. Registers({}, y)
    BY <1>1, CreatorRegisters
  <2> QED BY <2>2, Zenon
<1>2. ASSUME NEW e \in Elements, New(e) PROVE \E W, cleaner : Registers(W, cleaner)
  <2>1. cleanedUp' = cleanedUp /\ aborted' = aborted /\ (late => late')
    BY <1>2 DEF New
  <2> QED BY <1>1, <1>2, <2>1, InElement
<1>3. CASE DrawAgain
  <2>1. cleanedUp' = cleanedUp /\ aborted' = aborted /\ (late => late')
    BY <1>3 DEF DrawAgain
  <2>2. PICK f : f = Top.of
    OBVIOUS
  <2>3. /\ f \in Fragments
        /\ objects' = Append(objects, Object("creator", objects[f].by, f, Around(f)))
        /\ queue' = Extended(queue, Len(objects'), <<>>)
        /\ promised' = Extended(promised, Len(objects'), {})
    BY <1>3, <2>2, InFragment
  <2> QED BY <1>1, <2>1, <2>3
<1> QED BY <1>2, <1>3, ResourceRegisters, ElementRegisters, FragmentRegisters,
           RenderedRegisters DEF Makes

LEMMA CallsToBegin ==
  ASSUME IInv, Others, ~Rendered, NEW c \in cleanedUp' \ cleanedUp
  PROVE  /\ queue' = queue /\ c \in Creators
         /\ \E i \in DOMAIN stack' :
              /\ stack'[i].do = "cleanup" /\ stack'[i].of = c /\ stack'[i].next \in {0, 1}
              /\ stack'[i].next = 0 => queue[c] = <<>>
<1>0. Stacked /\ Typed /\ Shape
  BY DEF IInv
<1>1. ASSUME NEW k \in Creators \cup {None}, BeginCleanup(k), NEW q, q = CallsToCleanUp(k),
             NEW i \in Nat, i + 1 \in DOMAIN stack', Len(q) = 1 => stack'[i + 1] = q[1]
      PROVE  /\ c \in Creators
             /\ \E j \in DOMAIN stack' :
                  /\ stack'[j].do = "cleanup" /\ stack'[j].of = c /\ stack'[j].next \in {0, 1}
                  /\ stack'[j].next = 0 => queue[c] = <<>>
  <2>1. cleanedUp' = cleanedUp \cup ({k} \ {None})
    BY <1>0, <1>1, Begun
  <2>2. c = k /\ k \notin cleanedUp \cup {None} /\ k \in Creators
    BY <1>1, <2>1
  <2>3. /\ Len(q) = 1 /\ q[1].do = "cleanup" /\ q[1].of = k
        /\ q[1].next = 0 => queue[k] = <<>>
        /\ q[1].next \in {0, 1}
    BY <1>0, <1>1, <2>2, CallsFacts
  <2> QED BY <1>1, <2>2, <2>3
<1>2. ASSUME NEW f \in Fragments, Redraw(f)
      PROVE  /\ queue' = queue /\ c \in Creators
             /\ \E i \in DOMAIN stack' :
                  /\ stack'[i].do = "cleanup" /\ stack'[i].of = c /\ stack'[i].next \in {0, 1}
                  /\ stack'[i].next = 0 => queue[c] = <<>>
  <2>1. PICK n, k, q : n = Len(stack) /\ k = current[f] /\ q = CallsToCleanUp(k)
    OBVIOUS
  <2>2. k \in Creators \cup {None} /\ BeginCleanup(k) /\ queue' = queue
    BY <1>0, <1>2, <2>1 DEF Redraw, LastRound, Typed
  <2>3. /\ StackKeeps(n) /\ Len(q) \in Nat /\ Len(stack') = n + 1 + Len(q)
        /\ \A i \in 1..Len(q) : stack'[n + 1 + i] = q[i]
    <3>1. /\ StackKeeps(Len(stack)) /\ Len(CallsToCleanUp(current[f])) \in Nat
          /\ Len(stack') = Len(stack) + 1 + Len(CallsToCleanUp(current[f]))
          /\ \A i \in 1..Len(CallsToCleanUp(current[f])) :
               stack'[Len(stack) + 1 + i] = CallsToCleanUp(current[f])[i]
      BY <1>2, StackRedraws
    <3> QED BY <2>1, <3>1, Zenon
  <2>4. n \in Nat /\ DOMAIN stack' = 1..Len(stack')
    BY <2>3 DEF StackKeeps
  <2>5. Len(q) = 1
    <3>1. cleanedUp' = cleanedUp \cup ({k} \ {None})
      BY <1>0, <2>2, Begun
    <3>2. k \notin cleanedUp \cup {None}
      BY <2>2, <3>1
    <3> QED BY <1>0, <2>1, <2>2, <3>2, CallsFacts
  <2>6. stack'[(n + 1) + 1] = q[1] /\ (n + 1) + 1 \in DOMAIN stack' /\ n + 1 \in Nat
    BY <2>3, <2>4, <2>5
  <2>7. PICK i : i = n + 1
    OBVIOUS
  <2> QED BY <1>1, <2>1, <2>2, <2>6, <2>7
<1>3. ASSUME ClosePage
      PROVE  /\ queue' = queue /\ c \in Creators
             /\ \E i \in DOMAIN stack' :
                  /\ stack'[i].do = "cleanup" /\ stack'[i].of = c /\ stack'[i].next \in {0, 1}
                  /\ stack'[i].next = 0 => queue[c] = <<>>
  <2>1. PICK q, k, i : q = CallsToCleanUp(k) /\ k = Root /\ i = 0
    OBVIOUS
  <2>2. stack' = q /\ queue' = queue /\ BeginCleanup(k) /\ k \notin cleanedUp
    BY <1>3, <2>1 DEF ClosePage
  <2>3. k \in Creators /\ k # None
    BY <1>0, <2>1, Numbers DEF Root, None
  <2>4. q \in Seq(Frames) /\ Len(q) = 1
    BY <1>0, <2>1, <2>2, <2>3, CallsFacts
  <2>5. i \in Nat /\ i + 1 \in DOMAIN stack' /\ stack'[i + 1] = q[1]
    BY <2>1, <2>2, <2>4
  <2> QED BY <1>1, <2>1, <2>2, <2>3, <2>5
<1>4. ASSUME CleanFragment
      PROVE  /\ queue' = queue /\ c \in Creators
             /\ \E i \in DOMAIN stack' :
                  /\ stack'[i].do = "cleanup" /\ stack'[i].of = c /\ stack'[i].next \in {0, 1}
                  /\ stack'[i].next = 0 => queue[c] = <<>>
  <2>1. PICK n, f, k, q, e : /\ n = Len(stack) /\ f = Called.of /\ k = current[f]
                             /\ q = CallsToCleanUp(k) /\ e = Frame("unlisten", f)
    OBVIOUS
  <2>2. Runs("clean")
    BY <1>4 DEF CleanFragment
  <2>3. At("cleanup") /\ Top.next # 0 /\ f \in Fragments
    BY <2>1, <2>2, CalledFacts DEF Cleans
  <2>4. k \in Creators \cup {None} /\ f \in Nat
    BY <1>0, <2>1, <2>3, Numbers, KindsDiffer DEF Typed
  <2>5. BeginCleanup(k) /\ queue' = queue
    BY <1>4, <2>1 DEF CleanFragment
  <2>6. Len(q) = 1 /\ q \in Seq(Frames)
    <3>1. cleanedUp' = cleanedUp \cup ({k} \ {None})
      BY <1>0, <2>4, <2>5, Begun
    <3>2. k \notin cleanedUp \cup {None}
      BY <2>4, <3>1
    <3> QED BY <1>0, <2>1, <2>4, <3>2, CallsFacts
  <2>7. e \in Frames
    BY <2>1, <2>4, FrameFacts DEF FrameKinds
  <2>8. PICK s, calls : s = <<e>> /\ calls = s \o q
    OBVIOUS
  <2>9. calls \in Seq(Frames) /\ Len(calls) = 2 /\ calls[2] = q[1]
    <3>1. s \in Seq(Frames) /\ Len(s) = 1
      BY <2>7, <2>8
    <3>2. /\ s \o q \in Seq(Frames) /\ Len(s \o q) = Len(s) + Len(q)
          /\ \A i \in 1..(Len(s) + Len(q)) :
               (s \o q)[i] = IF i <= Len(s) THEN s[i] ELSE q[i - Len(s)]
      BY <2>6, <3>1, ConcatProperties, Zenon
    <3>3. /\ calls \in Seq(Frames) /\ Len(calls) = Len(s) + Len(q)
          /\ \A i \in 1..(Len(s) + Len(q)) :
               calls[i] = IF i <= Len(s) THEN s[i] ELSE q[i - Len(s)]
      BY <2>8, <3>2, Zenon
    <3> QED BY <2>6, <3>1, <3>3
  <2>10. Continue(calls)
    BY <1>4, <2>1, <2>8 DEF CleanFragment
  <2>11. /\ StackKeeps(n) /\ Len(stack') = n + Len(calls)
         /\ \A i \in 1..Len(calls) : stack'[n + i] = calls[i]
    <3>1. /\ StackKeeps(Len(stack)) /\ Len(stack') = Len(stack) + Len(calls)
          /\ \A i \in 1..Len(calls) : stack'[Len(stack) + i] = calls[i]
      BY <1>0, <2>3, <2>9, <2>10, StackContinues
    <3> QED BY <2>1, <3>1
  <2>12. n \in Nat /\ DOMAIN stack' = 1..Len(stack')
    BY <2>11 DEF StackKeeps
  <2>13. Len(stack') = n + 2 /\ stack'[n + 2] = q[1]
    BY <2>9, <2>11
  <2>14. stack'[(n + 1) + 1] = q[1] /\ (n + 1) + 1 \in DOMAIN stack' /\ n + 1 \in Nat
    BY <2>12, <2>13
  <2>15. PICK i : i = n + 1
    OBVIOUS
  <2> QED BY <1>1, <2>1, <2>4, <2>5, <2>14, <2>15
<1>5. CASE BlockReturns \/ BlockThrows \/ DeleteElement \/ CloseResource \/ Unlisten
           \/ CleanerReturns \/ CleanerThrows \/ CleanupEnds
  <2>1. cleanedUp' = cleanedUp
    BY <1>5 DEF BlockReturns, BlockThrows, DeleteElement, CloseResource, Unlisten,
                CleanerReturns, CleanerThrows, CleanupEnds, cleaningVars
  <2> QED BY <2>1
<1> QED BY <1>2, <1>3, <1>4, <1>5 DEF Others

LEMMA KeptKept ==
  ASSUME IInv, Next
  PROVE  Kept'
<1>0. Typed /\ Shape
  BY DEF IInv
<1>1. SUFFICES ASSUME NEW c \in cleanedUp' \ aborted', NEW x \in promised'[c]
               PROVE  Done(x)' \/ Unlistening(x)' \/ ToBeDone(c, x)'
  BY DEF Kept
<1>2. CASE Makes \/ Rendered
  <2>1. PICK W, y : Registers(W, y)
    BY <1>2, StepsRegister
  <2>2. c \in cleanedUp \ aborted /\ c \in Creators
    BY <1>0, <2>1 DEF Registers, Typed
  <2>3. x \in promised[c]
    BY <2>1, <2>2 DEF Registers
  <2> QED BY <2>2, <2>3, KeptStep
<1>3. CASE Others /\ ~Rendered
  <2>1. PromisesMade
    BY <1>3, StepsCleanUp DEF CleansUp
  <2>2. c \in Creators /\ c \notin aborted
    BY <2>1 DEF PromisesMade
  <2>3. CASE c \in cleanedUp
    <3>1. x \in promised[c]
      BY <2>1, <2>2, <2>3 DEF PromisesMade
    <3> QED BY <2>2, <2>3, <3>1, KeptStep
  <2>4. CASE c \notin cleanedUp
    <3>1. x \in ToSet(queue[c])
      BY <2>1, <2>2, <2>4 DEF PromisesMade
    <3>2. /\ queue' = queue
          /\ \E i \in DOMAIN stack' :
               /\ stack'[i].do = "cleanup" /\ stack'[i].of = c /\ stack'[i].next \in {0, 1}
               /\ stack'[i].next = 0 => queue[c] = <<>>
      BY <1>3, <2>4, CallsToBegin
    <3> QED BY <1>0, <2>2, <2>4, <3>1, <3>2, KeptBeginning
  <2> QED BY <2>3, <2>4
<1> QED BY <1>2, <1>3, StepKinds

(***************************************************************************)
(* The theorems.                                                           *)
(***************************************************************************)
LEMMA InitIInv == Init => IInv
<1> SUFFICES ASSUME Init PROVE IInv
  OBVIOUS
<1>1. PICK o : o = Object("creator", None, None, {})
  OBVIOUS
<1>2. /\ o \in Records /\ o.kind = "creator" /\ o.by = None /\ o.under = {} /\ o.in = None
      /\ o.inside = {}
  BY <1>1 DEF Object, Above, Records, Kinds, None
<1>3. objects = <<o>>
  BY <1>1 DEF Init
<1>4. objects \in Seq(Records) /\ Len(objects) = 1 /\ DOMAIN objects = {1} /\ objects[1] = o
  BY <1>2, <1>3
<1>5. Creators = {1} /\ Elements = {} /\ Fragments = {} /\ Resources = {}
  BY <1>2, <1>4 DEF Creators, Elements, Fragments, Resources, All
<1>6. Shape
  <2>1. MadeBy(1)
    BY <1>2, <1>4 DEF MadeBy, Above, None, Root
  <2>2. LiesIn(1)
    BY <1>2, <1>4 DEF LiesIn
  <2>3. Belongs(1)
    BY <1>5 DEF Belongs, Root
  <2> QED BY <1>1, <1>4, <2>1, <2>2, <2>3 DEF Shape, Root
<1>7. /\ queue = [c \in {1} |-> <<>>] /\ promised = [c \in {1} |-> {}] /\ cleanedUp = {}
      /\ DOMAIN current = {} /\ listening = {} /\ page = {} /\ aborted = {} /\ stack = <<>>
  BY DEF Init, Root
<1>8. Typed
  <2>1. queue[1] \in Seq(Registrable) /\ ToSet(queue[1]) = {} /\ promised[1] = {}
    BY <1>7 DEF ToSet
  <2> QED BY <1>5, <1>7, <2>1 DEF Typed
<1>9. Stacked
  BY <1>7 DEF Stacked
<1> QED BY <1>5, <1>6, <1>7, <1>8, <1>9 DEF IInv, Kept, AllRegistered, OneRound, Tree

LEMMA NextIInv ==
  ASSUME ~CleanersRedraw, IInv, [Next]_vars
  PROVE  IInv'
<1>1. CASE Next
  BY <1>1, ShapeKept, TypedKept, StackedKept, KeptKept, AllRegisteredKept, OneRoundKept,
     TreeKept DEF IInv
<1>2. CASE UNCHANGED vars
  <2>1. /\ UNCHANGED <<objects, queue, cleanedUp, promised, current, listening>>
        /\ UNCHANGED <<page, released, aborted, late, stack>>
    BY <1>2 DEF vars, cleaningVars, drawingVars, historyVars
  <2>2. /\ Creators' = Creators /\ Elements' = Elements
        /\ Fragments' = Fragments /\ Resources' = Resources
    BY <2>1 DEF Creators, Elements, Fragments, Resources, All
  <2>3. Shape'
    BY <2>1, NothingMade DEF IInv
  <2>4. Typed'
    BY <2>1, <2>2 DEF IInv, Typed, Cleans
  <2>5. Stacked'
    BY <2>1, <2>2 DEF IInv, Stacked, Sits, Fits, Is
  <2>6. Kept'
    BY <2>1 DEF IInv, Kept, Done, Unlistening, ToBeDone
  <2>7. AllRegistered'
    BY <2>1, <2>2 DEF IInv, AllRegistered, Registered, BeingRendered
  <2>8. OneRound' /\ Tree'
    BY <2>1, <2>2 DEF IInv, OneRound, Tree
  <2> QED BY <2>3, <2>4, <2>5, <2>6, <2>7, <2>8 DEF IInv
<1> QED BY <1>1, <1>2

LEMMA Invariance ==
  ASSUME ~CleanersRedraw
  PROVE  Spec => []IInv
<1>1. IInv /\ [Next]_vars => IInv'
  BY NextIInv
<1> QED BY <1>1, InitIInv, PTL DEF Spec

(***************************************************************************)
(* Types, and what there is room for.                                      *)
(***************************************************************************)
\* The calls of render that have not registered their cleaner yet.
FirstCalls == {i \in DOMAIN stack : stack[i].do = "first"}

\* A thing lies in what was made.
Lying == \A n \in DOMAIN objects : objects[n].in \in DOMAIN objects \cup {None}

\* Every cleaner of a queue, and every one that a call is to register, is for an
\* object of its own that is not the body's creator: a fragment, for which there
\* are two, is made together with a creator.
Counted ==
  /\ Len(objects) <= MaxMade
  /\ \A c \in Creators : Len(queue[c]) + Cardinality(FirstCalls) + 1 <= Len(objects)

\* The cleaners of the application that run were registered for a resource, and
\* only a cleanup has a next one.
MayBe(call) ==
  /\ call.do = "user" => call.of \in Resources
  /\ call.do # "cleanup" => call.next = 0
Users == \A i \in DOMAIN stack : MayBe(stack[i])

Bounds ==
  /\ Lying /\ Counted /\ Users /\ released \subseteq Resources /\ late \in BOOLEAN
  /\ stuck \subseteq Fragments

\* The calls of a cleanup are cleanups.
LEMMA CallsAreCleanups ==
  ASSUME Typed, Shape, NEW k \in Creators \cup {None}
  PROVE  /\ CallsToCleanUp(k) \in Seq(Frames)
         /\ Len(CallsToCleanUp(k)) \in Nat
         /\ \A j \in 1..Len(CallsToCleanUp(k)) : CallsToCleanUp(k)[j].do = "cleanup"
<1>1. CASE k \in cleanedUp \cup {None}
  BY <1>1, CallsFacts
<1>2. CASE k \notin cleanedUp \cup {None}
  <2>1. /\ CallsToCleanUp(k) \in Seq(Frames) /\ Len(CallsToCleanUp(k)) = 1
        /\ CallsToCleanUp(k)[1].do = "cleanup"
    BY <1>2, CallsFacts
  <2>2. \A j \in 1..Len(CallsToCleanUp(k)) : j = 1
    BY <2>1
  <2> QED BY <2>1, <2>2
<1> QED BY <1>1, <1>2

\* A call that stays, and one that is made.
Stayed(i) == Remains(i) /\ (stack[i].do # "cleanup" => stack'[i] = stack[i])
Another(call) == call.do # "first" /\ MayBe(call)

\* A call was there before, or it is a first round, which comes with two objects,
\* or it is another, among them a cleaner of the application for a resource.
LEMMA CallsMade ==
  ASSUME IInv, Next, NEW i \in DOMAIN stack'
  PROVE  \/ Stayed(i)
         \/ /\ i = Len(stack) + 1 /\ Len(objects') = Len(objects) + 2
            /\ stack'[i].do = "first" /\ MayBe(stack'[i])
         \/ Another(stack'[i])
<1> DEFINE Goal ==
      \/ Stayed(i)
      \/ /\ i = Len(stack) + 1 /\ Len(objects') = Len(objects) + 2
         /\ stack'[i].do = "first" /\ MayBe(stack'[i])
      \/ Another(stack'[i])
<1> SUFFICES Goal
  OBVIOUS
<1>0. Stacked /\ Typed /\ Shape
  BY DEF IInv
<1> DEFINE Untouched(k) == k < Len(stack) \/ Same(k) \/ stack[Len(stack)].do = "cleanup"
<1>1. ASSUME NEW k \in Nat, StackKeeps(k), Untouched(k), i <= k PROVE Goal
  <2>1. i \in 1..k /\ k <= Len(stack) /\ Len(stack) \in Nat
    BY <1>1 DEF StackKeeps
  <2>2. Remains(i) /\ (i < Len(stack) => stack'[i] = stack[i])
    BY <1>1, <2>1 DEF StackKeeps
  <2>3. i = Len(stack) => k = Len(stack)
    BY <2>1
  <2>4. stack[i].do # "cleanup" => stack'[i] = stack[i]
    BY <1>1, <2>1, <2>2, <2>3 DEF Same
  <2> QED BY <2>2, <2>4 DEF Stayed
<1>2. ASSUME NEW k \in Nat, StackKeeps(k), Untouched(k), Len(stack') = k PROVE Goal
  <2>1. i <= k
    BY <1>2 DEF StackKeeps
  <2> QED BY <1>1, <1>2, <2>1
<1>3. ASSUME stack # <<>>, stack' = Front(stack) PROVE Goal
  <2>1. StackKeeps(Len(stack) - 1) /\ Len(stack') = Len(stack) - 1 /\ Len(stack) - 1 \in Nat
    BY <1>0, <1>3, StackPops, Zenon DEF StackKeeps
  <2>2. Len(stack) \in Nat
    BY <2>1 DEF StackKeeps
  <2>3. Len(stack) - 1 < Len(stack)
    BY <2>2
  <2> QED BY <1>2, <2>1, <2>3
<1>4. ASSUME NEW n \in Nat, NEW calls, StackKeeps(Len(stack)), Untouched(Len(stack)),
             Len(stack') = Len(stack) + n,
             \A j \in 1..n : stack'[Len(stack) + j] = calls[j],
             \A j \in 1..n : Another(calls[j])
      PROVE  Goal
  <2>1. Len(stack) \in Nat /\ i \in 1..(Len(stack) + n)
    BY <1>4 DEF StackKeeps
  <2>2. CASE i <= Len(stack)
    BY <1>1, <1>4, <2>1, <2>2
  <2>3. CASE ~(i <= Len(stack))
    <3>1. PICK j : j = i - Len(stack)
      OBVIOUS
    <3>2. j \in 1..n /\ i = Len(stack) + j
      BY <2>1, <2>3, <3>1
    <3>3. stack'[i] = calls[j]
      BY <1>4, <3>2
    <3> QED BY <1>4, <3>2, <3>3
  <2> QED BY <2>2, <2>3
<1>5. CASE (\E c \in Creators : MakeResource(c) \/ MakeElement(c)) \/ \E e \in Elements : New(e)
  <2>1. stack' = stack
    BY <1>5 DEF MakeResource, MakeElement, New
  <2>2. StackKeeps(Len(stack)) /\ Len(stack') = Len(stack) /\ Len(stack) \in Nat /\ Same(Len(stack))
    BY <1>0, <2>1, StackStays DEF StackKeeps
  <2> QED BY <1>2, <2>2
<1>6. CASE \E c \in Creators : Render(c)
  <2>1. PICK c \in Creators : Render(c)
    BY <1>6
  <2>2. /\ StackKeeps(Len(stack)) /\ Len(stack') = Len(stack) + 1
        /\ stack'[Len(stack) + 1] = Frame("first", Made) /\ Same(Len(stack))
    BY <2>1, StackRenders
  <2>3. Len(objects') = Made + 1 /\ Made = Len(objects) + 1 /\ Len(objects) \in Nat
    BY <1>0, <2>1, FragmentMade, Numbers DEF Made
  <2>4. Len(stack) \in Nat /\ i \in 1..(Len(stack) + 1)
    BY <2>2 DEF StackKeeps
  <2>5. Frame("first", Made).do = "first" /\ MayBe(Frame("first", Made))
    BY DEF Frame, MayBe
  <2>6. CASE i <= Len(stack)
    BY <1>1, <2>2, <2>4, <2>6
  <2>7. CASE i = Len(stack) + 1
    BY <2>2, <2>3, <2>5, <2>7
  <2> QED BY <2>4, <2>6, <2>7
<1>7. CASE \E f \in Fragments : Redraw(f)
  <2>1. PICK f \in Fragments : Redraw(f)
    BY <1>7
  <2>2. PICK calls : calls = CallsToCleanUp(current[f])
    OBVIOUS
  <2>3. /\ StackKeeps(Len(stack)) /\ Len(calls) \in Nat
        /\ Len(stack') = Len(stack) + 1 + Len(calls)
        /\ stack'[Len(stack) + 1] = Frame("redraw", f) /\ Same(Len(stack))
        /\ \A j \in 1..Len(calls) : stack'[Len(stack) + 1 + j] = calls[j]
    BY <2>1, <2>2, StackRedraws
  <2>4. \A j \in 1..Len(calls) : calls[j].do = "cleanup"
    <3>1. current[f] \in Creators \cup {None}
      BY <1>0 DEF Typed
    <3> QED BY <1>0, <2>2, <3>1, CallsAreCleanups
  <2>5. Another(Frame("redraw", f))
    BY DEF Frame, Another, MayBe
  <2>6. Len(stack) \in Nat /\ i \in 1..(Len(stack) + 1 + Len(calls))
    BY <2>3 DEF StackKeeps
  <2>7. CASE i <= Len(stack)
    BY <1>1, <2>3, <2>6, <2>7
  <2>8. CASE i = Len(stack) + 1
    BY <2>3, <2>5, <2>8
  <2>9. CASE i > Len(stack) + 1
    <3>1. PICK n, m : n = Len(stack) /\ m = Len(calls)
      OBVIOUS
    <3>2. n \in Nat /\ m \in Nat /\ i \in 1..(n + 1 + m) /\ i > n + 1
      BY <2>3, <2>6, <2>9, <3>1
    <3>3. i - (n + 1) \in 1..m /\ i = n + 1 + (i - (n + 1))
      BY <3>2
    <3>4. PICK j : j \in 1..Len(calls) /\ i = Len(stack) + 1 + j
      BY <3>1, <3>3
    <3>5. stack'[i].do = "cleanup"
      BY <2>3, <2>4, <3>4
    <3> QED BY <3>5 DEF Another, MayBe
  <2> QED BY <2>6, <2>7, <2>8, <2>9
<1>8. CASE DrawAgain
  <2>1. /\ StackKeeps(Len(stack) - 1) /\ Len(stack') = Len(stack) /\ Len(stack) >= 1
        /\ stack'[Len(stack)] = Frame("block", Top.of)
    BY <1>8, StackDrawsAgain
  <2>2. Len(stack) \in Nat /\ i \in 1..Len(stack) /\ Len(stack) - 1 \in Nat
    BY <2>1 DEF StackKeeps
  <2>3. Another(Frame("block", Top.of)) /\ Len(stack) - 1 < Len(stack)
    BY <2>2 DEF Frame, Another, MayBe
  <2>4. CASE i <= Len(stack) - 1
    BY <1>1, <2>1, <2>2, <2>4
  <2>5. CASE i = Len(stack)
    BY <2>1, <2>3, <2>5
  <2> QED BY <2>2, <2>4, <2>5
<1>9. CASE ClosePage
  <2>1. Root \in Creators \cup {None}
    BY <1>0, Numbers
  <2>2. PICK calls : calls = CallsToCleanUp(Root)
    OBVIOUS
  <2>3. /\ calls \in Seq(Frames) /\ Len(calls) \in Nat
        /\ \A j \in 1..Len(calls) : calls[j].do = "cleanup"
    BY <1>0, <2>1, <2>2, CallsAreCleanups
  <2>4. stack' = stack \o calls
    BY <1>9, <2>2, <2>3 DEF ClosePage
  <2>5. /\ StackKeeps(Len(stack)) /\ Len(stack') = Len(stack) + Len(calls)
        /\ Same(Len(stack)) /\ \A j \in 1..Len(calls) : stack'[Len(stack) + j] = calls[j]
    BY <1>0, <2>3, <2>4, StackGrows
  <2>6. \A j \in 1..Len(calls) : Another(calls[j])
    BY <2>3 DEF Another, MayBe
  <2> QED BY <1>4, <2>3, <2>5, <2>6
<1>10. CASE Rendered \/ BlockReturns \/ BlockThrows \/ CleanerReturns \/ Unlisten \/ CleanupEnds
  BY <1>3, <1>10 DEF Rendered, BlockReturns, BlockThrows, CleanerReturns, Unlisten, CleanupEnds, At
<1>11. CASE CleanerThrows
  <2>1. StackKeeps(Len(stack) - 2) /\ Len(stack') = Len(stack) - 2 /\ Len(stack) - 2 \in Nat
    BY <1>11, StackThrows, Zenon DEF StackKeeps
  <2>2. Len(stack) \in Nat
    BY <2>1 DEF StackKeeps
  <2>3. Len(stack) - 2 < Len(stack)
    BY <2>2
  <2> QED BY <1>2, <2>1, <2>3
<1>12. ASSUME NEW do, Runs(do), NEW calls \in Seq(Frames), Continue(calls),
              \A j \in 1..Len(calls) : Another(calls[j])
       PROVE  Goal
  <2>1. At("cleanup") /\ Top.next # 0
    BY <1>12, CalledFacts
  <2>2. /\ StackKeeps(Len(stack)) /\ Len(stack') = Len(stack) + Len(calls)
        /\ Len(calls) \in Nat /\ stack[Len(stack)].do = "cleanup"
        /\ \A j \in 1..Len(calls) : stack'[Len(stack) + j] = calls[j]
    BY <1>0, <1>12, <2>1, StackContinues
  <2> QED BY <1>4, <1>12, <2>2
<1>13. CASE DeleteElement
  <2>1. PICK calls : calls = <<>>
    OBVIOUS
  <2>2. calls \in Seq(Frames) /\ Len(calls) = 0 /\ 1..Len(calls) = {}
    BY <2>1
  <2>3. Runs("delete") /\ Continue(calls)
    BY <1>13, <2>1 DEF DeleteElement
  <2> QED BY <1>12, <2>2, <2>3
<1>14. CASE CloseResource
  <2>1. PICK e : e = Frame("user", Called.of)
    OBVIOUS
  <2>2. Runs("close") /\ Continue(<<e>>)
    BY <1>14, <2>1 DEF CloseResource
  <2>3. Called.of \in Resources
    BY <2>2, CalledFacts DEF Cleans
  <2>4. e \in Frames /\ Another(e)
    <3>1. Called.of \in Nat
      BY <1>0, <2>3, Numbers, KindsDiffer
    <3>2. e \in Frames /\ e.do = "user" /\ e.of \in Resources /\ e.next = 0
      BY <2>1, <2>3, <3>1, FrameFacts DEF FrameKinds
    <3> QED BY <3>2 DEF Another, MayBe
  <2>5. <<e>> \in Seq(Frames) /\ \A j \in 1..Len(<<e>>) : <<e>>[j] = e
    BY <2>4
  <2> QED BY <1>12, <2>2, <2>4, <2>5
<1>15. CASE CleanFragment
  <2>1. PICK e, more : e = Frame("unlisten", Called.of) /\ more = CallsToCleanUp(current[Called.of])
    OBVIOUS
  <2>2. PICK calls : calls = <<e>> \o more
    OBVIOUS
  <2>3. Runs("clean") /\ Continue(calls)
    BY <1>15, <2>1, <2>2 DEF CleanFragment
  <2>4. Called.of \in Fragments /\ Called.of \in Nat /\ current[Called.of] \in Creators \cup {None}
    <3>1. Called.of \in Fragments
      BY <2>3, CalledFacts DEF Cleans
    <3> QED BY <1>0, <3>1, Numbers, KindsDiffer DEF Typed
  <2>5. e \in Frames /\ e.do = "unlisten" /\ e.next = 0
    BY <2>1, <2>4, FrameFacts DEF FrameKinds
  <2>6. /\ more \in Seq(Frames) /\ Len(more) \in Nat
        /\ \A j \in 1..Len(more) : more[j].do = "cleanup"
    BY <1>0, <2>1, <2>4, CallsAreCleanups
  <2>7. /\ calls \in Seq(Frames)
        /\ \A j \in 1..Len(calls) : Another(calls[j])
    <3>1. <<e>> \in Seq(Frames) /\ Len(<<e>>) = 1 /\ <<e>>[1] = e
      BY <2>5
    <3>2. /\ calls \in Seq(Frames) /\ Len(calls) = 1 + Len(more)
          /\ \A j \in 1..(1 + Len(more)) :
               calls[j] = IF j <= 1 THEN <<e>>[j] ELSE more[j - 1]
      BY <2>2, <2>6, <3>1, ConcatProperties, Zenon
    <3>3. ASSUME NEW j \in 1..Len(calls) PROVE Another(calls[j])
      <4>1. CASE j = 1
        <5>1. calls[j] = e
          BY <2>5, <3>1, <3>2, <4>1
        <5> QED BY <2>5, <5>1 DEF Another, MayBe
      <4>2. CASE j # 1
        <5>1. j - 1 \in 1..Len(more) /\ calls[j] = more[j - 1]
          BY <2>6, <3>2, <4>2
        <5> QED BY <2>6, <5>1 DEF Another, MayBe
      <4> QED BY <4>1, <4>2
    <3> QED BY <3>2, <3>3
  <2> QED BY <1>12, <2>3, <2>7
<1> QED BY <1>5, <1>6, <1>7, <1>8, <1>9, <1>10, <1>11, <1>13, <1>14, <1>15, StepKinds
        DEF Makes, Others

\* How many first rounds are being drawn after a step.
LEMMA FirstCallsAre ==
  ASSUME IInv, Next
  PROVE  /\ Cardinality(FirstCalls) \in Nat /\ Cardinality(FirstCalls') \in Nat
         /\ Cardinality(FirstCalls') <= Cardinality(FirstCalls) + 1
         /\ Len(objects') # Len(objects) + 2 => Cardinality(FirstCalls') <= Cardinality(FirstCalls)
         /\ Rendered => Cardinality(FirstCalls') + 1 <= Cardinality(FirstCalls)
<1>0. Stacked
  BY DEF IInv
<1>1. DOMAIN stack = 1..Len(stack) /\ Len(stack) \in Nat
  BY <1>0 DEF Stacked
<1>2. IsFiniteSet(FirstCalls) /\ Cardinality(FirstCalls) \in Nat
  <2>1. IsFiniteSet(1..Len(stack))
    BY <1>1, FS_Interval
  <2>2. FirstCalls \in SUBSET (1..Len(stack))
    BY <1>1 DEF FirstCalls
  <2> QED BY <2>1, <2>2, FS_Subset, FS_CardinalityType
<1>3. FirstCalls' \subseteq FirstCalls \cup {Len(stack) + 1}
  BY CallsMade DEF FirstCalls, Stayed, Remains, Another
<1>4. Len(objects') # Len(objects) + 2 => FirstCalls' \subseteq FirstCalls
  BY CallsMade DEF FirstCalls, Stayed, Remains, Another
<1>5. /\ IsFiniteSet(FirstCalls \cup {Len(stack) + 1})
      /\ Cardinality(FirstCalls \cup {Len(stack) + 1}) <= Cardinality(FirstCalls) + 1
  <2>1. PICK x : x = Len(stack) + 1
    OBVIOUS
  <2>2. /\ IsFiniteSet(FirstCalls \cup {x})
        /\ Cardinality(FirstCalls \cup {x}) \in {Cardinality(FirstCalls), Cardinality(FirstCalls) + 1}
    BY <1>2, FS_AddElement, Zenon
  <2>3. Cardinality(FirstCalls \cup {x}) <= Cardinality(FirstCalls) + 1
    BY <1>2, <2>2
  <2> QED BY <2>1, <2>2, <2>3
<1>6. /\ Cardinality(FirstCalls') \in Nat
      /\ Cardinality(FirstCalls') <= Cardinality(FirstCalls) + 1
  <2>1. /\ IsFiniteSet(FirstCalls')
        /\ Cardinality(FirstCalls') <= Cardinality(FirstCalls \cup {Len(stack) + 1})
    BY <1>3, <1>5, FS_Subset
  <2>2. /\ Cardinality(FirstCalls') \in Nat
        /\ Cardinality(FirstCalls \cup {Len(stack) + 1}) \in Nat
    BY <1>5, <2>1, FS_CardinalityType
  <2> QED BY <1>2, <1>5, <2>1, <2>2
<1>7. FirstCalls' \subseteq FirstCalls => Cardinality(FirstCalls') <= Cardinality(FirstCalls)
  BY <1>2, FS_Subset
<1>8. ASSUME Rendered
      PROVE  Cardinality(FirstCalls') + 1 <= Cardinality(FirstCalls)
  <2>1. stack # <<>> /\ Top.do = "first" /\ stack' = Front(stack)
    BY <1>8, RenderedRegisters
  <2>2. /\ DOMAIN stack' = 1..(Len(stack) - 1)
        /\ \A i \in DOMAIN stack' : i \in DOMAIN stack /\ stack'[i] = stack[i]
    BY <1>0, <2>1, Returned
  <2>3. Len(stack) \in FirstCalls
    BY <1>0, <2>1, TopOf DEF FirstCalls
  <2>4. FirstCalls' \subseteq FirstCalls \ {Len(stack)}
    BY <1>1, <2>2 DEF FirstCalls
  <2>5. /\ IsFiniteSet(FirstCalls \ {Len(stack)})
        /\ Cardinality(FirstCalls \ {Len(stack)}) = Cardinality(FirstCalls) - 1
    BY <1>2, <2>3, FS_RemoveElement
  <2>6. Cardinality(FirstCalls') <= Cardinality(FirstCalls \ {Len(stack)})
    BY <2>4, <2>5, FS_Subset
  <2> QED BY <1>2, <1>6, <2>5, <2>6
<1> QED BY <1>2, <1>4, <1>6, <1>7, <1>8

(***************************************************************************)
(* Every step leaves room.                                                 *)
(***************************************************************************)
\* Two sums that the next lemmas come down to.
LEMMA Difference ==
  ASSUME NEW x \in Nat, NEW y \in Nat, NEW k \in Nat, NEW l \in Nat, NEW m \in Nat,
         NEW n \in Nat, x + k + 1 <= m, y + l + m <= x + k + n
  PROVE  y + l + 1 <= n
OBVIOUS

LEMMA Sums ==
  ASSUME NEW x \in Nat, NEW y \in Nat, NEW k \in Nat, NEW l \in Nat, NEW m \in Nat,
         NEW n \in Nat,
         \/ y <= x /\ l <= k /\ m <= n
         \/ y <= x + 1 /\ l <= k /\ n = m + 1
         \/ y <= x + 1 /\ l <= k + 1 /\ n = m + 2
         \/ y <= x + 1 /\ l + 1 <= k /\ n = m
  PROVE  y + l + m <= x + k + n
OBVIOUS

\* There is room after a step that makes no fewer objects than it has cleaners
\* registered, or calls that are to register one.
LEMMA CountedThen ==
  ASSUME IInv, Counted, Typed', Shape', Len(objects') <= MaxMade,
         Cardinality(FirstCalls) \in Nat, Cardinality(FirstCalls') \in Nat,
         Cardinality(FirstCalls') + Len(objects) <= Cardinality(FirstCalls) + Len(objects'),
         \A a \in Creators :
           Len(queue'[a]) + Cardinality(FirstCalls') + Len(objects)
             <= Len(queue[a]) + Cardinality(FirstCalls) + Len(objects'),
         \A a \in Creators' \ Creators : queue'[a] = <<>>
  PROVE  Counted'
<1>1. Len(objects) \in Nat /\ Len(objects') \in Nat /\ Root \in Creators
  BY Numbers DEF IInv, Shape
<1>2. \A a \in Creators : queue[a] \in Seq(Registrable)
  BY DEF IInv, Typed
<1>3. \A a \in Creators' : queue'[a] \in Seq(Registrable)
  BY DEF Typed
<1>4. \A a \in Creators : Len(queue[a]) + Cardinality(FirstCalls) + 1 <= Len(objects)
  BY DEF Counted
<1>5. \A a \in Creators : Len(queue[a]) \in Nat
  BY <1>2
<1>6. \A a \in Creators' : Len(queue'[a]) \in Nat
  BY <1>3
<1>7. Cardinality(FirstCalls') + 1 <= Len(objects')
  <2>1. Len(queue[Root]) \in Nat /\ Len(queue[Root]) + Cardinality(FirstCalls) + 1 <= Len(objects)
    BY <1>1, <1>4, <1>5
  <2> QED BY <1>1, <2>1
<1>8. ASSUME NEW a \in Creators'
      PROVE  Len(queue'[a]) + Cardinality(FirstCalls') + 1 <= Len(objects')
  <2>1. CASE a \in Creators
    <3>1. /\ Len(queue[a]) + Cardinality(FirstCalls) + 1 <= Len(objects)
          /\ Len(queue'[a]) + Cardinality(FirstCalls') + Len(objects)
               <= Len(queue[a]) + Cardinality(FirstCalls) + Len(objects')
          /\ Len(queue[a]) \in Nat /\ Len(queue'[a]) \in Nat
      BY <1>4, <1>5, <1>6, <2>1
    <3> QED BY <1>1, <3>1, Difference, Zenon
  <2>2. CASE a \notin Creators
    <3>1. Len(queue'[a]) = 0
      BY <2>2
    <3> QED BY <1>1, <1>7, <3>1
  <2> QED BY <2>1, <2>2
<1> QED BY <1>8 DEF Counted

\* onCleanup makes a queue longer by one at most.
LEMMA OneMore ==
  ASSUME Typed, Creators' = Creators, NEW c, NEW withParent, NEW cleaner \in Registrable,
         OnCleanup(c, withParent, cleaner)
  PROVE  \A a \in Creators : Len(queue[a]) \in Nat /\ Len(queue'[a]) <= Len(queue[a]) + 1
                                                   /\ Len(queue'[a]) \in Nat
<1>1. ASSUME NEW a \in Creators
      PROVE  Len(queue[a]) \in Nat /\ Len(queue'[a]) <= Len(queue[a]) + 1 /\ Len(queue'[a]) \in Nat
  <2>1. queue[a] \in Seq(Registrable)
    BY DEF Typed
  <2>2. Len(queue[a]) \in Nat /\ Len(Append(queue[a], cleaner)) = Len(queue[a]) + 1
    BY <2>1
  <2>3. queue'[a] = queue[a] \/ queue'[a] = Append(queue[a], cleaner)
    BY DEF OnCleanup, Creators
  <2> QED BY <2>2, <2>3
<1> QED BY <1>1

LEMMA CountedKept ==
  ASSUME IInv, Counted, Next
  PROVE  Counted'
<1>0. /\ Shape /\ Typed /\ Shape' /\ Typed' /\ MaxMade \in Nat
      /\ Len(objects) \in Nat /\ Made = Len(objects) + 1 /\ Made \in Nat
      /\ Len(objects) <= MaxMade
  BY ShapeKept, TypedKept, Numbers, CleanersAssumption DEF IInv, Made, Counted
<1>1. PICK k, l : k = Cardinality(FirstCalls) /\ l = Cardinality(FirstCalls')
  OBVIOUS
<1>2. /\ k \in Nat /\ l \in Nat /\ l <= k + 1
      /\ Len(objects') # Len(objects) + 2 => l <= k
      /\ Rendered => l + 1 <= k
  BY <1>1, FirstCallsAre
<1>3. ASSUME Len(objects') <= MaxMade, l + Len(objects) <= k + Len(objects'),
             \A a \in Creators :
               Len(queue'[a]) + l + Len(objects) <= Len(queue[a]) + k + Len(objects'),
             \A a \in Creators' \ Creators : queue'[a] = <<>>
      PROVE  Counted'
  BY <1>0, <1>1, <1>2, <1>3, CountedThen
<1>4. ASSUME NEW c \in Creators, MakeResource(c) \/ MakeElement(c)
      PROVE  Counted'
  <2>1. Len(objects') = Len(objects) + 1
    <3>1. PICK o : objects' = Append(objects, o)
      BY <1>4 DEF MakeResource, MakeElement
    <3> QED BY <1>0, <3>1 DEF Shape
  <2>2. Len(objects') <= MaxMade
    BY <1>4, <2>1 DEF MakeResource, MakeElement, MayMake
  <2>3. Creators' = Creators
    BY <1>4, ResourceMade, ElementMade
  <2>4. \A a \in Creators : /\ Len(queue[a]) \in Nat /\ Len(queue'[a]) <= Len(queue[a]) + 1
                            /\ Len(queue'[a]) \in Nat
    <3>1. Cleaner("close", Made) \in Registrable /\ Cleaner("delete", Made) \in Registrable
      BY <1>0 DEF Cleaner, Registrable, Deeds
    <3>2. OnCleanup(c, TRUE, Cleaner("close", Made)) \/ OnCleanup(c, FALSE, Cleaner("delete", Made))
      BY <1>4 DEF MakeResource, MakeElement
    <3> QED BY <1>0, <2>3, <3>1, <3>2, OneMore
  <2>5. l <= k
    BY <1>0, <1>2, <2>1
  <2>6. ASSUME NEW a \in Creators
        PROVE  Len(queue'[a]) + l + Len(objects) <= Len(queue[a]) + k + Len(objects')
    <3>1. PICK x, y, m, n : /\ x = Len(queue[a]) /\ y = Len(queue'[a])
                            /\ m = Len(objects) /\ n = Len(objects')
      OBVIOUS
    <3>2. x \in Nat /\ y \in Nat /\ m \in Nat /\ n \in Nat
      BY <1>0, <3>1, <2>1, <2>4, <2>5
    <3>3. \/ y <= x /\ l <= k /\ m <= n
          \/ y <= x + 1 /\ l <= k /\ n = m + 1
          \/ y <= x + 1 /\ l <= k + 1 /\ n = m + 2
          \/ y <= x + 1 /\ l + 1 <= k /\ n = m
      BY <1>0, <1>2, <3>1, <3>2, <2>1, <2>4, <2>5
    <3>4. y + l + m <= x + k + n
      BY <1>2, <3>2, <3>3, Sums
    <3> QED BY <3>1, <3>4
  <2>7. l + Len(objects) <= k + Len(objects')
    BY <1>0, <1>2, <2>1, <2>5
  <2> QED BY <1>3, <2>2, <2>3, <2>6, <2>7
<1>5. ASSUME NEW e \in Elements \cup Fragments, Made <= MaxMade,
             objects' = Append(objects, Object("creator", objects[e].by, e, Around(e))),
             queue' = Extended(queue, Len(objects'), <<>>)
      PROVE  Counted'
  <2>1. Len(objects') = Made /\ Creators' = Creators \cup {Made} /\ Made \notin DOMAIN objects
    BY <1>5, CreatorMade
  <2>2. \A a \in Creators : queue'[a] = queue[a] /\ Len(queue[a]) \in Nat
    <3>1. DOMAIN queue = Creators /\ \A a \in Creators : queue[a] \in Seq(Registrable)
      BY <1>0 DEF Typed
    <3>2. \A a \in Creators : a # Made
      BY <2>1, KindsDiffer
    <3> QED BY <1>5, <2>1, <3>1, <3>2 DEF Extended
  <2>3. \A a \in Creators' \ Creators : queue'[a] = <<>>
    BY <1>5, <2>1 DEF Extended
  <2>4. l <= k
    BY <1>0, <1>2, <2>1
  <2>5. ASSUME NEW a \in Creators
        PROVE  Len(queue'[a]) + l + Len(objects) <= Len(queue[a]) + k + Len(objects')
    <3>1. PICK x, y, m, n : /\ x = Len(queue[a]) /\ y = Len(queue'[a])
                            /\ m = Len(objects) /\ n = Len(objects')
      OBVIOUS
    <3>2. x \in Nat /\ y \in Nat /\ m \in Nat /\ n \in Nat
      BY <1>0, <3>1, <2>1, <2>2, <2>4
    <3>3. \/ y <= x /\ l <= k /\ m <= n
          \/ y <= x + 1 /\ l <= k /\ n = m + 1
          \/ y <= x + 1 /\ l <= k + 1 /\ n = m + 2
          \/ y <= x + 1 /\ l + 1 <= k /\ n = m
      BY <1>0, <1>2, <3>1, <3>2, <2>1, <2>2, <2>4
    <3>4. y + l + m <= x + k + n
      BY <1>2, <3>2, <3>3, Sums
    <3> QED BY <3>1, <3>4
  <2>6. l + Len(objects) <= k + Len(objects')
    BY <1>0, <1>2, <2>1, <2>4
  <2> QED BY <1>3, <1>5, <2>1, <2>3, <2>5, <2>6
<1>6. ASSUME NEW c \in Creators, Render(c)
      PROVE  Counted'
  <2>1. /\ Len(objects') = Made + 1 /\ Creators' = Creators \cup {Made + 1}
        /\ Made + 1 \notin DOMAIN objects
    BY <1>6, FragmentMade
  <2>2. Len(objects) + 2 <= MaxMade
    BY <1>6 DEF Render, MayMake
  <2>3. PICK deletion : deletion = Cleaner("delete", Made)
    OBVIOUS
  <2>4. deletion \in Registrable
    BY <1>0, <2>3 DEF Cleaner, Registrable, Deeds
  <2>5. queue' = Extended([queue EXCEPT ![c] = Append(@, deletion)], Made + 1, <<>>)
    <3>1. PICK all, q :
            /\ all = objects \o <<Object("fragment", c, Place(c), Around(Place(c))),
                                  Object("creator", c, Made, {Made} \cup Around(Place(c)))>>
            /\ q = [queue EXCEPT ![c] = Append(@, deletion)]
      OBVIOUS
    <3>2. Created(all, q)
      BY <1>6, <2>3, <3>1 DEF Render
    <3> QED BY <2>1, <3>1, <3>2 DEF Created
  <2>6. \A a \in Creators : /\ Len(queue[a]) \in Nat /\ Len(queue'[a]) <= Len(queue[a]) + 1
                            /\ Len(queue'[a]) \in Nat
    <3>1. ASSUME NEW a \in Creators
          PROVE  /\ Len(queue[a]) \in Nat /\ Len(queue'[a]) <= Len(queue[a]) + 1
                 /\ Len(queue'[a]) \in Nat
      <4>1. DOMAIN queue = Creators /\ queue[a] \in Seq(Registrable)
        BY <1>0 DEF Typed
      <4>2. Len(queue[a]) \in Nat /\ Len(Append(queue[a], deletion)) = Len(queue[a]) + 1
        BY <4>1
      <4>3. a # Made + 1
        BY <2>1, KindsDiffer
      <4>4. queue'[a] = queue[a] \/ queue'[a] = Append(queue[a], deletion)
        BY <2>5, <4>1, <4>3 DEF Extended
      <4> QED BY <4>2, <4>4
    <3> QED BY <3>1
  <2>7. \A a \in Creators' \ Creators : queue'[a] = <<>>
    BY <2>1, <2>5 DEF Extended
  <2>8. ASSUME NEW a \in Creators
        PROVE  Len(queue'[a]) + l + Len(objects) <= Len(queue[a]) + k + Len(objects')
    <3>1. PICK x, y, m, n : /\ x = Len(queue[a]) /\ y = Len(queue'[a])
                            /\ m = Len(objects) /\ n = Len(objects')
      OBVIOUS
    <3>2. x \in Nat /\ y \in Nat /\ m \in Nat /\ n \in Nat
      BY <1>0, <3>1, <2>1, <2>6
    <3>3. \/ y <= x /\ l <= k /\ m <= n
          \/ y <= x + 1 /\ l <= k /\ n = m + 1
          \/ y <= x + 1 /\ l <= k + 1 /\ n = m + 2
          \/ y <= x + 1 /\ l + 1 <= k /\ n = m
      BY <1>0, <1>2, <3>1, <3>2, <2>1, <2>6
    <3>4. y + l + m <= x + k + n
      BY <1>2, <3>2, <3>3, Sums
    <3> QED BY <3>1, <3>4
  <2>9. l + Len(objects) <= k + Len(objects') /\ Len(objects') <= MaxMade
    BY <1>0, <1>2, <2>1, <2>2
  <2> QED BY <1>3, <2>7, <2>8, <2>9
<1>7. CASE Rendered
  <2>1. /\ Creators' = Creators /\ objects' = objects /\ Top.of \in Nat
    BY <1>7, RenderedRegisters
  <2>2. Cleaner("clean", Top.of) \in Registrable
    BY <2>1 DEF Cleaner, Registrable, Deeds
  <2>3. OnCleanup(objects[Top.of].by, TRUE, Cleaner("clean", Top.of))
    BY <1>7 DEF Rendered
  <2>4. \A a \in Creators : /\ Len(queue[a]) \in Nat /\ Len(queue'[a]) <= Len(queue[a]) + 1
                            /\ Len(queue'[a]) \in Nat
    BY <1>0, <2>1, <2>2, <2>3, OneMore
  <2>5. l + 1 <= k
    BY <1>2, <1>7
  <2>6. ASSUME NEW a \in Creators
        PROVE  Len(queue'[a]) + l + Len(objects) <= Len(queue[a]) + k + Len(objects')
    <3>1. PICK x, y, m, n : /\ x = Len(queue[a]) /\ y = Len(queue'[a])
                            /\ m = Len(objects) /\ n = Len(objects')
      OBVIOUS
    <3>2. x \in Nat /\ y \in Nat /\ m \in Nat /\ n \in Nat
      BY <1>0, <3>1, <2>1, <2>4, <2>5
    <3>3. \/ y <= x /\ l <= k /\ m <= n
          \/ y <= x + 1 /\ l <= k /\ n = m + 1
          \/ y <= x + 1 /\ l <= k + 1 /\ n = m + 2
          \/ y <= x + 1 /\ l + 1 <= k /\ n = m
      BY <1>0, <1>2, <3>1, <3>2, <2>1, <2>4, <2>5
    <3>4. y + l + m <= x + k + n
      BY <1>2, <3>2, <3>3, Sums
    <3> QED BY <3>1, <3>4
  <2>7. l + Len(objects) <= k + Len(objects')
    BY <1>0, <1>2, <2>1, <2>5
  <2> QED BY <1>0, <1>3, <2>1, <2>6, <2>7
<1>8. CASE Others /\ ~Rendered
  <2>1. objects' = objects /\ QueuesEmptied
    BY <1>8, StepsCleanUp DEF CleansUp
  <2>2. Creators' = Creators
    BY <1>0, <2>1, NothingMade
  <2>3. \A a \in Creators : /\ Len(queue[a]) \in Nat /\ Len(queue'[a]) <= Len(queue[a])
                            /\ Len(queue'[a]) \in Nat
    <3>1. ASSUME NEW a \in Creators
          PROVE  /\ Len(queue[a]) \in Nat /\ Len(queue'[a]) <= Len(queue[a])
                 /\ Len(queue'[a]) \in Nat
      <4>1. queue[a] \in Seq(Registrable) /\ (queue'[a] = queue[a] \/ queue'[a] = <<>>)
        BY <1>0, <2>1 DEF Typed, QueuesEmptied, Emptied
      <4> QED BY <4>1
    <3> QED BY <3>1
  <2>4. l <= k
    BY <1>0, <1>2, <2>1
  <2>5. ASSUME NEW a \in Creators
        PROVE  Len(queue'[a]) + l + Len(objects) <= Len(queue[a]) + k + Len(objects')
    <3>1. PICK x, y, m, n : /\ x = Len(queue[a]) /\ y = Len(queue'[a])
                            /\ m = Len(objects) /\ n = Len(objects')
      OBVIOUS
    <3>2. x \in Nat /\ y \in Nat /\ m \in Nat /\ n \in Nat
      BY <1>0, <3>1, <2>1, <2>3, <2>4
    <3>3. \/ y <= x /\ l <= k /\ m <= n
          \/ y <= x + 1 /\ l <= k /\ n = m + 1
          \/ y <= x + 1 /\ l <= k + 1 /\ n = m + 2
          \/ y <= x + 1 /\ l + 1 <= k /\ n = m
      BY <1>0, <1>2, <3>1, <3>2, <2>1, <2>3, <2>4
    <3>4. y + l + m <= x + k + n
      BY <1>2, <3>2, <3>3, Sums
    <3> QED BY <3>1, <3>4
  <2>6. l + Len(objects) <= k + Len(objects')
    BY <1>0, <1>2, <2>1, <2>4
  <2> QED BY <1>0, <1>3, <2>1, <2>2, <2>5, <2>6
<1>9. CASE \E e \in Elements : New(e)
  <2>1. PICK e \in Elements : New(e)
    BY <1>9
  <2>2. Made <= MaxMade
    BY <2>1 DEF New
  <2> QED BY <1>5, <2>1, <2>2, InElement
<1>10. CASE DrawAgain
  <2>1. Made <= MaxMade
    BY <1>10 DEF DrawAgain
  <2> QED BY <1>5, <1>10, <2>1, InFragment
<1> QED BY <1>4, <1>6, <1>7, <1>8, <1>9, <1>10, StepKinds DEF Makes

LEMMA LyingKept ==
  ASSUME IInv, Lying, Next
  PROVE  Lying'
<1>0. Shape /\ Made \in Nat
  BY Numbers DEF IInv
<1>1. ASSUME Stays, NEW N, DOMAIN objects' = DOMAIN objects \cup N,
             \A n \in N : objects'[n].in \in DOMAIN objects' \cup {None}
      PROVE  Lying'
  BY <1>1 DEF Lying, Stays
<1>2. ASSUME NEW c \in Creators, MakeResource(c)
      PROVE  Lying'
  <2>1. /\ Stays /\ DOMAIN objects' = DOMAIN objects \cup {Made}
        /\ objects'[Made] = Object("resource", c, None, {})
    BY <1>2, ResourceMade
  <2>2. objects'[Made].in = None
    BY <2>1 DEF Object
  <2> QED BY <1>1, <2>1, <2>2
<1>3. ASSUME NEW c \in Creators
      PROVE  Place(c) \in DOMAIN objects \cup {None}
  BY <1>0, PlaceFacts, KindsDiffer DEF IInv, Typed
<1>4. ASSUME NEW c \in Creators, MakeElement(c)
      PROVE  Lying'
  <2>1. /\ Stays /\ DOMAIN objects' = DOMAIN objects \cup {Made}
        /\ objects'[Made] = Object("element", c, Place(c), Around(Place(c)))
    BY <1>4, ElementMade
  <2>2. objects'[Made].in \in DOMAIN objects \cup {None}
    BY <1>3, <2>1 DEF Object
  <2> QED BY <1>1, <2>1, <2>2
<1>5. ASSUME NEW c \in Creators, Render(c)
      PROVE  Lying'
  <2>1. /\ Stays /\ DOMAIN objects' = DOMAIN objects \cup {Made, Made + 1}
        /\ objects'[Made] = Object("fragment", c, Place(c), Around(Place(c)))
        /\ objects'[Made + 1] = Object("creator", c, Made, {Made} \cup Around(Place(c)))
    BY <1>5, FragmentMade
  <2>2. objects'[Made].in \in DOMAIN objects \cup {None} /\ objects'[Made + 1].in = Made
    BY <1>3, <2>1 DEF Object
  <2> QED BY <1>1, <2>1, <2>2
<1>6. ASSUME NEW e \in Elements \cup Fragments,
             objects' = Append(objects, Object("creator", objects[e].by, e, Around(e)))
      PROVE  Lying'
  <2>1. /\ Stays /\ DOMAIN objects' = DOMAIN objects \cup {Made}
        /\ objects'[Made] = Object("creator", objects[e].by, e, Around(e))
    BY <1>6, CreatorMade
  <2>2. objects'[Made].in \in DOMAIN objects
    BY <2>1, KindsDiffer DEF Object
  <2> QED BY <1>1, <2>1, <2>2
<1>7. CASE \E e \in Elements : New(e)
  BY <1>6, <1>7, InElement
<1>8. CASE DrawAgain
  BY <1>6, <1>8, InFragment
<1>9. CASE Others
  BY <1>9, OthersMakeNothing DEF Lying
<1> QED BY <1>2, <1>4, <1>5, <1>7, <1>8, <1>9, StepKinds DEF Makes

LEMMA UsersKept ==
  ASSUME IInv, Users, released \subseteq Resources, late \in BOOLEAN, stuck \subseteq Fragments,
         Next
  PROVE  /\ Users' /\ (released \subseteq Resources)' /\ late' \in BOOLEAN
         /\ (stuck \subseteq Fragments)'
<1>1. Resources \subseteq Resources'
  BY ShapeKept, KindsStay DEF IInv
<1>2. Users'
  <2>1. ASSUME NEW i \in DOMAIN stack'
        PROVE  MayBe(stack'[i])
    <3>1. CASE Stayed(i)
      BY <3>1 DEF Users, Stayed, Remains, MayBe
    <3>2. CASE ~Stayed(i)
      BY <3>2, CallsMade DEF Another
    <3> QED BY <3>1, <3>2
  <2> QED BY <1>1, <2>1 DEF Users, MayBe
<1>3. released' \subseteq Resources
  <2>1. CASE CloseResource
    <3>1. Called.of \in Resources
      BY <2>1, CalledFacts DEF CloseResource, Cleans
    <3> QED BY <2>1, <3>1 DEF CloseResource
  <2>2. CASE ~CloseResource
    BY <2>2, StepKinds DEF Makes, Others, MakeResource, MakeElement, Render, New, DrawAgain,
       Redraw, Rendered, ClosePage, BlockReturns, BlockThrows, DeleteElement, CleanFragment,
       Unlisten, CleanerReturns, CleanerThrows, CleanupEnds
  <2> QED BY <2>1, <2>2
<1>4. late' \in BOOLEAN
  <2>1. \A W : (late \/ W \cap cleanedUp # {}) \in BOOLEAN
    OBVIOUS
  <2>2. CASE Makes \/ Rendered
    BY <2>2, Zenon DEF Makes, MakeResource, MakeElement, Render, New, DrawAgain, Rendered, OnCleanup
  <2>3. CASE BlockThrows
    BY <2>3 DEF BlockThrows, At
  <2>4. CASE Others /\ ~Rendered /\ ~BlockThrows
    <3>1. late' = late
      BY <2>4 DEF Others, Redraw, ClosePage, BlockReturns, DeleteElement, CloseResource,
                  CleanFragment, Unlisten, CleanerReturns, CleanerThrows, CleanupEnds, historyVars
    <3> QED BY <3>1
  <2> QED BY <2>2, <2>3, <2>4, StepKinds DEF Others
<1>5. stuck' \subseteq Fragments
  <2>1. CASE BlockThrows
    <3>1. stack # <<>> /\ Top.do \in {"block", "first"}
      BY <2>1 DEF BlockThrows, At
    <3>2. Sits(Len(stack)) /\ Top = stack[Len(stack)]
      BY <3>1, TopOf DEF IInv, Stacked
    <3>3. Top.of \in Fragments
      BY <3>1, <3>2 DEF Sits
    <3> QED BY <2>1, <3>3 DEF BlockThrows
  <2>2. CASE ~BlockThrows
    <3>1. stuck' = stuck
      BY <2>2, StepKinds DEF Makes, Others, MakeResource, MakeElement, Render, New, DrawAgain,
         Redraw, Rendered, ClosePage, BlockReturns, DeleteElement, CloseResource, CleanFragment,
         Unlisten, CleanerReturns, CleanerThrows, CleanupEnds, drawingVars
    <3> QED BY <3>1
  <2> QED BY <2>1, <2>2
<1>6. Fragments \subseteq Fragments'
  BY ShapeKept, KindsStay DEF IInv
<1> QED BY <1>1, <1>2, <1>3, <1>4, <1>5, <1>6

LEMMA BoundsKept ==
  ASSUME IInv, Bounds, [Next]_vars
  PROVE  Bounds'
<1>1. CASE Next
  BY <1>1, LyingKept, CountedKept, UsersKept DEF Bounds
<1>2. CASE UNCHANGED vars
  <2>1. /\ objects' = objects /\ queue' = queue /\ released' = released /\ late' = late
        /\ stuck' = stuck /\ stack' = stack
    BY <1>2 DEF vars, historyVars, drawingVars
  <2> QED BY <2>1 DEF Bounds, Lying, Counted, FirstCalls, Users, MayBe, Creators, Resources,
                      Fragments, All
<1> QED BY <1>1, <1>2

LEMMA InitBounds == Init => Bounds
<1> SUFFICES ASSUME Init PROVE Bounds
  OBVIOUS
<1>1. PICK o : o = Object("creator", None, None, {})
  OBVIOUS
<1>2. o.kind = "creator" /\ o.in = None /\ objects = <<o>>
  BY <1>1 DEF Object, Init
<1>3. Len(objects) = 1 /\ DOMAIN objects = {1} /\ objects[1] = o
  BY <1>2
<1>4. Creators = {1}
  BY <1>2, <1>3 DEF Creators, All
<1>5. /\ queue = [c \in {1} |-> <<>>] /\ stack = <<>> /\ released = {} /\ late = FALSE
      /\ stuck = {}
  BY DEF Init, Root
<1>6. FirstCalls = {} /\ Cardinality(FirstCalls) = 0 /\ Users
  <2>1. DOMAIN stack = {}
    BY <1>5
  <2> QED BY <2>1, FS_EmptySet DEF FirstCalls, Users
<1>7. Counted
  <2>1. Len(queue[1]) = 0
    BY <1>5
  <2> QED BY <1>3, <1>4, <1>6, <2>1, CleanersAssumption DEF Counted
<1>8. Lying
  BY <1>2, <1>3 DEF Lying
<1> QED BY <1>5, <1>6, <1>7, <1>8 DEF Bounds

\* The types follow from the invariants.
LEMMA TypesAre ==
  ASSUME IInv, Bounds
  PROVE  TypeOK
<1>0. Shape /\ Typed /\ Stacked
  BY DEF IInv
<1>1. /\ Len(objects) \in Nat /\ DOMAIN objects = 1..Len(objects) /\ MaxMade \in Nat
      /\ Len(objects) <= MaxMade
  BY <1>0, Numbers, CleanersAssumption DEF Bounds, Counted
<1>2. DOMAIN objects \cup {None} \subseteq 0..MaxMade
  BY <1>1 DEF None
<1>3. PICK R : R = [kind : Kinds, by : 0..MaxMade, under : SUBSET All("creator"),
                    in : 0..MaxMade, inside : SUBSET DOMAIN objects]
  OBVIOUS
<1>4. objects \in Seq(R)
  <2>1. ASSUME NEW n \in DOMAIN objects
        PROVE  objects[n] \in R
    <3>1. objects[n] \in Records /\ MadeBy(n) /\ LiesIn(n)
      BY <1>0, Numbers DEF Shape
    <3>2. objects[n].by \in 0..MaxMade /\ objects[n].in \in 0..MaxMade
      BY <1>2, <3>1, KindsDiffer DEF MadeBy, Bounds, Lying
    <3>3. objects[n].under \subseteq All("creator") /\ objects[n].inside \subseteq DOMAIN objects
      BY <3>1, KindsDiffer DEF MadeBy, LiesIn, Creators
    <3> QED BY <1>3, <3>1, <3>2, <3>3 DEF Records
  <2>2. objects \in Seq(Records)
    BY <1>0 DEF Shape
  <2> QED BY <1>1, <2>1, <2>2
<1>5. /\ DOMAIN queue = All("creator") /\ DOMAIN promised = All("creator")
      /\ \A c \in All("creator") :
           /\ queue[c] \in Seq([do : Deeds, of : DOMAIN objects])
           /\ promised[c] \subseteq [do : Deeds, of : DOMAIN objects]
  <2>1. ASSUME NEW c \in Creators
        PROVE  /\ queue[c] \in Seq([do : Deeds, of : DOMAIN objects])
               /\ promised[c] \subseteq [do : Deeds, of : DOMAIN objects]
    <3>1. /\ queue[c] \in Seq(Registrable) /\ promised[c] \subseteq Registrable
          /\ \A x \in ToSet(queue[c]) \cup promised[c] : Cleans(c, x)
      BY <1>0 DEF Typed
    <3>2. \A x \in Registrable : Cleans(c, x) => x \in [do : Deeds, of : DOMAIN objects]
      BY KindsDiffer DEF Registrable, Cleans
    <3>3. promised[c] \subseteq [do : Deeds, of : DOMAIN objects]
      BY <3>1, <3>2
    <3>4. \A i \in DOMAIN queue[c] : queue[c][i] \in [do : Deeds, of : DOMAIN objects]
      BY <3>1, <3>2 DEF ToSet
    <3>5. queue[c] \in Seq([do : Deeds, of : DOMAIN objects])
      <4>1. PICK q, D : q = queue[c] /\ D = [do : Deeds, of : DOMAIN objects]
        OBVIOUS
      <4>2. q \in Seq(Registrable) /\ \A i \in DOMAIN q : q[i] \in D
        BY <3>1, <3>4, <4>1
      <4>3. q \in Seq(D)
        BY <4>2
      <4> QED BY <4>1, <4>3
    <3> QED BY <3>3, <3>5
  <2> QED BY <1>0, <2>1 DEF Typed, Creators
<1>6. \A f \in All("fragment") : current[f] \in All("creator") \cup {None}
  BY <1>0 DEF Typed, Creators, Fragments
<1>7. PICK F : F = [do : FrameKinds, of : DOMAIN objects, next : 0..MaxMade]
  OBVIOUS
<1>8. stack \in Seq(F)
  <2>1. ASSUME NEW i \in DOMAIN stack
        PROVE  stack[i] \in F
    <3>1. stack[i] \in Frames /\ Sits(i)
      BY <1>0 DEF Stacked
    <3>2. CASE stack[i].do = "cleanup"
      <4>1. stack[i].of \in Creators /\ stack[i].next \in 0..Len(queue[stack[i].of])
        BY <1>0, <3>1, <3>2 DEF Sits, Typed
      <4>2. PICK m : m = Len(queue[stack[i].of])
        OBVIOUS
      <4>3. m \in Nat
        BY <1>0, <4>1, <4>2 DEF Typed
      <4>4. Cardinality(FirstCalls) \in Nat
        <5>1. FirstCalls \in SUBSET (1..Len(stack)) /\ Len(stack) \in Nat
          BY <1>0 DEF FirstCalls, Stacked
        <5>2. IsFiniteSet(1..Len(stack))
          BY <5>1, FS_Interval
        <5> QED BY <5>1, <5>2, FS_Subset, FS_CardinalityType
      <4>5. m + Cardinality(FirstCalls) + 1 <= Len(objects)
        BY <4>1, <4>2 DEF Bounds, Counted
      <4>6. stack[i].next \in 0..MaxMade
        BY <1>1, <4>1, <4>2, <4>3, <4>4, <4>5
      <4>7. stack[i].of \in DOMAIN objects
        BY <4>1, KindsDiffer
      <4> QED BY <1>7, <3>1, <4>6, <4>7 DEF Frames
    <3>3. CASE stack[i].do # "cleanup"
      <4>1. stack[i].of \in Resources \cup Fragments
        BY <3>1, <3>3 DEF Sits, Frames, FrameKinds, Bounds, Users, MayBe
      <4>2. stack[i].of \in DOMAIN objects
        BY <4>1, KindsDiffer
      <4>3. stack[i].next \in 0..MaxMade
        BY <1>1, <3>3 DEF Bounds, Users, MayBe
      <4> QED BY <1>7, <3>1, <4>2, <4>3 DEF Frames
    <3> QED BY <3>2, <3>3
  <2> QED BY <1>0, <2>1 DEF Stacked
<1> QED BY <1>0, <1>1, <1>3, <1>4, <1>5, <1>6, <1>7, <1>8
        DEF TypeOK, Typed, Creators, Elements, Fragments, Resources, Bounds

LEMMA Bounded ==
  ASSUME ~CleanersRedraw
  PROVE  Spec => []Bounds
<1>1. IInv /\ Bounds /\ [Next]_vars => Bounds'
  BY BoundsKept
<1> QED BY <1>1, InitBounds, Invariance, PTL DEF Spec

\* When nothing is going on, all that was promised is done.
LEMMA AllDone ==
  ASSUME IInv, Quiet, NEW c \in cleanedUp \ aborted, NEW x \in promised[c]
  PROVE  Done(x)
<1>1. DOMAIN stack = {}
  BY DEF Quiet
<1>2. ~Unlistening(x) /\ ~ToBeDone(c, x)
  BY <1>1 DEF Unlistening, ToBeDone, ToSet
<1> QED BY <1>2 DEF IInv, Kept

LEMMA NothingIsLeftThen ==
  ASSUME IInv
  PROVE  NothingIsLeft
<1> SUFFICES ASSUME Quiet, aborted = {}, ~late, NEW c \in cleanedUp, NEW n \in DOMAIN objects,
                    n # c, c \in Above(n)
             PROVE  CASE objects[n].kind = "resource" -> n \in released
                      [] objects[n].kind = "element" -> n \notin page
                      [] objects[n].kind = "fragment" -> n \notin page \cup listening
                      [] OTHER -> TRUE
  BY DEF NothingIsLeft
<1>0. Shape /\ Typed /\ AllRegistered /\ OneRound /\ Tree
  BY DEF IInv
<1>1. \A f \in Fragments : ~BeingRendered(f)
  BY DEF Quiet, BeingRendered
<1>2. ASSUME NEW d \in cleanedUp, NEW do, NEW m, Registered(d, Cleaner(do, m))
      PROVE  Done(Cleaner(do, m))
  BY <1>2, AllDone DEF Registered
<1>3. ASSUME NEW m \in Resources, NEW d \in cleanedUp, d \in objects[m].under
      PROVE  m \in released
  <2>1. Done(Cleaner("close", m))
    BY <1>0, <1>2, <1>3 DEF AllRegistered
  <2> QED BY <2>1 DEF Done, Cleaner
<1>4. ASSUME NEW m \in Fragments, NEW d \in cleanedUp, d \in objects[m].under
      PROVE  m \notin listening /\ current[m] = None
  <2>1. Done(Cleaner("clean", m))
    BY <1>0, <1>1, <1>2, <1>4 DEF AllRegistered
  <2> QED BY <2>1 DEF Done, Cleaner
<1>5. ASSUME NEW m \in Elements \cup Fragments, objects[m].by \in cleanedUp
      PROVE  m \notin page
  <2>1. Done(Cleaner("delete", m))
    BY <1>0, <1>2, <1>5 DEF AllRegistered
  <2> QED BY <2>1 DEF Done, Cleaner
<1> DEFINE Left == {m \in page : objects[m].under \cap cleanedUp # {}}
<1>6. Left = {}
  <2>1. page \subseteq Elements \cup Fragments
    BY <1>0 DEF Typed
  <2>2. Left \in SUBSET Nat
    BY <1>0, <2>1, Numbers, KindsDiffer
  <2>3. SUFFICES ASSUME Left # {} PROVE FALSE
    OBVIOUS
  <2>4. PICK m \in Left : \A l \in Left : m <= l
    BY <2>2, <2>3, LeastOf
  <2>5. PICK d \in cleanedUp : d \in objects[m].under
    BY <2>4
  <2>6. m \in page /\ m \in Elements \cup Fragments /\ m \in Nat
    BY <2>1, <2>2, <2>4
  <2>7. MadeBy(m) /\ LiesIn(m) /\ Belongs(m) /\ m # Root
    BY <1>0, <2>6, Numbers, KindsDiffer DEF Shape
  <2>8. PICK b : b = objects[m].by
    OBVIOUS
  <2>9. b \in Creators /\ b # None /\ objects[m].under = Above(b)
    BY <2>7, <2>8 DEF MadeBy
  <2>10. b \notin cleanedUp
    BY <1>5, <2>6, <2>8
  <2>11. d \in objects[b].under
    BY <2>5, <2>9, <2>10 DEF Above
  <2>12. b # Root
    BY <1>0, <2>11 DEF Shape, Object, Above
  <2>13. MadeBy(b) /\ Belongs(b)
    BY <1>0, <2>9, KindsDiffer DEF Shape
  <2>14. PICK e : e = objects[b].in
    OBVIOUS
  <2>15. e \in Elements \cup Fragments /\ objects[e].by = objects[b].by
    BY <2>9, <2>12, <2>13, <2>14 DEF Belongs
  <2>16. MadeBy(e)
    BY <1>0, <2>15, KindsDiffer DEF Shape
  <2>17. d \in objects[e].under
    BY <2>11, <2>13, <2>15, <2>16 DEF MadeBy
  <2>18. CASE e \in Fragments
    <3>1. current[e] = None
      BY <1>4, <2>17, <2>18
    <3>2. b \in cleanedUp \cup {None}
      BY <1>0, <2>9, <2>14, <2>18, <3>1 DEF OneRound
    <3> QED BY <2>9, <2>10, <3>2
  <2>19. CASE e \in Elements
    <3>1. e \in objects[m].inside
      BY <2>6, <2>7, <2>8, <2>14, <2>19 DEF Belongs
    <3>2. e \in page
      BY <1>0, <2>6, <2>19, <3>1 DEF Tree
    <3>3. e < m /\ e \in Nat
      BY <1>0, <2>7, <2>15, <3>1, Numbers, KindsDiffer DEF LiesIn
    <3>4. e \in Left
      BY <2>17, <3>2
    <3> QED BY <2>4, <2>6, <3>3, <3>4
  <2> QED BY <2>15, <2>18, <2>19
<1>7. c \in objects[n].under
  BY <1>0, Numbers DEF Above, None
<1>8. n \notin page
  BY <1>6, <1>7
<1>9. CASE n \in Resources
  BY <1>3, <1>7, <1>9 DEF Resources, All
<1>10. CASE n \in Fragments
  BY <1>4, <1>7, <1>8, <1>10 DEF Fragments, All
<1>11. CASE n \in Elements
  BY <1>8, <1>11 DEF Elements, All
<1>12. CASE n \in Creators
  BY <1>12 DEF Creators, All
<1> QED BY <1>0, <1>9, <1>10, <1>11, <1>12, Numbers

\* Whatever is made, and in whatever order it is cleaned up, the state keeps its
\* types: no queue holds more cleaners than there are objects, no call is for an
\* object that does not exist, and what a fragment shows is a creator.
THEOREM TypeCorrect ==
  ASSUME ~CleanersRedraw
  PROVE  Spec => []TypeOK
<1>1. IInv /\ Bounds => TypeOK
  BY TypesAre
<1> QED BY <1>1, Invariance, Bounded, PTL

\* What was registered with a creator when its cleanup began is, once that is over,
\* closed, deleted or cleaned up, unless a cleaner threw: cleanup() loses none, though
\* cleaners clean up other creators, register more and have fragments drawn again.
THEOREM CleanersKeepPromises ==
  ASSUME ~CleanersRedraw
  PROVE  Spec => []PromisesAreKept
<1>1. IInv => PromisesAreKept
  BY DEF IInv, Kept, PromisesAreKept, ToBeDone, CleaningUp
<1> QED BY <1>1, Invariance, PTL

\* When nothing is going on, the rounds of a fragment are cleaned up, but for the one
\* it shows: render hands each creator of a round to a cleanup before the next.
THEOREM OneRoundAtATime ==
  ASSUME ~CleanersRedraw
  PROVE  Spec => []OneRoundIsShown
<1>1. IInv => OneRoundIsShown
  BY DEF IInv, OneRound, OneRoundIsShown, Creators, Fragments
<1> QED BY <1>1, Invariance, PTL

\* What was made by a creator, or by those beneath it in elements and fragments nested
\* to any depth, is gone after its cleanup, if no cleaner threw, none came late, and no
\* block threw in its first round, which keeps render from registering one.
THEOREM NothingRemains ==
  ASSUME ~CleanersRedraw
  PROVE  Spec => []NothingIsLeft
<1>1. IInv => NothingIsLeft
  BY NothingIsLeftThen
<1> QED BY <1>1, Invariance, PTL
=============================================================================
