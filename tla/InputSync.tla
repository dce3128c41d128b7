------------------------------ MODULE InputSync ------------------------------
(***************************************************************************)
(* An input element kept in step with a KVar<String> (ValueElement.value). *)
(*                                                                         *)
(* The browser reports every input event as the difference between the     *)
(* text it reported last and the new one; the server applies it to the     *)
(* text it has.  The server writes whole texts.  Both ways are first in,   *)
(* first out, and cross.  On the server the element has two KVars, one of  *)
(* texts and one of texts with the side that changed them last, joined by  *)
(* a reversible map; setting one of them, with all its listeners do, is    *)
(* one step here (the listeners themselves are the subject of KVarGraph).  *)
(***************************************************************************)
EXTENDS Integers, Sequences

CONSTANTS
  Letters,
  Texts,       \* texts the user types and the application writes
  Undefined,   \* no data-previous-input
  MaxTyped,    \* bound: input events
  MaxWrites    \* bound: assignments of the application

ASSUME InputAssumption ==
  /\ Texts \subseteq Seq(Letters) /\ <<>> \in Texts
  /\ Undefined \notin Seq(Letters)
  /\ MaxTyped \in Nat /\ MaxWrites \in Nat

VARIABLES
  elementValue,    \* element.value in the browser
  previousInput,   \* element.dataset.previousInput
  events,          \* differences on their way to the server
  typed,           \* the texts they stand for (seen by no code)
  writes,          \* setValue on its way to the browser
  stringKvar,      \* _stringValueKvar.value
  valueKvar,       \* _valueKvar.value
  keys, written    \* input events and assignments so far

browserVars == <<elementValue, previousInput, keys>>
serverVars == <<stringKvar, valueKvar, written>>
vars == <<browserVars, events, typed, writes, serverVars>>

-----------------------------------------------------------------------------
(***************************************************************************)
(* The difference of two texts, and its application.                       *)
(***************************************************************************)
\* Seeded fault: the arguments in the wrong order.
DiffPatchDataSwapped(prefix, postfix, diff) ==
  [prefixEndIndex |-> postfix, postfixOffset |-> prefix, diffString |-> diff]
DiffPatchData(prefix, postfix, diff) ==
  [prefixEndIndex |-> prefix, postfixOffset |-> postfix, diffString |-> diff]

Diffs == [prefixEndIndex : Nat, postfixOffset : Nat \cup {-1},
          diffString : Seq(Letters)]

Shorter(old, new) == IF Len(old) > Len(new) THEN Len(new) ELSE Len(old)

CommonPrefixes(old, new) ==
  {n \in 0..Shorter(old, new) : \A i \in 1..n : old[i] = new[i]}
CommonPostfixes(old, new, room) ==
  {n \in 0..room : \A i \in 0..n-1 : old[Len(old) - i] = new[Len(new) - i]}

Longest(S) == CHOOSE n \in S : \A m \in S : m <= n

CommonPrefixEnd(old, new) == Longest(CommonPrefixes(old, new))

\* The prefix is not counted again.  Seeded fault: it is.
CommonPostfixOverlapping(old, new) ==
  LET n == Longest(CommonPostfixes(old, new, Shorter(old, new)))
  IN  IF n = 0 THEN -1 ELSE n
CommonPostfixOffset(old, new) ==
  LET n == Longest(CommonPostfixes(old, new,
                             Shorter(old, new) - CommonPrefixEnd(old, new)))
  IN  IF n = 0 THEN -1 ELSE n

\* String.substring of JavaScript: an end beyond the text is the end of it.
Substring(s, begin, end) ==
  SubSeq(s, begin + 1, IF end > Len(s) THEN Len(s) ELSE end)

GetDiffChanges(old, new) ==
  IF old = Undefined
  THEN DiffPatchData(0, 0, new)
  ELSE LET p == CommonPrefixEnd(old, new)
           q == CommonPostfixOffset(old, new)
       IN  DiffPatchData(p, q, Substring(new, p, Len(new) - q))

\* substring of the JVM throws instead; the event is dropped then.
Applicable(old, d) ==
  d.prefixEndIndex <= Len(old) /\ d.postfixOffset <= Len(old)

\* Without a prefix the last case is the second one of the code.
ApplyDiff(old, d) ==
  IF d.postfixOffset = -1
  THEN SubSeq(old, 1, d.prefixEndIndex) \o d.diffString
  ELSE SubSeq(old, 1, d.prefixEndIndex) \o d.diffString
         \o SubSeq(old, Len(old) - d.postfixOffset + 1, Len(old))

-----------------------------------------------------------------------------
Value(v, source) == [value |-> v, lastModificationSource |-> source]
Values == [value : Seq(Letters), lastModificationSource : {"Server", "Browser"}]

\* The map between the two KVars forgets the source: what comes back through
\* the KVar of texts is the server's.  Seeded fault: it is the browser's.
ComesBackAsBrowsers(text) == Value(text, "Browser")
ComesBack(text) == Value(text, "Server")

\* The listener that updates the DOM.
SetValueFor(v) ==
  IF v.lastModificationSource = "Server" THEN <<v.value>> ELSE <<>>

TypeOK ==
  /\ elementValue \in Seq(Letters)
  /\ previousInput \in Seq(Letters) \cup {Undefined}
  /\ events \in Seq(Diffs)
  /\ typed \in Seq(Texts) /\ Len(typed) = Len(events)
  /\ writes \in Seq(Seq(Letters))
  /\ stringKvar \in Seq(Letters)
  /\ valueKvar \in Values /\ valueKvar.value = stringKvar
  /\ keys \in Nat /\ written \in Nat

\* The getter takes over the text of the element; the setter sends the text of
\* the KVar, which the element has yet to show.
Init ==
  /\ elementValue \in Texts
  /\ previousInput = Undefined
  /\ events = <<>> /\ typed = <<>>
  /\ \/ stringKvar = elementValue /\ writes = <<>>
     \/ stringKvar \in Texts /\ writes = <<stringKvar>>
  /\ valueKvar = Value(stringKvar, "Server")
  /\ keys = 0 /\ written = 0

-----------------------------------------------------------------------------
\* An input event: the text of the element has become new.
Type(new) ==
  /\ keys < MaxTyped
  /\ keys' = keys + 1
  /\ elementValue' = new
  /\ events' = Append(events, GetDiffChanges(previousInput, new))
  /\ typed' = Append(typed, new)
  /\ previousInput' = new
  /\ UNCHANGED <<writes, serverVars>>

\* Seeded fault: the text reported last is kept.
ForgottenNot == previousInput
Forgotten == Undefined

ReceiveWrite ==
  /\ writes # <<>>
  /\ elementValue' = Head(writes)
  /\ previousInput' = Forgotten
  /\ writes' = Tail(writes)
  /\ UNCHANGED <<keys, events, typed, serverVars>>

\* toBind.value = v, and what the listeners of the two KVars do about it.
ToBind(v) ==
  IF v.value = stringKvar
  THEN /\ valueKvar' = v
       /\ writes' = writes \o SetValueFor(v)
       /\ UNCHANGED stringKvar
  ELSE /\ stringKvar' = v.value
       /\ valueKvar' = ComesBack(v.value)
       /\ writes' = writes \o SetValueFor(v) \o SetValueFor(ComesBack(v.value))

ReceiveEvent ==
  /\ events # <<>>
  /\ events' = Tail(events)
  /\ typed' = Tail(typed)
  /\ IF Applicable(valueKvar.value, Head(events))
     THEN ToBind(Value(ApplyDiff(valueKvar.value, Head(events)), "Browser"))
     ELSE UNCHANGED <<writes, stringKvar, valueKvar>>
  /\ UNCHANGED <<browserVars, written>>

\* The application assigns a text to the KVar.
SetString(text) ==
  /\ written < MaxWrites
  /\ text # stringKvar
  /\ written' = written + 1
  /\ stringKvar' = text
  /\ valueKvar' = ComesBack(text)
  /\ writes' = writes \o SetValueFor(ComesBack(text))
  /\ UNCHANGED <<browserVars, events, typed>>

-----------------------------------------------------------------------------
Next ==
  \/ \E text \in Texts : Type(text) \/ SetString(text)
  \/ ReceiveWrite
  \/ ReceiveEvent

Spec == Init /\ [][Next]_vars

\* The network and both ends go on; nothing makes the user type or the
\* application write.
FairSpec == Spec /\ WF_vars(ReceiveWrite) /\ WF_vars(ReceiveEvent)

-----------------------------------------------------------------------------
Quiet == events = <<>> /\ writes = <<>>

\* Once nothing is on its way the element shows the text of the KVar, however
\* events and writes have crossed, and though a difference may have been
\* applied to another text than it was taken from, or dropped.
Agrees == Quiet => elementValue = stringKvar

\* As long as the application writes nothing, the KVar takes exactly the texts
\* that were typed, one after the other: differences and their application are
\* inverse, at both ends of the text and for repeated letters.
KeystrokesArrive ==
  [][ReceiveEvent /\ written = 0 => stringKvar' = Head(typed)]_vars

\* The element always shows the text of the KVar again.
AgreesAgain == []<>(elementValue = stringKvar)

\* NOT TRUE of this code: as long as the application writes nothing, the element
\* only changes under the fingers of the user.  Every event comes back to the
\* browser as a write, which undoes what was typed since.
OnlyTheUserEdits ==
  [][written = 0 /\ events # <<>> => (elementValue' = elementValue \/ keys' # keys)]_vars
=============================================================================
