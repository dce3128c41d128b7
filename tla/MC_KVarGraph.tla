---------------------------- MODULE MC_KVarGraph ----------------------------
(***************************************************************************)
(* A KVar a, one that maps it reversibly, b, and one, p, that combines b   *)
(* and c.  KVal m is mapped from b, and n from m; q is mapped from c by a  *)
(* function that throws on 1.  One listener of the application sets d when *)
(* n changes, another closes n when c does.                                *)
(***************************************************************************)
EXTENDS KVarClosing

Names == {"a", "b", "c", "p", "m", "n", "q", "d"}

\* A value is a tuple, of two for a pair: TLC compares tuples of any length.
Single(S) == {<<v>> : v \in S}

Held == [k \in Names |->
  CASE k \in {"a", "b"} -> Single(0..2)
    [] k = "p" -> Single(0..2) \X Single(0..1)
    [] k \in {"m", "q"} -> Single(10..12)
    [] k = "n" -> Single(20..21)
    [] OTHER -> Single(0..1)]

\* a = 2 - b; n does not tell 10 from 11.
Mappings(l, v) ==
  CASE l.kind = "forward" -> <<2 - v[1]>>
    [] l.to \in {"m", "q"} -> <<10 + v[1]>>
    [] l.to = "n" -> IF v = <<12>> THEN <<21>> ELSE <<20>>
    [] OTHER -> v
Unmappings(l, current, v) == IF l.kind = "set" THEN <<v[1] - 20>> ELSE <<2 - v[1]>>
ThrowsOn(l, v) == l.kind = "map" /\ l.to = "q" /\ v = <<1>>

Graph ==
  ReversiblyMapped("a", "b") \cup Combined("b", "c", "p")
    \cup Mapped("b", "m") \cup Mapped("m", "n") \cup Mapped("c", "q")
    \cup {Listener("tell", k, k, k) : k \in {"n", "p", "q"}}
    \cup {Listener("set", "n", "d", "d"), Listener("close", "c", "n", "n")}

Start ==
  {[k \in Names |->
      CASE k = "a" -> <<2 - v>> [] k = "b" -> <<v>> [] k = "p" -> <<<<v>>, <<0>>>>
        [] k = "m" -> <<10 + v>> [] k = "q" -> <<10>> [] k = "n" -> <<20>>
        [] OTHER -> <<0>>] : v \in {0, 1}}

\* KVar.notNull with its default: null is shown as d, and d is turned back into
\* null.  Another KVal is mapped from the nullable one.
NullableHeld == [k \in {"nullable", "notNull", "mapped"} |->
  IF k = "notNull" THEN {"x", "d"} ELSE {"x", "d", "null"}]
NullableGraph ==
  ReversiblyMapped("nullable", "notNull") \cup Mapped("nullable", "mapped")
OrDefault(l, v) == IF l.kind = "forward" /\ v = "null" THEN "d" ELSE v
InvertDefault(l, current, v) == IF v = "d" THEN "null" ELSE v
ThrowsNever(l, v) == FALSE
NullableStart == {[k \in {"nullable", "notNull", "mapped"} |-> "x"]}
=============================================================================
