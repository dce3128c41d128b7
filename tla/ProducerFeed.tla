---------------------------- MODULE ProducerFeed ----------------------------
(***************************************************************************)
(* What a Kweb connection promises to the threads of the server that send  *)
(* to one browser: every message the browser gets was accepted from its    *)
(* producer, and the messages of one producer arrive in the order it sent  *)
(* them, none of them twice.  Messages may be lost (the connection may     *)
(* drop), and nothing is promised between two producers.                   *)
(*                                                                         *)
(* The k-th message of a producer is known by its number k.                *)
(***************************************************************************)
EXTENDS Naturals

CONSTANT Producers          \* the server threads that send to this browser

VARIABLES accepted,         \* accepted[p]: numbers of the messages taken from p
          last              \* last[p]: number of p's latest delivered message

feedVars == <<accepted, last>>

Init ==
  /\ accepted = [p \in Producers |-> {}]
  /\ last = [p \in Producers |-> 0]

Accept(p, k) ==
  /\ k > 0
  /\ \A j \in accepted[p] : j < k
  /\ accepted' = [accepted EXCEPT ![p] = @ \cup {k}]
  /\ UNCHANGED last

Deliver(p, k) ==
  /\ k \in accepted[p]
  /\ k > last[p]
  /\ last' = [last EXCEPT ![p] = k]
  /\ UNCHANGED accepted

Next ==
  \E p \in Producers :
    \/ \E k \in accepted[p] : Deliver(p, k)
    \/ \E k \in accepted'[p] : Accept(p, k)

Spec == Init /\ [][Next]_feedVars
=============================================================================
