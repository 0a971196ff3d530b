------------------------------ MODULE BufLists ------------------------------
(***************************************************************************)
(* The vocabulary of dvconnect's buffer blocks: two linked lists (modelled *)
(* as sequences of block numbers), and the one block each of the two       *)
(* threads may have in hand.                                               *)
(***************************************************************************)
EXTENDS Integers, Sequences

NULL == 0

(* push_back, and what pop_front leaves of a list that is not empty; the   *)
(* block it returns is the Head.                                           *)
PushFront(l, b) == <<b>> \o l     (* mutant: the block goes in front *)

PushBack(l, b) == Append(l, b)

NotUnlinked(l) == l               (* mutant: the block stays in the list *)

Rest(l) == Tail(l)

Listed(q) == {q[i] : i \in 1..Len(q)}

NoRepeats(q) == \A i, j \in 1..Len(q) : q[i] = q[j] => i = j

Held(b) == IF b = NULL THEN {} ELSE {b}

(* The n blocks allocated are spread over lists q and l and hands x and y: *)
(* each is in exactly one place.                                           *)
ExactlyOneOwner(q, l, x, y, n) ==
  /\ NoRepeats(q) /\ NoRepeats(l)
  /\ Listed(q) \cap Listed(l) = {}
  /\ (Held(x) \cup Held(y)) \cap (Listed(q) \cup Listed(l)) = {}
  /\ Held(x) \cap Held(y) = {}
  /\ Listed(q) \cup Listed(l) \cup Held(x) \cup Held(y) = 1..n

InHand(b) == IF b = NULL THEN 0 ELSE 1

(* None is missing: the same by number. *)
AllAccounted(q, l, x, y, n) == n = Len(q) + Len(l) + InHand(x) + InHand(y)
=============================================================================
