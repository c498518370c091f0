------------------------------- MODULE Queues -------------------------------
(* What the specifications say of their queues: channels, VecDeques, Vecs. *)
EXTENDS Naturals, Sequences

Elems(s) == {s[i] : i \in 1..Len(s)}

(* No element occurs twice. *)
Distinct(s) == \A i, j \in 1..Len(s) : s[i] = s[j] => i = j

Increasing(s) == \A i, j \in 1..Len(s) : i < j => s[i] < s[j]
=============================================================================
