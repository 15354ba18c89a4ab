---------------------------- MODULE QueueContents ----------------------------
(***************************************************************************)
(* What a queue of batches or slots holds, for the invariants of the       *)
(* detection pipelines: the set of its elements, and that none is there    *)
(* twice.                                                                  *)
(***************************************************************************)
EXTENDS Integers, Sequences

Elements(s) == {s[i] : i \in 1 .. Len(s)}
Distinct(s) == \A i, j \in 1 .. Len(s) : s[i] = s[j] => i = j
=============================================================================
