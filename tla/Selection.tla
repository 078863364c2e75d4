------------------------------ MODULE Selection ------------------------------
(***************************************************************************)
(* The messages of a queue that belong to a set, in the order they have in *)
(* the queue: SelectSeq for a set in place of a predicate, defined by a    *)
(* recursive function so that it can be reasoned about.                    *)
(***************************************************************************)
EXTENDS Integers, Sequences

Select(q, S) ==
    LET chosen[i \in 0 .. Len(q)] ==
          IF i = 0 THEN <<>>
          ELSE IF q[i] \in S THEN Append(chosen[i - 1], q[i])
          ELSE chosen[i - 1]
    IN  chosen[Len(q)]

=============================================================================
