---------------------------- MODULE DeadLetters ----------------------------
(***************************************************************************)
(* pkg/dlq/dlq.go: the bounded queue in memory, a sequence, oldest first.  *)
(* Nothing in the repository drains it.                                    *)
(***************************************************************************)
EXTENDS Naturals, Sequences

CONSTANT DeadLetterCapacity

ASSUME DeadLettersAssumption == DeadLetterCapacity \in Nat \ {0}

(* Mutant: a full queue drops its newest letter. *)
Push_DropsNewest(queue, letter) ==
    IF Len(queue) >= DeadLetterCapacity
      THEN Append(SubSeq(queue, 1, Len(queue) - 1), letter)
      ELSE Append(queue, letter)

(* A full queue drops its oldest letter. *)
Push(queue, letter) ==
    IF Len(queue) >= DeadLetterCapacity THEN Append(Tail(queue), letter)
    ELSE Append(queue, letter)
=============================================================================
