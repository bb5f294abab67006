------------------------------ MODULE Selection -------------------------------
(***************************************************************************)
(* The elements of a sequence that are in a set, in their order and as     *)
(* often as they are there: what the code collects of iter().filter().     *)
(* SelectSeq says the same of a predicate; what is said here is said by    *)
(* recursion on a value, which is how it can be proved about.              *)
(***************************************************************************)
EXTENDS Integers, Sequences

Elements(seq) == {seq[i] : i \in DOMAIN seq}

Those(seq, chosen) ==
    LET Upto[i \in 0 .. Len(seq)] ==
            IF i = 0 THEN <<>>
            ELSE IF seq[i] \in chosen THEN Append(Upto[i - 1], seq[i]) ELSE Upto[i - 1]
    IN  Upto[Len(seq)]

=============================================================================
