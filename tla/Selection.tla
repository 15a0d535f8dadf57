----------------------------- MODULE Selection -----------------------------
(***************************************************************************)
(* Selecting, sorting and joining sequences by places: what a loop over a  *)
(* Go slice keeps, what sort.Slice orders and what append puts together.   *)
(* A place is an index, or a pair of indices into a sequence of sequences. *)
(***************************************************************************)
EXTENDS Naturals, Sequences, FiniteSets

(* The n-th place of a set of indices, and what a sequence has at them, in *)
(* order.                                                                  *)
Nth(S, n) == CHOOSE i \in S : Cardinality({j \in S : j <= i}) = n
At(seq, S) == [n \in 1..Cardinality(S) |-> seq[Nth(S, n)]]

(* A finite set as a sequence, in the order of the pairs R.                *)
Ranked(S, R) == [n \in 1..Cardinality(S) |-> CHOOSE x \in S : Cardinality({y \in S : <<y, x>> \in R}) = n - 1]

(* R puts any two different elements of S in one order.                    *)
StrictOrder(S, R) ==
    \A x, y, z \in S :
        /\ <<x, y>> \in R => <<y, x>> \notin R
        /\ x # y => <<x, y>> \in R \/ <<y, x>> \in R
        /\ <<x, y>> \in R /\ <<y, z>> \in R => <<x, z>> \in R

(* The elements of a sequence of sequences, one sequence after the other.  *)
Places(seqs) == UNION {{<<i, n>> : n \in DOMAIN seqs[i]} : i \in DOMAIN seqs}
InReadingOrder(seqs) ==
    {p \in Places(seqs) \X Places(seqs) : p[1][1] < p[2][1] \/ (p[1][1] = p[2][1] /\ p[1][2] < p[2][2])}
Joined(seqs) ==
    LET order == Ranked(Places(seqs), InReadingOrder(seqs))
    IN  [n \in DOMAIN order |-> seqs[order[n][1]][order[n][2]]]
=============================================================================
