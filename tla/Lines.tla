------------------------------- MODULE Lines -------------------------------
(***************************************************************************)
(* Lines of rows and tasks: what the specifications use of sequences       *)
(* beyond the standard module.                                             *)
(***************************************************************************)
EXTENDS Integers, Sequences, FiniteSets, SequencesExt

(* The line without the members of S: SelectSeq(line, LAMBDA r : r \notin   *)
(* S), written out since the provers know nothing of SelectSeq.             *)
Without(line, S) ==
    LET kept[i \in 0..Len(line)] ==
            IF i = 0 THEN <<>>
            ELSE IF line[i] \in S THEN kept[i - 1] ELSE Append(kept[i - 1], line[i])
    IN  kept[Len(line)]

(* The members of S, each with a number of its own, in the order of those   *)
(* numbers: how a store that sorts by a score lists them.                   *)
Arranged(S, score) ==
    CHOOSE line \in [1..Cardinality(S) -> S] :
        \A i, j \in 1..Cardinality(S) : i < j => score[line[i]] < score[line[j]]
=============================================================================
