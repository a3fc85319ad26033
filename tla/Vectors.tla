------------------------------- MODULE Vectors -------------------------------
(***************************************************************************)
(* The operations of std::vector that the programs use, as far as the      *)
(* library defines them: erase and pop_back of an element that is there,   *)
(* and the first position std::find would return.                          *)
(***************************************************************************)
EXTENDS Naturals, Sequences

\* v.erase(v.begin() + n), counting from 1.
RemoveIndex(s, n) == [k \in 1 .. Len(s) - 1 |-> IF k < n THEN s[k] ELSE s[k + 1]]

\* v.pop_back().
PopBack(s) == SubSeq(s, 1, Len(s) - 1)

\* The first index in S, which is a set of indices of s; Len(s) + 1, that is
\* v.end(), if there is none.
FirstIndex(s, S) == IF S = {} THEN Len(s) + 1
                    ELSE CHOOSE k \in S : \A j \in S : k <= j
=============================================================================
