------------------------------ MODULE MC_ParSort -------------------------------
(* Instances of ParSort for TLC: which files are sorted. *)
EXTENDS ParSort

AllInputs == [Index -> Values]

\* Files in which partition leaves two elements on either side of the pivot, and all
\* files of ones and twos around a pivot that is one, two or three.
SampleInputs ==
    {[i \in Index |-> s[i + 1]] :
        s \in {<<1, 2, 3, 5, 4>>, <<2, 1, 3, 4, 5>>, <<4, 5, 3, 1, 2>>}}
    \cup {a \in [Index -> 1 .. 3] : \A i \in Index : a[i] = 3 => i = Elements \div 2}
================================================================================
