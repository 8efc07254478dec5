-------------------------------- MODULE Ranking --------------------------------
(***************************************************************************)
(* Sorting by a key with ties broken by index, which several algorithms    *)
(* of the engine end in or begin with.                                     *)
(***************************************************************************)
EXTENDS Integers, Sequences, FiniteSets, SequencesExt

(* The members of S in the order that before, a strict total one, gives.   *)
ranked(S, before(_, _)) ==
    CHOOSE s \in SetToSeqs(S) :
        \A m, n \in DOMAIN s : m < n => before(s[m], s[n])

(* What s holds at the indices kept, in the order it has there.            *)
subsequence(s, kept) ==
    LET order == ranked(kept, <) IN [n \in DOMAIN order |-> s[order[n]]]
===============================================================================
