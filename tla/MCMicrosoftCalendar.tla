-------------------------- MODULE MCMicrosoftCalendar --------------------------
(***************************************************************************)
(* Two accounts the user may link, two operations at a time, up to three   *)
(* failures.                                                               *)
(***************************************************************************)
EXTENDS MicrosoftCalendar, TLC

Symmetry == Permutations(Account) \cup Permutations(Sub) \cup Permutations(Op)

\* Bound: after the second failure only renewals come, one at a time.
FewAtOnce ==
    faults > 1 =>
        /\ Cardinality({o \in Op : Busy(o)}) <= 1
        /\ \A o \in Op : Busy(o) => op[o].kind = "renew"
=============================================================================
