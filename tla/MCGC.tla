-------------------------------- MODULE MCGC --------------------------------
(* Instances of GC for TLC. *)
EXTENDS GC, TLC


\* Too many allocations for the instance: no collection starts by itself.
Never == [i \in GENERATIONS |-> 100]

\* A collection starts at every allocation, of the oldest generation that is due:
\* generation 0, then 1, then 2.
Eager == [i \in GENERATIONS |-> 0]

Symmetry == Permutations(Obj) \cup Permutations(Field)

=============================================================================
