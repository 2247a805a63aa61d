-------------------------- MODULE MCNeighbourTable --------------------------
(***************************************************************************)
(* Instances of NeighbourTable for TLC.                                    *)
(***************************************************************************)
EXTENDS NeighbourTable, TLC

\* Interfaces and addresses are only compared, and every home assignment is an
\* initial state.
Symmetry == Permutations(Devs) \cup Permutations(Ips) \cup Permutations(Macs)

\* What an operation does depends on the table and not on the call before it, so states
\* that differ in the call alone are one; the call of every step is still compared with
\* that of the map.
TableView == <<home, entries>>
=============================================================================
