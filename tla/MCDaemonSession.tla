-------------------------- MODULE MCDaemonSession --------------------------
(* DaemonSession for TLC: a small number of clients, sockets and sessions. *)
EXTENDS DaemonSession, TLC

\* Message ids are only compared with each other.  For safety runs.
IdSymmetry == Permutations(Ids)
=============================================================================
