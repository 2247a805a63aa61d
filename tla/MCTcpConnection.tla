-------------------------- MODULE MCTcpConnection --------------------------
(* TcpConnection for TLC: initial sequence numbers just before the wrap.   *)
EXTENDS TcpConnection

OneIncarnation == [e \in Ends |-> IF e = "client" THEN <<14>> ELSE <<15>>]
TwoIncarnations == [e \in Ends |-> IF e = "client" THEN <<14>> ELSE <<15, 2>>]
ClientSends2 == [e \in Ends |-> IF e = "client" THEN 2 ELSE 0]
ClientSends1 == [e \in Ends |-> IF e = "client" THEN 1 ELSE 0]

\* Bound: once both ends are gone, only resets are exchanged.
SomeEnd == \E e \in Ends : Connected(e) \/ MayOpen(e)
=============================================================================
