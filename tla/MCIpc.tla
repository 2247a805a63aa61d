------------------------------- MODULE MCIpc -------------------------------
(***************************************************************************)
(* The ways between threads and processes for TLC: the ring between the    *)
(* control thread and the worker, the client library, the transfer of its  *)
(* messages, the events for administrators and the table of identities.    *)
(* They share no state, so a behaviour runs one of them, and the others    *)
(* stay as they start.                                                     *)
(***************************************************************************)
EXTENDS SpscQueue, ClientLibrary, Transfer, EventRing, Identities

VARIABLE part   \* the one that runs

ipcVars == <<vars, clientVars, transferVars, eventVars, identityVars, part>>

\* One call of each kind, with buffers that are too large for a message together.
MCCalls ==
    {[op |-> "socket", lens |-> <<>>], [op |-> "send", lens |-> <<3>>],
     [op |-> "recv", lens |-> <<1>>], [op |-> "sendmmsg", lens |-> <<1, 1>>],
     [op |-> "recvmmsg", lens |-> <<0, 1>>]}

IpcInit ==
    /\ part \in {"queue", "client", "transfer", "events", "identities"}
    /\ Init /\ ClientInit /\ TransferInit /\ EventInit /\ IdentityInit

IpcNext ==
    /\ part' = part
    /\ \/ part = "queue" /\ Next /\ UNCHANGED <<clientVars, transferVars, eventVars, identityVars>>
       \/ part = "client" /\ ClientNext /\ UNCHANGED <<vars, transferVars, eventVars, identityVars>>
       \/ part = "transfer" /\ TransferNext /\ UNCHANGED <<vars, clientVars, eventVars, identityVars>>
       \/ part = "events" /\ EventNext /\ UNCHANGED <<vars, clientVars, transferVars, identityVars>>
       \/ part = "identities" /\ IdentityNext /\ UNCHANGED <<vars, clientVars, transferVars, eventVars>>

\* No action with a fairness condition is enabled in the part's initial state, so the
\* conditions say nothing of the parts that do not run.
IpcSpec ==
    /\ IpcInit /\ [][IpcNext]_ipcVars
    /\ ClientFairness /\ TransferFairness /\ EventFairness
=============================================================================
