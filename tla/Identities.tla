----------------------------- MODULE Identities -----------------------------
(***************************************************************************)
(* The table of identities: who is connected, as the management thread     *)
(* lists it (src/daemon/control.c, src/admin_format.c).  The control       *)
(* thread stores process, user and owner of a session one by one, without  *)
(* a lock; the management thread loads them one by one, in between.  Each  *)
(* store and each load is a step.                                          *)
(*                                                                         *)
(* A session is named by its owner number, and so are its process and its  *)
(* user: what matters is whose they are.  DaemonSession has the rest of a  *)
(* session's life; here it is connected, dead, withdrawn from the table,   *)
(* or gone.                                                                *)
(***************************************************************************)
EXTENDS Naturals

CONSTANTS Places,    \* max_clients
          MaxOwners  \* bound: sessions ever accepted

ASSUME IdentityAssumption == Places \in Nat \ {0} /\ MaxOwners \in Nat

VARIABLES holder,      \* clients[i].owner
          state,       \* how far the session of a place is
          issued,      \* next_owner
          publishing,  \* the place whose identity is being stored, and how far
          identities,  \* the table
          listing,     \* the place that is being listed, and what is loaded next
          row          \* the row as far as it is loaded

identityVars == <<holder, state, issued, publishing, identities, listing, row>>

Nobody == 0
NoIdentity == [owner |-> Nobody, pid |-> Nobody, uid |-> Nobody]

NothingToStore == [place |-> 1, step |-> 0]
NotListing == [place |-> 1, next |-> "nothing"]

IdentityInit ==
    /\ holder = [i \in 1 .. Places |-> Nobody] /\ state = [i \in 1 .. Places |-> "free"]
    /\ issued = 0
    /\ publishing = NothingToStore
    /\ identities = [i \in 1 .. Places |-> NoIdentity]
    /\ listing = NotListing /\ row = NoIdentity

-----------------------------------------------------------------------------
(* The control thread. *)

Idle == publishing = NothingToStore

\* accept_clients(): the first free place is taken.  Where the peer's credentials cannot
\* be had, nothing is stored.
Accept(i) ==
    /\ Idle /\ issued < MaxOwners
    /\ holder[i] = Nobody /\ \A j \in 1 .. i - 1 : holder[j] # Nobody
    /\ issued' = issued + 1
    /\ holder' = [holder EXCEPT ![i] = issued + 1]
    /\ state' = [state EXCEPT ![i] = "connected"]
    /\ publishing' \in {NothingToStore, [place |-> i, step |-> 1]}
    /\ UNCHANGED <<identities, listing, row>>

\* A mutant: the owner is stored before what it vouches for.
OwnerFirst == <<"owner", "pid", "uid">>

\* accept_clients(): the order of its three stores.
StoreOrder == <<"pid", "uid", "owner">>

Store ==
    LET i == publishing.place IN
    /\ publishing.step > 0
    /\ identities' = [identities EXCEPT ![i][StoreOrder[publishing.step]] = holder[i]]
    /\ publishing' = IF publishing.step = 3 THEN NothingToStore
                     ELSE [publishing EXCEPT !.step = publishing.step + 1]
    /\ UNCHANGED <<holder, state, issued, listing, row>>

\* disconnect_client().
Die(i) ==
    /\ Idle /\ state[i] = "connected"
    /\ state' = [state EXCEPT ![i] = "dead"]
    /\ UNCHANGED <<holder, issued, publishing, identities, listing, row>>

\* control_run(): the owner of a dead session is taken back; its process and user stay.
Withdraw(i) ==
    /\ Idle /\ state[i] = "dead"
    /\ identities' = [identities EXCEPT ![i].owner = Nobody]
    /\ state' = [state EXCEPT ![i] = "withdrawn"]
    /\ UNCHANGED <<holder, issued, publishing, listing, row>>

\* collect_responses(): the cleanup, which was asked for after that, is answered.
Release(i) ==
    /\ Idle /\ state[i] = "withdrawn"
    /\ holder' = [holder EXCEPT ![i] = Nobody]
    /\ state' = [state EXCEPT ![i] = "free"]
    /\ UNCHANGED <<issued, publishing, identities, listing, row>>

-----------------------------------------------------------------------------
(* The management thread. *)

\* admin_format(): applications are to be listed.
BeginListing ==
    /\ listing = NotListing
    /\ listing' = [place |-> 1, next |-> "owner"]
    /\ UNCHANGED <<holder, state, issued, publishing, identities, row>>

\* The next place, or the end of the list.
NextPlace ==
    listing' = IF listing.place = Places THEN NotListing
               ELSE [place |-> listing.place + 1, next |-> "owner"]

\* admin_format(): a place without an owner is passed over.
LoadOwner ==
    LET owner == identities[listing.place].owner IN
    /\ listing.next = "owner"
    /\ row' = [NoIdentity EXCEPT !.owner = owner]
    /\ IF owner = Nobody THEN NextPlace ELSE listing' = [listing EXCEPT !.next = "pid"]
    /\ UNCHANGED <<holder, state, issued, publishing, identities>>

LoadPid ==
    /\ listing.next = "pid"
    /\ row' = [row EXCEPT !.pid = identities[listing.place].pid]
    /\ listing' = [listing EXCEPT !.next = "uid"]
    /\ UNCHANGED <<holder, state, issued, publishing, identities>>

LoadUid ==
    /\ listing.next = "uid"
    /\ row' = [row EXCEPT !.uid = identities[listing.place].uid]
    /\ listing' = [listing EXCEPT !.next = "end"]
    /\ UNCHANGED <<holder, state, issued, publishing, identities>>

\* The row is written.
EndRow ==
    /\ listing.next = "end"
    /\ NextPlace /\ row' = NoIdentity
    /\ UNCHANGED <<holder, state, issued, publishing, identities>>

IdentityNext ==
    \/ \E i \in 1 .. Places : Accept(i) \/ Die(i) \/ Withdraw(i) \/ Release(i)
    \/ Store
    \/ BeginListing \/ LoadOwner \/ LoadPid \/ LoadUid \/ EndRow

IdentitySpec == IdentityInit /\ [][IdentityNext]_identityVars

-----------------------------------------------------------------------------
(* Properties. *)

\* A row of the list shows process and user of its session, and never those of an earlier
\* session in the same place: the owner is stored last and withdrawn before the place is
\* used again.  The one thing that may go wrong is that the session ends and its place is
\* taken while the row is being loaded; the row then has the owner that was with the
\* process or the user that is, of a session that came later, and a session that still
\* holds its place is never shown that way.
RowsNameSessions ==
    listing.next = "end" =>
        LET now == holder[listing.place] IN
        /\ row.pid >= row.owner /\ row.uid >= row.owner
        /\ now = row.owner => row.pid = now /\ row.uid = now
=============================================================================
