------------------------------ MODULE Transfer ------------------------------
(***************************************************************************)
(* How a call of the client library moves its bytes: transfer() and        *)
(* wait_socket() of src/client.c.  A message goes out and its answer comes *)
(* in piece by piece, through a socket that does not block; poll() waits   *)
(* for it to be ready, is interrupted by signals, and wakes up for         *)
(* nothing.  One point in time, fixed when the request begins, is the      *)
(* deadline of all its pieces.                                             *)
(*                                                                         *)
(* The daemon and the operating system do what they like: they decide when *)
(* the socket is ready, how much it takes or gives, and what fails.        *)
(* ClientLibrary has the rest of a call, and takes its end as a step that  *)
(* comes in time; this module says why it does.                            *)
(***************************************************************************)
EXTENDS Naturals, FiniteSetsExt

CONSTANTS Timeout,     \* IPC_TIMEOUT_MS, in ticks
          HeaderSize,  \* IPC_HEADER_SIZE
          MaxPayload   \* bound: bytes of a payload

ASSUME TransferAssumption == {Timeout, HeaderSize} \subseteq Nat \ {0} /\ MaxPayload \in Nat

VARIABLES stage,    \* what the call is at: none, connect, or one of four transfers
          size,     \* bytes of that transfer still to move
          payload,  \* length of the payload that follows the header under way
          at,       \* where transfer() is: wait_socket's loop (wait), poll, or the system call (move)
          left,     \* time until the deadline
          timer     \* time until poll() returns

transferVars == <<stage, size, payload, at, left, timer>>

Stages == {"none", "connect", "header out", "payload out", "header in", "payload in"}

NoCallUnderWay == stage = "none" /\ size = 0 /\ payload = 0 /\ at = "wait" /\ left = 0 /\ timer = 0

TransferInit == NoCallUnderWay

\* request() and ps_init() return: the session is as it should be, or broken.
Returned ==
    /\ stage' = "none" /\ size' = 0 /\ payload' = 0
    /\ at' = "wait" /\ left' = 0 /\ timer' = 0

\* request(): the deadline is fixed, and the header is sent first.
Request(length) ==
    /\ stage' = "header out" /\ size' = HeaderSize /\ payload' = length
    /\ at' = "wait" /\ left' = Timeout /\ timer' = 0

BeginRequest == stage = "none" /\ \E length \in 0 .. MaxPayload : Request(length)

\* ps_init(): the connection is not there at once, and has a deadline of its own.
BeginConnect ==
    /\ stage = "none"
    /\ stage' = "connect" /\ left' = Timeout
    /\ UNCHANGED <<size, payload, at, timer>>

\* A mutant: every poll() has a timeout of its own, and there is no deadline.
WaitSocketAnew ==
    /\ stage # "none" /\ at = "wait"
    /\ at' = "poll" /\ timer' = Timeout
    /\ UNCHANGED <<stage, size, payload, left>>

\* wait_socket(), the head of its loop: the clock is read, and poll() is given the time
\* that remains until the deadline.
WaitSocket ==
    /\ stage # "none" /\ at = "wait"
    /\ IF left = 0 THEN Returned
       ELSE at' = "poll" /\ timer' = left /\ UNCHANGED <<stage, size, payload, left>>

\* poll() is interrupted, or returns neither what was waited for nor an error.
PollInterrupted ==
    /\ at = "poll"
    /\ at' = "wait" /\ timer' = 0
    /\ UNCHANGED <<stage, size, payload, left>>

\* poll() runs out of time.
PollExpired == at = "poll" /\ timer = 0 /\ Returned

\* poll() fails, or the connection has; the connection attempt has failed (SO_ERROR).
PollFails == at = "poll" /\ Returned

\* The socket is ready.  A connection that is made goes on with the first request.
PollReady ==
    /\ at = "poll"
    /\ IF stage = "connect" THEN Request(0)
       ELSE at' = "move" /\ timer' = 0 /\ UNCHANGED <<stage, size, payload, left>>

\* transfer(): send() or recv() has nothing to do after all, or is interrupted.
MoveNothing ==
    /\ at = "move"
    /\ at' = "wait"
    /\ UNCHANGED <<stage, size, payload, left, timer>>

\* transfer(): an error, or the end of the stream; request(): a bad header.
MoveFails == at = "move" /\ Returned

\* transfer(): some of the bytes are moved, but not all.
MoveSome ==
    /\ at = "move"
    /\ \E n \in 1 .. size - 1 : size' = size - n
    /\ at' = "wait"
    /\ UNCHANGED <<stage, payload, left, timer>>

\* The next transfer of the call.
Proceed(next, bytes, following) ==
    /\ stage' = next /\ size' = bytes /\ payload' = following
    /\ at' = "wait"
    /\ UNCHANGED <<left, timer>>

\* transfer() returns, and request() goes on.
MoveAll ==
    /\ at = "move"
    /\ \/ stage = "header out" /\ payload > 0 /\ Proceed("payload out", payload, 0)
       \/ stage = "header out" /\ payload = 0 /\ Proceed("header in", HeaderSize, 0)
       \/ stage = "payload out" /\ Proceed("header in", HeaderSize, 0)
       \/ stage = "header in" /\ \E n \in 1 .. MaxPayload : Proceed("payload in", n, 0)
       \/ stage = "header in" /\ Returned
       \/ stage = "payload in" /\ Returned

\* Time passes.
Tick ==
    /\ left > 0 \/ timer > 0
    /\ left' = Max({left - 1, 0}) /\ timer' = Max({timer - 1, 0})
    /\ UNCHANGED <<stage, size, payload, at>>

Move == MoveNothing \/ MoveFails \/ MoveSome \/ MoveAll

TransferNext ==
    \/ BeginRequest \/ BeginConnect
    \/ WaitSocket \/ PollInterrupted \/ PollExpired \/ PollFails \/ PollReady
    \/ Move \/ Tick

\* The process runs, poll() returns when its time is over, and time passes.  That the
\* daemon answers, that it stops sending, or that signals stop is not assumed.
TransferFairness ==
    /\ WF_transferVars(WaitSocket) /\ WF_transferVars(PollExpired) /\ WF_transferVars(Move)
    /\ WF_transferVars(Tick)

TransferSpec == TransferInit /\ [][TransferNext]_transferVars /\ TransferFairness

-----------------------------------------------------------------------------
(* Properties. *)

\* Every call returns, whatever the daemon and the signals do: if the socket moves one
\* byte at a time, if it is ready and then moves nothing, and if poll() is interrupted
\* again and again before its time is over (wait_socket's deadline is a point in time,
\* shared by all the transfers of a request).
CallsReturn == stage # "none" ~> stage = "none"
=============================================================================
