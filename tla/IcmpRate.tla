------------------------------ MODULE IcmpRate ------------------------------
(***************************************************************************)
(* The limit on the ICMP errors that the stack generates: the token bucket *)
(* of take_token and the order in which icmp_send_error consults it        *)
(* (src/icmp_error.c).  Time is the timer's cycle counter.  Every caller   *)
(* reads the clock after the previous call has returned, so that its       *)
(* values never decrease; any time may pass between two calls.             *)
(*                                                                         *)
(* What a packet holds decides whether it is answered at all: the checks   *)
(* before the bucket either suppress the error or let it pass.             *)
(***************************************************************************)
EXTENDS Integers, Sequences

CONSTANTS Burst,     \* ICMP_ERROR_BURST
          Interval,  \* rte_get_timer_hz() / ICMP_ERROR_RATE
          MaxTime    \* bound of the model: the clock stops here

ASSUME RateAssumption ==
    /\ Burst \in Nat \ {0} /\ Interval \in Nat \ {0} /\ MaxTime \in Nat

VARIABLES clock,     \* rte_get_timer_cycles()
          bucket,    \* struct icmp_error_state: initialized, last_refill, tokens
          outcome,   \* the counter that the last call at this time incremented
          granted    \* history: the times at which tokens were granted

rateVars == <<clock, bucket, outcome, granted>>

RateInit ==
    /\ clock \in 0..MaxTime
    /\ bucket = [initialized |-> FALSE, last_refill |-> 0, tokens |-> 0]
    /\ outcome = "none"
    /\ granted = <<>>

\* The bucket is full when it is first used.
Started(b, now) ==
    IF b.initialized THEN b
    ELSE [initialized |-> TRUE, last_refill |-> now, tokens |-> Burst]

\* A mutant: the part of an interval that has passed is forgotten.
RefilledFromNow(b, now) ==
    LET refill == (now - b.last_refill) \div Interval
    IN  IF refill = 0 THEN b
        ELSE [b EXCEPT !.tokens = IF refill >= Burst - @ THEN Burst ELSE @ + refill,
                       !.last_refill = now]

\* One token for each whole interval, never more than Burst; what is left of the
\* last interval counts towards the next token.
Refilled(b, now) ==
    LET elapsed == now - b.last_refill
        refill == elapsed \div Interval
    IN  IF refill = 0 THEN b
        ELSE [b EXCEPT !.tokens = IF refill >= Burst - @ THEN Burst ELSE @ + refill,
                       !.last_refill = now - (elapsed % Interval)]

\* take_token(): the bucket it leaves, and whether there was a token.
Consulted == Refilled(Started(bucket, clock), clock)
HasToken == Consulted.tokens > 0

\* icmp_send_error().  A packet that must not be answered costs no token; one that
\* may be costs one, also when no route or no buffer is found for the error.
Suppress ==
    /\ outcome' = "suppressed"
    /\ UNCHANGED <<clock, bucket, granted>>

Limit ==
    /\ ~HasToken
    /\ bucket' = Consulted
    /\ outcome' = "rate_limited"
    /\ UNCHANGED <<clock, granted>>

Answer ==
    /\ HasToken
    /\ bucket' = [Consulted EXCEPT !.tokens = @ - 1]
    /\ granted' = Append(granted, clock)
    /\ outcome' \in {"generated", "failed"}
    /\ UNCHANGED clock

Pass ==
    /\ clock < MaxTime
    /\ clock' \in clock + 1 .. MaxTime
    /\ outcome' = "none"
    /\ UNCHANGED <<bucket, granted>>

RateNext == Suppress \/ Limit \/ Answer \/ Pass

RateSpec == RateInit /\ [][RateNext]_rateVars

-----------------------------------------------------------------------------
(* Properties. *)

\* Errors are granted at the configured rate, not more and not less.  In whatever
\* window of time one looks, no more are granted than the burst, one for each interval
\* in the window, and one for the interval that had begun before it (take_token keeps
\* the remainder of an interval).  And one is refused only at the limit: since some
\* earlier grant the burst and one for each whole interval have been granted, so no
\* part of an interval is lost, however the calls fall on the clock.
RateKept ==
    /\ \A i, j \in DOMAIN granted : i <= j =>
           j - i + 1 <= Burst + (granted[j] - granted[i]) \div Interval + 1
    /\ outcome = "rate_limited" =>
           \E i \in DOMAIN granted :
               Len(granted) - i + 1 >= Burst + (clock - granted[i]) \div Interval
=============================================================================
