---------------------------- MODULE TablesProofs ----------------------------
(***************************************************************************)
(* The safety properties of two of the worker's tables, for every size and *)
(* every content: the ICMP error budget (IcmpRate), and the handles, ports *)
(* and connections of the socket table (SocketTable).                      *)
(***************************************************************************)
EXTENDS SocketTable, IcmpRate, ModularArithmetic

-----------------------------------------------------------------------------
(* The ICMP error budget. *)

\* A token that is left, or was granted since the i-th grant, was in the full bucket
\* or came with an interval since then; and since some grant all tokens of a full
\* bucket and one for each interval up to the last refill have been granted or are
\* left.  A call that was refused found none, less than an interval after the refill.
RateInv ==
    /\ clock \in Nat
    /\ bucket \in [initialized : BOOLEAN, last_refill : Nat, tokens : 0 .. Burst]
    /\ bucket.last_refill <= clock
    /\ granted \in Seq(Nat)
    /\ \A i \in DOMAIN granted : granted[i] <= clock
    /\ granted # <<>> => bucket.initialized
    /\ \A i, j \in DOMAIN granted : i <= j =>
           j - i + 1 <= Burst + (granted[j] - granted[i]) \div Interval + 1
    /\ \A i \in DOMAIN granted :
           Len(granted) - i + 1 + bucket.tokens
               <= Burst + (bucket.last_refill - granted[i]) \div Interval + 1
    /\ bucket.initialized =>
           \E i \in DOMAIN granted, k \in 0 .. Len(granted) :
               /\ bucket.tokens = Burst - (Len(granted) - i + 1) + k
               /\ bucket.last_refill - Interval * k <= granted[i]
    /\ outcome = "rate_limited" =>
           bucket.initialized /\ bucket.tokens = 0 /\ clock - bucket.last_refill < Interval

(* What take_token() finds: the bucket starts full, and later gains one    *)
(* token for each whole interval up to the limit, while the last refill    *)
(* moves on by whole intervals to less than one before now.                *)
LEMMA ConsultedBucket ==
    ASSUME RateInv
    PROVE  /\ Consulted \in [initialized : {TRUE}, last_refill : Nat, tokens : 0 .. Burst]
           /\ Consulted.last_refill <= clock
           /\ clock - Consulted.last_refill < Interval
           /\ ~bucket.initialized => Consulted.tokens = Burst
           /\ bucket.initialized =>
                  \E k \in Nat :
                      /\ Consulted.last_refill = bucket.last_refill + Interval * k
                      /\ Consulted.tokens <= bucket.tokens + k
                      /\ Consulted.tokens \in {Burst, bucket.tokens + k}
  <1> DEFINE b == Started(bucket, clock)
             elapsed == clock - b.last_refill
             refill == elapsed \div Interval
             rest == elapsed % Interval
  <1>0. /\ clock \in Nat /\ bucket.last_refill <= clock
        /\ bucket \in [initialized : BOOLEAN, last_refill : Nat, tokens : 0 .. Burst]
    BY Zenon DEF RateInv
  <1>1. /\ b \in [initialized : {TRUE}, last_refill : Nat, tokens : 0 .. Burst]
        /\ b.last_refill <= clock
        /\ bucket.initialized => b = bucket
        /\ ~bucket.initialized => b.tokens = Burst /\ b.last_refill = clock
    <2>1. Burst \in 0 .. Burst
      BY RateAssumption
    <2>2. CASE bucket.initialized
      BY <1>0, <2>2, Zenon DEF Started
    <2>3. CASE ~bucket.initialized
      <3>1. b = [initialized |-> TRUE, last_refill |-> clock, tokens |-> Burst]
        BY <2>3, Zenon DEF Started
      <3> HIDE DEF b
      <3> QED
        BY <1>0, <2>1, <2>3, <3>1
    <2> QED
      BY <2>2, <2>3, Zenon
  <1>2. Consulted = IF refill = 0 THEN b
                    ELSE [b EXCEPT !.tokens = IF refill >= Burst - @ THEN Burst ELSE @ + refill,
                                   !.last_refill = clock - rest]
    BY Zenon DEF Consulted, Refilled
  <1> HIDE DEF b
  <1>3. clock \in Nat /\ Interval \in Nat \ {0} /\ Burst \in Nat /\ elapsed \in Nat
    <2>1. b.last_refill \in Nat
      BY <1>1, Zenon
    <2> QED
      BY <1>0, <1>1, <2>1, RateAssumption
  <1>4. elapsed = clock - b.last_refill
    BY Zenon
  <1> HIDE DEF elapsed
  <1>5. refill \in Int /\ rest \in 0 .. Interval - 1 /\ elapsed = Interval * refill + rest
    BY <1>3, DivMod, ModRange
  <1>6. refill \in Nat
    <2>1. 0 \div Interval = 0
      BY <1>3
    <2>2. 0 \div Interval <= refill
      BY <1>3, DivMonotone
    <2> QED
      BY <2>1, <2>2, <1>5
  <1> HIDE DEF refill, rest
  <1>7. CASE refill = 0
    <2>1. Consulted = b /\ elapsed < Interval
      BY <1>2, <1>3, <1>5, <1>7
    <2>2. clock - b.last_refill < Interval
      BY <2>1, <1>4, Zenon
    <2>3. ASSUME bucket.initialized
          PROVE  \E k \in Nat :
                      /\ Consulted.last_refill = bucket.last_refill + Interval * k
                      /\ Consulted.tokens <= bucket.tokens + k
                      /\ Consulted.tokens \in {Burst, bucket.tokens + k}
      <3>1. /\ Consulted.last_refill = bucket.last_refill + Interval * 0
            /\ Consulted.tokens <= bucket.tokens + 0
            /\ Consulted.tokens = bucket.tokens + 0
        BY <1>1, <1>3, <2>1, <2>3
      <3> QED
        BY <3>1, Zenon
    <2> QED
      BY <1>1, <2>1, <2>2, <2>3, Zenon
  <1>8. CASE refill # 0
    <2>1. /\ Consulted.initialized
          /\ Consulted.last_refill = clock - rest
          /\ Consulted.tokens = IF refill >= Burst - b.tokens THEN Burst ELSE b.tokens + refill
          /\ Consulted = [initialized |-> TRUE, last_refill |-> Consulted.last_refill,
                          tokens |-> Consulted.tokens]
      BY <1>1, <1>2, <1>8, Zenon
    <2>2. clock - rest = b.last_refill + Interval * refill
      <3> DEFINE p == Interval * refill
      <3>1. p \in Int /\ elapsed = p + rest
        BY <1>3, <1>5
      <3> HIDE DEF p
      <3>2. b.last_refill \in Nat
        BY <1>1, Zenon
      <3>3. rest \in Nat /\ clock \in Nat
        BY <1>3, <1>5
      <3>4. clock - b.last_refill = p + rest
        BY <1>4, <3>1, Zenon
      <3>5. clock - rest = b.last_refill + p
        BY <3>1, <3>2, <3>3, <3>4
      <3> QED
        BY <3>5, Zenon DEF p
    <2>3. clock - rest \in Nat /\ clock - (clock - rest) < Interval
      <3>1. Interval * refill \in Nat
        BY <1>3, <1>6
      <3> QED
        BY <2>2, <3>1, <1>1, <1>3, <1>5
    <2>4. /\ Consulted.tokens \in 0 .. Burst
          /\ Consulted.tokens <= b.tokens + refill
          /\ Consulted.tokens \in {Burst, b.tokens + refill}
      BY <2>1, <1>1, <1>3, <1>6
    <2>5. bucket.initialized
      BY <1>1, <1>3, <1>5, <1>6, <1>4, <1>8
    <2>6. b = bucket
      BY <1>1, <2>5, Zenon
    <2>7. \E k \in Nat :
             /\ Consulted.last_refill = bucket.last_refill + Interval * k
             /\ Consulted.tokens <= bucket.tokens + k
             /\ Consulted.tokens \in {Burst, bucket.tokens + k}
      BY <1>6, <2>1, <2>2, <2>4, <2>6, Zenon
    <2>8. /\ Consulted \in [initialized : {TRUE}, last_refill : Nat, tokens : 0 .. Burst]
          /\ Consulted.last_refill <= clock
          /\ clock - Consulted.last_refill < Interval
      <3>1. rest \in Nat /\ clock \in Nat
        BY <1>3, <1>5
      <3>2. clock - rest <= clock
        BY <3>1
      <3> QED
        BY <2>1, <2>3, <2>4, <3>2, Zenon
    <2> QED
      BY <2>5, <2>7, <2>8, Zenon
  <1> QED
    BY <1>7, <1>8, Zenon

(* The bounds of the invariant hold of the bucket that take_token() finds; *)
(* it is full when they give no earlier grant.                             *)
LEMMA ConsultedBounds ==
    ASSUME RateInv
    PROVE  /\ \A i \in DOMAIN granted :
                  Len(granted) - i + 1 + Consulted.tokens
                      <= Burst + (Consulted.last_refill - granted[i]) \div Interval + 1
           /\ \/ Consulted.tokens = Burst
              \/ \E i \in DOMAIN granted, k \in 0 .. Len(granted) :
                     /\ Consulted.tokens = Burst - (Len(granted) - i + 1) + k
                     /\ Consulted.last_refill - Interval * k <= granted[i]
  <1> DEFINE n == Len(granted)
             c == Consulted
             l == bucket.last_refill
  <1>1. /\ clock \in Nat /\ granted \in Seq(Nat) /\ l \in Nat
        /\ bucket.tokens \in Nat /\ bucket.initialized \in BOOLEAN
        /\ granted # <<>> => bucket.initialized
    BY DEF RateInv
  <1>2. \A i \in DOMAIN granted : n - i + 1 + bucket.tokens <= Burst + (l - granted[i]) \div Interval + 1
    BY Zenon DEF RateInv
  <1>3. bucket.initialized =>
           \E i \in DOMAIN granted, k \in 0 .. n :
               /\ bucket.tokens = Burst - (n - i + 1) + k
               /\ l - Interval * k <= granted[i]
    BY Zenon DEF RateInv
  <1>4. /\ Burst \in Nat /\ Interval \in Nat \ {0}
        /\ n \in Nat /\ \A i \in DOMAIN granted : i \in 1 .. n /\ granted[i] \in Nat
    BY <1>1, RateAssumption
  <1>5. /\ c.tokens \in 0 .. Burst /\ c.last_refill \in Nat
        /\ ~bucket.initialized => c.tokens = Burst
        /\ bucket.initialized =>
               \E k \in Nat : /\ c.last_refill = l + Interval * k
                              /\ c.tokens <= bucket.tokens + k
                              /\ c.tokens \in {Burst, bucket.tokens + k}
    BY ConsultedBucket, Zenon
  <1> HIDE DEF c, l, n
  <1>6. CASE ~bucket.initialized
    <2>1. DOMAIN granted = {}
      BY <1>1, <1>6
    <2> QED
      BY <1>5, <1>6, <2>1, Zenon DEF c
  <1>7. CASE bucket.initialized
    <2>1. PICK k \in Nat : /\ c.last_refill = l + Interval * k
                           /\ c.tokens <= bucket.tokens + k
                           /\ c.tokens \in {Burst, bucket.tokens + k}
      BY <1>5, <1>7, Zenon
    <2>2. ASSUME NEW i \in DOMAIN granted
          PROVE  n - i + 1 + c.tokens <= Burst + (c.last_refill - granted[i]) \div Interval + 1
      <3> DEFINE g == granted[i]
                 d == (l - g) \div Interval
      <3>1. g \in Nat /\ i \in Nat /\ l - g \in Int
        BY <1>1, <1>4
      <3>2. n - i + 1 + bucket.tokens <= Burst + d + 1
        BY <1>2, Zenon
      <3> HIDE DEF g
      <3>3. (l - g + Interval * k) \div Interval = d + k
        BY <1>4, <3>1, DivShift
      <3>4. d \in Int
        BY <1>4, <3>1, DivMod, Zenon
      <3>5. c.last_refill - g = l - g + Interval * k
        <4> DEFINE p == Interval * k
        <4>1. p \in Int /\ c.last_refill = l + p
          BY <1>4, <2>1
        <4> HIDE DEF p
        <4>2. c.last_refill - g = l - g + p
          BY <1>1, <3>1, <4>1
        <4> QED
          BY <4>2, Zenon DEF p
      <3> HIDE DEF d
      <3>6. n - i + 1 + c.tokens <= Burst + (d + k) + 1
        <4>1. c.tokens \in Nat /\ bucket.tokens \in Nat /\ c.tokens <= bucket.tokens + k
          BY <1>1, <1>5, <2>1
        <4>2. n \in Nat /\ i \in Nat /\ Burst \in Nat
          BY <1>4, <3>1, Zenon
        <4> QED
          BY <3>2, <3>4, <4>1, <4>2
      <3> QED
        BY <3>3, <3>5, <3>6, Zenon DEF g
    <2>3. ASSUME c.tokens # Burst
          PROVE  \E i \in DOMAIN granted, j \in 0 .. n :
                     /\ c.tokens = Burst - (n - i + 1) + j
                     /\ c.last_refill - Interval * j <= granted[i]
      <3>1. PICK i \in DOMAIN granted, j \in 0 .. n :
                /\ bucket.tokens = Burst - (n - i + 1) + j
                /\ l - Interval * j <= granted[i]
        BY <1>3, <1>7, Zenon
      <3>2. c.tokens = Burst - (n - i + 1) + (j + k)
        BY <1>4, <2>1, <2>3, <3>1
      <3>3. j + k \in 0 .. n
        BY <1>4, <1>5, <3>2
      <3>4. c.last_refill - Interval * (j + k) <= granted[i]
        <4>1. Interval * (j + k) = Interval * j + Interval * k
          BY <1>4
        <4> DEFINE p == Interval * j
                   q == Interval * k
        <4>2. p \in Int /\ q \in Int
          BY <1>4
        <4>3. c.last_refill = l + q /\ l - p <= granted[i] /\ granted[i] \in Nat
          BY <1>4, <2>1, <3>1, Zenon
        <4> HIDE DEF p, q
        <4>4. c.last_refill - (p + q) <= granted[i]
          BY <1>1, <4>2, <4>3
        <4> QED
          BY <4>1, <4>4, Zenon DEF p, q
      <3> QED
        BY <3>2, <3>3, <3>4, Zenon
    <2> QED
      BY <2>2, <2>3, Zenon DEF c, n
  <1> QED
    BY <1>1, <1>6, <1>7, Zenon

(* Granting a token keeps the bounds.                                      *)
LEMMA AnswerKeeps ==
    ASSUME RateInv, Answer
    PROVE  RateInv'
  <1> DEFINE n == Len(granted)
             l == Consulted.last_refill
             u == Consulted.tokens
  <1>1. /\ clock \in Nat /\ granted \in Seq(Nat) /\ n \in Nat
        /\ DOMAIN granted = 1 .. n
        /\ \A i \in 1 .. n : granted[i] \in Nat /\ granted[i] <= clock
    <2>1. /\ clock \in Nat /\ granted \in Seq(Nat)
          /\ \A i \in DOMAIN granted : granted[i] <= clock
      BY Zenon DEF RateInv
    <2> QED
      BY <2>1
  <1>2. \A i, j \in 1 .. n : i <= j => j - i + 1 <= Burst + (granted[j] - granted[i]) \div Interval + 1
    BY <1>1, Zenon DEF RateInv
  <1>3. /\ Consulted \in [initialized : {TRUE}, last_refill : Nat, tokens : 0 .. Burst]
        /\ l \in Nat /\ l <= clock /\ clock - l < Interval
    BY ConsultedBucket, Zenon
  <1>4. /\ \A i \in 1 .. n : n - i + 1 + u <= Burst + (l - granted[i]) \div Interval + 1
        /\ \/ u = Burst
           \/ \E i \in 1 .. n, k \in 0 .. n : u = Burst - (n - i + 1) + k /\ l - Interval * k <= granted[i]
    BY ConsultedBounds, <1>1, Zenon
  <1>5. u \in 1 .. Burst /\ Burst \in Nat \ {0} /\ Interval \in Nat \ {0}
    BY <1>3, RateAssumption DEF Answer, HasToken
  <1>6. /\ clock' = clock /\ outcome' # "rate_limited"
        /\ granted' \in Seq(Nat) /\ Len(granted') = n + 1 /\ DOMAIN granted' = 1 .. n + 1
        /\ granted'[n + 1] = clock /\ \A i \in 1 .. n : granted'[i] = granted[i]
    BY <1>1 DEF Answer
  <1>7. /\ bucket' \in [initialized : BOOLEAN, last_refill : Nat, tokens : 0 .. Burst]
        /\ bucket'.initialized /\ bucket'.last_refill = l /\ bucket'.tokens = u - 1
    <2>1. bucket' = [initialized |-> TRUE, last_refill |-> l, tokens |-> u - 1]
      BY <1>3, Zenon DEF Answer
    <2> QED
      BY <1>3, <1>5, <2>1
  <1> HIDE DEF n, l, u
  <1>8. \A i \in 1 .. n : (l - granted[i]) \div Interval \in Int /\ (clock - granted[i]) \div Interval \in Int
                           /\ (l - granted[i]) \div Interval <= (clock - granted[i]) \div Interval
    <2> SUFFICES ASSUME NEW i \in 1 .. n
                 PROVE  /\ (l - granted[i]) \div Interval \in Int
                        /\ (clock - granted[i]) \div Interval \in Int
                        /\ (l - granted[i]) \div Interval <= (clock - granted[i]) \div Interval
      BY Zenon
    <2>1. l - granted[i] \in Int /\ clock - granted[i] \in Int /\ l - granted[i] <= clock - granted[i]
      BY <1>1, <1>3
    <2> QED
      BY <1>5, <2>1, DivMod, DivMonotone, Zenon
  <1>9. ASSUME NEW i \in 1 .. n + 1, NEW j \in 1 .. n + 1, i <= j
        PROVE  j - i + 1 <= Burst + (granted'[j] - granted'[i]) \div Interval + 1
    <2>1. CASE j # n + 1
      <3>1. i \in 1 .. n /\ j \in 1 .. n
        BY <1>1, <1>9, <2>1
      <3> QED
        BY <1>2, <1>6, <1>9, <3>1, Zenon
    <2>2. CASE j = n + 1 /\ i # n + 1
      <3>1. i \in 1 .. n
        BY <1>1, <2>2
      <3> DEFINE e == (l - granted[i]) \div Interval
                 d == (clock - granted[i]) \div Interval
      <3>2. e \in Int /\ d \in Int /\ e <= d /\ n - i + 1 + u <= Burst + e + 1
        BY <1>4, <1>8, <3>1, Zenon
      <3>3. (granted'[j] - granted'[i]) \div Interval = d
        BY <1>6, <2>2, <3>1, Zenon
      <3> HIDE DEF d, e
      <3>4. j - i + 1 <= Burst + d + 1
        BY <1>1, <1>5, <2>2, <3>1, <3>2
      <3> QED
        BY <3>3, <3>4, Zenon
    <2>3. CASE j = n + 1 /\ i = n + 1
      <3>1. granted'[j] - granted'[i] = 0
        BY <1>1, <1>6, <2>3
      <3>2. 0 \div Interval = 0
        BY <1>5
      <3> QED
        BY <1>1, <1>5, <2>3, <3>1, <3>2
    <2> QED
      BY <2>1, <2>2, <2>3, Zenon
  <1>10. ASSUME NEW i \in 1 .. n + 1
         PROVE  (n + 1) - i + 1 + (u - 1) <= Burst + (l - granted'[i]) \div Interval + 1
    <2>1. CASE i # n + 1
      <3>1. i \in 1 .. n
        BY <1>1, <2>1
      <3> DEFINE e == (l - granted[i]) \div Interval
      <3>2. e \in Int /\ n - i + 1 + u <= Burst + e + 1 /\ (l - granted'[i]) \div Interval = e
        BY <1>4, <1>6, <1>8, <3>1, Zenon
      <3> HIDE DEF e
      <3>3. (n + 1) - i + 1 + (u - 1) <= Burst + e + 1
        BY <1>1, <1>5, <3>1, <3>2
      <3> QED
        BY <3>2, <3>3, Zenon
    <2>2. CASE i = n + 1
      <3> DEFINE e == (l - clock) \div Interval
      <3>1. (0 - Interval) \div Interval = -1
        <4>1. 0 - Interval = Interval * (-1) + 0 /\ 0 \in 0 .. Interval - 1
          BY <1>5
        <4> QED
          BY <1>5, <4>1, DivUnique
      <3>2. l - clock \in Int /\ 0 - Interval \in Int /\ 0 - Interval <= l - clock
        BY <1>1, <1>3, <1>5
      <3>3. e \in Int /\ (0 - Interval) \div Interval <= e
        BY <1>5, <3>2, DivMod, DivMonotone, Zenon
      <3>4. (l - granted'[i]) \div Interval = e
        BY <1>6, <2>2, Zenon
      <3> HIDE DEF e
      <3>5. (n + 1) - i + 1 + (u - 1) <= Burst + e + 1
        BY <1>1, <1>5, <2>2, <3>1, <3>3
      <3> QED
        BY <3>4, <3>5, Zenon
    <2> QED
      BY <2>1, <2>2, Zenon
  <1>11. \E i \in 1 .. n + 1, k \in 0 .. n + 1 :
            u - 1 = Burst - ((n + 1) - i + 1) + k /\ l - Interval * k <= granted'[i]
    <2>1. CASE u = Burst
      <3>1. u - 1 = Burst - ((n + 1) - (n + 1) + 1) + 0 /\ l - Interval * 0 <= granted'[n + 1]
        BY <1>1, <1>3, <1>5, <1>6, <2>1
      <3> QED
        BY <1>1, <3>1
    <2>2. CASE u # Burst
      <3>1. PICK i \in 1 .. n, k \in 0 .. n : u = Burst - (n - i + 1) + k /\ l - Interval * k <= granted[i]
        BY <1>4, <2>2, Zenon
      <3>2. u - 1 = Burst - ((n + 1) - i + 1) + k
        BY <1>1, <1>5, <3>1
      <3>3. l - Interval * k <= granted'[i]
        BY <1>6, <3>1, Zenon
      <3> QED
        BY <1>1, <3>2, <3>3
    <2> QED
      BY <2>1, <2>2, Zenon
  <1>12. \A i \in 1 .. n + 1 : granted'[i] <= clock
    <2> SUFFICES ASSUME NEW i \in 1 .. n + 1 PROVE granted'[i] <= clock
      BY Zenon
    <2>1. i = n + 1 \/ i \in 1 .. n
      BY <1>1
    <2> QED
      BY <1>1, <1>6, <2>1
  <1> QED
    BY <1>1, <1>3, <1>6, <1>7, <1>9, <1>10, <1>11, <1>12, Zenon DEF RateInv

(* Refusing one leaves an empty bucket, less than an interval after the    *)
(* last refill.                                                            *)
LEMMA LimitKeeps ==
    ASSUME RateInv, Limit
    PROVE  RateInv'
  <1>1. /\ Consulted \in [initialized : {TRUE}, last_refill : Nat, tokens : 0 .. Burst]
        /\ Consulted.last_refill <= clock /\ clock - Consulted.last_refill < Interval
    BY ConsultedBucket, Zenon
  <1>2. Consulted.tokens = 0 /\ Consulted.initialized
    <2>1. Consulted.tokens \in 0 .. Burst /\ Consulted.initialized
      BY <1>1, Zenon
    <2>2. ~(Consulted.tokens > 0)
      BY Zenon DEF Limit, HasToken
    <2> QED
      BY <2>1, <2>2, RateAssumption
  <1>3. bucket' = Consulted /\ clock' = clock /\ granted' = granted
    BY Zenon DEF Limit
  <1>4. bucket' \in [initialized : BOOLEAN, last_refill : Nat, tokens : 0 .. Burst]
    BY <1>1, <1>3, Zenon
  <1>5. 0 # Burst
    BY RateAssumption, Zenon
  <1> DEFINE b == Consulted
  <1>6. /\ \A i \in DOMAIN granted :
               Len(granted) - i + 1 + b.tokens <= Burst + (b.last_refill - granted[i]) \div Interval + 1
        /\ \E i \in DOMAIN granted, k \in 0 .. Len(granted) :
               /\ b.tokens = Burst - (Len(granted) - i + 1) + k
               /\ b.last_refill - Interval * k <= granted[i]
    BY <1>2, <1>5, ConsultedBounds, Zenon
  <1>7. /\ clock \in Nat /\ granted \in Seq(Nat)
        /\ \A i \in DOMAIN granted : granted[i] <= clock
        /\ \A i, j \in DOMAIN granted : i <= j =>
               j - i + 1 <= Burst + (granted[j] - granted[i]) \div Interval + 1
    BY Zenon DEF RateInv
  <1> HIDE DEF b
  <1>8. bucket' = b /\ b.tokens = 0 /\ b.initialized /\ b.last_refill <= clock
          /\ clock - b.last_refill < Interval
    BY <1>1, <1>2, <1>3, Zenon DEF b
  <1> QED
    BY <1>3, <1>4, <1>6, <1>7, <1>8, Zenon DEF RateInv

(* The budget's invariant holds in every reachable state.                  *)
THEOREM RateInvariant == RateSpec => []RateInv
  <1>1. RateInit => RateInv
    <2> SUFFICES ASSUME RateInit PROVE RateInv
      BY Zenon
    <2>1. clock \in Nat /\ granted = <<>> /\ outcome = "none" /\ 0 \in 0 .. Burst
          /\ bucket = [initialized |-> FALSE, last_refill |-> 0, tokens |-> 0]
      BY RateAssumption DEF RateInit
    <2>2. DOMAIN granted = {} /\ granted \in Seq(Nat)
      BY <2>1
    <2>3. /\ bucket \in [initialized : BOOLEAN, last_refill : Nat, tokens : 0 .. Burst]
          /\ bucket.last_refill <= clock /\ ~bucket.initialized
      BY <2>1
    <2> QED
      BY <2>1, <2>2, <2>3, Zenon DEF RateInv
  <1>2. RateInv /\ [RateNext]_rateVars => RateInv'
    <2> SUFFICES ASSUME RateInv, [RateNext]_rateVars PROVE RateInv'
      BY Zenon
    <2>1. CASE Suppress
      <3>1. clock' = clock /\ bucket' = bucket /\ granted' = granted /\ outcome' # "rate_limited"
        BY <2>1, Zenon DEF Suppress
      <3> QED
        BY <3>1, Zenon DEF RateInv
    <2>2. CASE Pass
      <3>1. clock' \in Nat /\ clock' >= clock /\ outcome' # "rate_limited"
              /\ bucket' = bucket /\ granted' = granted
        <4>1. clock \in Nat
          BY Zenon DEF RateInv
        <4> QED
          BY <2>2, <4>1, RateAssumption DEF Pass
      <3>2. /\ clock \in Nat /\ granted \in Seq(Nat)
            /\ \A i \in DOMAIN granted : granted[i] <= clock
            /\ bucket.last_refill <= clock
            /\ bucket \in [initialized : BOOLEAN, last_refill : Nat, tokens : 0 .. Burst]
        BY Zenon DEF RateInv
      <3>3. \A i \in DOMAIN granted : granted[i] <= clock'
        BY <3>1, <3>2
      <3>4. bucket.last_refill <= clock'
        BY <3>1, <3>2
      <3> QED
        BY <3>1, <3>3, <3>4, Zenon DEF RateInv
    <2>3. CASE UNCHANGED rateVars
      <3>1. clock' = clock /\ bucket' = bucket /\ granted' = granted /\ outcome' = outcome
        BY <2>3, Zenon DEF rateVars
      <3> QED
        BY <3>1, Zenon DEF RateInv
    <2> QED
      BY <2>1, <2>2, <2>3, AnswerKeeps, LimitKeeps, Zenon DEF RateNext
  <1> QED
    BY <1>1, <1>2, PTL DEF RateSpec

(* Errors are granted at the configured rate, not more and not less        *)
(* (take_token), for every burst and interval.                             *)
THEOREM ErrorsKeepTheRate == RateSpec => []RateKept
  <1>1. RateInv => RateKept
    <2> SUFFICES ASSUME RateInv PROVE RateKept
      BY Zenon
    <2>1. \A i, j \in DOMAIN granted : i <= j =>
              j - i + 1 <= Burst + (granted[j] - granted[i]) \div Interval + 1
      BY Zenon DEF RateInv
    <2>2. ASSUME outcome = "rate_limited"
          PROVE  \E i \in DOMAIN granted :
                     Len(granted) - i + 1 >= Burst + (clock - granted[i]) \div Interval
      <3> DEFINE n == Len(granted)
                 l == bucket.last_refill
      <3>1. /\ clock \in Nat /\ granted \in Seq(Nat) /\ l <= clock
            /\ bucket \in [initialized : BOOLEAN, last_refill : Nat, tokens : 0 .. Burst]
            /\ bucket.tokens = 0 /\ clock - l < Interval
        BY <2>2, Zenon DEF RateInv
      <3>2. \E i \in DOMAIN granted, k \in 0 .. n :
                bucket.tokens = Burst - (n - i + 1) + k /\ l - Interval * k <= granted[i]
        BY <2>2, Zenon DEF RateInv
      <3>3. PICK i \in DOMAIN granted, k \in 0 .. n :
                0 = Burst - (n - i + 1) + k /\ l - Interval * k <= granted[i]
        BY <3>1, <3>2, Zenon
      <3>4. /\ l \in Nat /\ n \in Nat /\ i \in Nat /\ k \in Nat /\ granted[i] \in Nat
            /\ Burst \in Nat /\ Interval \in Nat \ {0}
        BY <3>1, RateAssumption
      <3> DEFINE g == granted[i]
                 d == (clock - g) \div Interval
      <3>5. g \in Nat /\ l - Interval * k <= g
        BY <3>3, <3>4, Zenon
      <3> HIDE DEF g, l, n
      <3>6. (clock - l) \div Interval = 0
        <4>1. clock - l \in 0 .. Interval - 1 /\ clock - l = Interval * 0 + (clock - l)
          BY <3>1, <3>4
        <4> QED
          BY <3>4, <4>1, DivUnique
      <3>7. (clock - l + Interval * k) \div Interval = 0 + k
        BY <3>1, <3>4, <3>6, DivShift
      <3>8. clock - g <= clock - l + Interval * k
        <4> DEFINE p == Interval * k
        <4>1. p \in Int /\ l - p <= g
          BY <3>4, <3>5
        <4> HIDE DEF p
        <4>2. clock - g <= clock - l + p
          BY <3>1, <3>4, <3>5, <4>1
        <4> QED
          BY <4>2, Zenon DEF p
      <3>9. d \in Int /\ d <= (clock - l + Interval * k) \div Interval
        <4>1. clock - g \in Int /\ clock - l + Interval * k \in Int
          BY <3>1, <3>4, <3>5
        <4> QED
          BY <3>4, <3>8, <4>1, DivMod, DivMonotone, Zenon
      <3> HIDE DEF d
      <3>10. n - i + 1 >= Burst + d
        BY <3>3, <3>4, <3>7, <3>9
      <3> QED
        BY <3>10, Zenon DEF d, g, n
    <2> QED
      BY <2>1, <2>2, Zenon DEF RateKept
  <1> QED
    BY <1>1, RateInvariant, PTL

-----------------------------------------------------------------------------
(* The socket table. *)

Entry ==
    [allocated : BOOLEAN, open : BOOLEAN, type : Types \cup {"none", "stream"}, fd : Nat, error : BOOLEAN,
     ip : LocalIps \cup {AnyIp}, port : 0 .. LastPort, remote : Peers \cup {NoPeer},
     state : {"CLOSED", "LISTEN", "SYN_SENT", "SYN_RECEIVED", "UP"}, parent : Nat, count : 0 .. QueueSize]

\* The last generation of a slot, and its n-th handle.
LastGeneration(i) == (IntMax - i - 1) \div SocketMax
Handle(i, n) == ((n - 1) % (LastGeneration(i) + 1)) * SocketMax + i + 1

\* An entry whose binding nobody shares: a datagram socket, or a stream that has not
\* been used yet.  A stream that listens shares its port with the connections it
\* accepts, and one that has failed with those of its listener.
Exclusive(e) == e.allocated /\ e.port # 0 /\ e.state = "CLOSED" /\ ~e.error

\* What one entry is by itself.
EntryInv(e) ==
    /\ ~e.allocated => e = Unused
    /\ e.type # "stream" => e.state = "CLOSED" /\ ~e.error
    /\ e.state = "LISTEN" => e.port # 0
    /\ e.parent # 0 => ~e.open /\ Connected(e)

\* Two entries that a packet may take for each other.
Clash(e, f) ==
    \/ /\ e.allocated /\ f.allocated /\ e.type = f.type /\ e.port = f.port
       /\ Exclusive(e) \/ Exclusive(f)
       /\ Overlap(e.ip, f.ip)
    \/ /\ Connected(e) /\ Connected(f)
       /\ e.ip = f.ip /\ e.port = f.port /\ e.remote = f.remote

\* A listener, for one of its children.
ListensFor(l, e) ==
    l.allocated /\ l.open /\ l.state = "LISTEN" /\ l.fd = e.parent /\ l.port = e.port

TableInv ==
    /\ table \in [Positions -> Entry]
    /\ \A i \in Positions : EntryInv(table[i])
    /\ \A i, j \in Positions : i # j => ~Clash(table[i], table[j])
    /\ \A i \in Positions : table[i].parent # 0 => \E l \in Positions : ListensFor(table[l], table[i])

HandleInv ==
    /\ generations = [i \in Positions |-> Len(issued[i]) % (LastGeneration(i) + 1)]
    /\ issued \in [Positions -> Seq(Nat)]
    /\ \A i \in Positions : \A n \in DOMAIN issued[i] : issued[i][n] = Handle(i, n)
    /\ \A i \in Positions : table[i].allocated =>
           issued[i] # <<>> /\ table[i].fd = issued[i][Len(issued[i])]
    /\ held = {table[i].fd : i \in {j \in Positions : table[j].allocated /\ table[j].open}}

SocketInv == next_port \in Ephemeral /\ TableInv /\ HandleInv

(* The generations of a slot: the last one still fits in an int.           *)
LEMMA Generations ==
    ASSUME NEW i \in Positions
    PROVE  /\ i \in Nat /\ i < SocketMax /\ SocketMax \in Nat \ {0} /\ IntMax \in Nat
           /\ LastGeneration(i) \in Nat
           /\ LastGeneration(i) * SocketMax <= IntMax - i - 1
  <1> DEFINE x == IntMax - i - 1
             g == x \div SocketMax
             r == x % SocketMax
  <1>1. i \in Nat /\ i < SocketMax /\ SocketMax \in Nat \ {0} /\ IntMax \in Nat /\ x \in Nat
    BY TableAssumption DEF Positions
  <1> HIDE DEF x
  <1>2. g \in Int /\ r \in 0 .. SocketMax - 1 /\ x = SocketMax * g + r
    BY <1>1, DivMod, ModRange
  <1>3. g \in Nat
    <2>1. 0 \div SocketMax = 0 /\ 0 \div SocketMax <= g
      BY <1>1, DivMonotone
    <2> QED
      BY <1>2, <2>1
  <1> HIDE DEF r
  <1>4. LastGeneration(i) = g
    BY Zenon DEF LastGeneration, x
  <1> HIDE DEF g
  <1>5. g * SocketMax <= x
    <2>1. SocketMax * g = g * SocketMax /\ SocketMax * g \in Int
      BY <1>1, <1>3
    <2> QED
      BY <1>1, <1>2, <2>1
  <1> QED
    BY <1>1, <1>3, <1>4, <1>5, Zenon DEF x

(* A handle is a positive int, and holds its slot.                         *)
LEMMA HandleSlot ==
    ASSUME NEW i \in Positions, NEW n \in Nat \ {0}
    PROVE  Handle(i, n) \in 1 .. IntMax /\ (Handle(i, n) - 1) % SocketMax = i
  <1> DEFINE w == LastGeneration(i)
             g == (n - 1) % (w + 1)
             p == g * SocketMax
             q == w * SocketMax
  <1>1. /\ i \in Nat /\ i < SocketMax /\ SocketMax \in Nat \ {0} /\ IntMax \in Nat
        /\ w \in Nat /\ q <= IntMax - i - 1
    BY Generations, Zenon
  <1> HIDE DEF w
  <1>2. g \in 0 .. w
    <2>1. w + 1 \in Nat \ {0} /\ n - 1 \in Int
      BY <1>1
    <2>2. g \in 0 .. (w + 1) - 1
      BY <2>1, ModRange, Zenon
    <2> QED
      BY <1>1, <2>2
  <1>3. Handle(i, n) = p + i + 1
    BY Zenon DEF Handle, w
  <1> HIDE DEF g
  <1>4. p \in Nat /\ q \in Nat /\ p <= q
    <2>1. (w - g) * SocketMax \in Nat /\ (w - g) * SocketMax = q - p /\ p \in Nat /\ q \in Nat
      BY <1>1, <1>2
    <2> QED
      BY <2>1
  <1>5. (Handle(i, n) - 1) % SocketMax = i
    <2>1. Handle(i, n) - 1 = SocketMax * g + i
      BY <1>1, <1>2, <1>3
    <2>2. g \in Int /\ i \in 0 .. SocketMax - 1 /\ Handle(i, n) - 1 \in Int
      BY <1>1, <1>2, <1>3, <1>4
    <2> QED
      BY <1>1, <2>1, <2>2, ModUnique, Zenon
  <1> HIDE DEF p, q
  <1>6. p + i + 1 \in 1 .. IntMax
    BY <1>1, <1>4
  <1> QED
    BY <1>3, <1>5, <1>6, Zenon

(* A slot gives the same handle out again only after all its generations.  *)
LEMMA HandleReuse ==
    ASSUME NEW i \in Positions, NEW m \in Nat \ {0}, NEW n \in Nat \ {0}, m < n,
           Handle(i, m) = Handle(i, n)
    PROVE  n - m > LastGeneration(i)
  <1> DEFINE w == LastGeneration(i) + 1
             g == (m - 1) % w
             h == (n - 1) % w
             d == (m - 1) \div w
             e == (n - 1) \div w
  <1>1. i \in Nat /\ SocketMax \in Nat \ {0} /\ LastGeneration(i) \in Nat /\ w \in Nat \ {0}
    BY Generations
  <1>2. g * SocketMax + i + 1 = h * SocketMax + i + 1
    BY Zenon DEF Handle
  <1> HIDE DEF w
  <1>3. /\ g \in Nat /\ d \in Int /\ m - 1 = w * d + g
        /\ h \in Nat /\ e \in Int /\ n - 1 = w * e + h
    <2>1. m - 1 \in Int /\ n - 1 \in Int
      OBVIOUS
    <2>2. g \in 0 .. w - 1 /\ d \in Int /\ m - 1 = w * d + g
      BY <1>1, <2>1, DivMod, ModRange, Zenon
    <2>3. h \in 0 .. w - 1 /\ e \in Int /\ n - 1 = w * e + h
      BY <1>1, <2>1, DivMod, ModRange, Zenon
    <2> QED
      BY <1>1, <2>2, <2>3
  <1> HIDE DEF g, h, d, e
  <1>4. g = h
    <2>1. (g - h) * SocketMax = 0
      BY <1>1, <1>2, <1>3
    <2>2. g - h >= 1 => (g - h) * SocketMax >= SocketMax
      BY <1>1, <1>3
    <2>3. h - g >= 1 => (h - g) * SocketMax >= SocketMax
      BY <1>1, <1>3
    <2>4. (h - g) * SocketMax = 0
      BY <1>1, <1>3, <2>1
    <2> QED
      BY <1>1, <1>3, <2>1, <2>2, <2>3, <2>4
  <1>5. n - m = w * (e - d)
    BY <1>1, <1>3, <1>4
  <1>6. e - d >= 1
    <2>1. e - d <= 0 => w * (e - d) <= 0
      BY <1>1, <1>3
    <2> QED
      BY <1>3, <1>5, <2>1
  <1>7. w * (e - d) >= w
    BY <1>1, <1>3, <1>6
  <1>8. n - m >= w
    BY <1>5, <1>7, Zenon
  <1> QED
    BY <1>1, <1>8 DEF w

(* The handle of an entry holds the entry's slot.                          *)
LEMMA EntryHandle ==
    ASSUME HandleInv, NEW i \in Positions, table[i].allocated
    PROVE  table[i].fd \in 1 .. IntMax /\ (table[i].fd - 1) % SocketMax = i
  <1>1. issued[i] \in Seq(Nat) /\ issued[i] # <<>> /\ table[i].fd = issued[i][Len(issued[i])]
    BY Zenon DEF HandleInv
  <1>2. Len(issued[i]) \in Nat \ {0} /\ Len(issued[i]) \in DOMAIN issued[i]
    BY <1>1
  <1>3. table[i].fd = Handle(i, Len(issued[i]))
    BY <1>1, <1>2, Zenon DEF HandleInv
  <1> QED
    BY <1>2, <1>3, HandleSlot, Zenon

(* Two entries have two handles.                                           *)
LEMMA HandlesDiffer ==
    ASSUME HandleInv, NEW i \in Positions, NEW j \in Positions,
           table[i].allocated, table[j].allocated, table[i].fd = table[j].fd
    PROVE  i = j
  BY EntryHandle, Zenon

(* get() finds an open entry with the handle it is asked for ...           *)
LEMMA GetFinds ==
    ASSUME NEW fd \in 1 .. IntMax, Get(fd) # Nobody
    PROVE  /\ Get(fd) \in Positions
           /\ table[Get(fd)].allocated /\ table[Get(fd)].open /\ table[Get(fd)].fd = fd
  <1> DEFINE slot == (fd - 1) % SocketMax
  <1>1. slot \in Positions
    <2>1. SocketMax \in Nat \ {0} /\ fd - 1 \in Int
      BY TableAssumption
    <2> QED
      BY <2>1, ModRange, Zenon DEF Positions
  <1>2. SocketLookup(fd) = IF table[slot].allocated /\ table[slot].fd = fd THEN slot ELSE Nobody
    BY Zenon DEF SocketLookup
  <1> HIDE DEF slot
  <1>3. SocketLookup(fd) # Nobody /\ table[SocketLookup(fd)].open /\ Get(fd) = SocketLookup(fd)
    BY Zenon DEF Get
  <1> QED
    BY <1>1, <1>2, <1>3, Zenon

(* ... and finds every open entry by its handle.                           *)
LEMMA GetFindsAll ==
    ASSUME HandleInv, NEW i \in Positions, table[i].allocated, table[i].open
    PROVE  Get(table[i].fd) = i /\ i # Nobody
  <1>1. (table[i].fd - 1) % SocketMax = i
    BY EntryHandle, Zenon
  <1>2. i # Nobody
    BY TableAssumption DEF Positions, Nobody
  <1>3. SocketLookup(table[i].fd) = i
    BY <1>1, Zenon DEF SocketLookup
  <1> QED
    BY <1>2, <1>3, Zenon DEF Get

(* A clash is mutual.                                                      *)
LEMMA ClashMutual ==
    ASSUME NEW e, NEW f, Clash(e, f)
    PROVE  Clash(f, e)
  BY Zenon DEF Clash, Overlap

(* A change of one entry keeps the invariant when the entry it leaves does *)
(* not clash with any other, keeps its handle, waits for the same listener *)
(* if any, and goes on to listen for those who wait for it.                *)
LEMMA EntryStep ==
    ASSUME SocketInv, NEW i \in Positions, NEW e \in Entry, table[i].allocated,
           table' \in [Positions -> Entry], table'[i] = e,
           \A j \in Positions : j # i => table'[j] = table[j],
           generations' = generations, issued' = issued, next_port' \in Ephemeral,
           EntryInv(e), e.allocated => e.fd = table[i].fd,
           \A j \in Positions : j # i => ~Clash(e, table[j]),
           e.parent # 0 => e.parent = table[i].parent /\ e.port = table[i].port,
           \A j \in Positions : table[j].parent # 0 /\ ListensFor(table[i], table[j]) => ListensFor(e, table[j]),
           held' = {fd \in held : fd # table[i].fd} \cup {fd \in {table[i].fd} : e.allocated /\ e.open}
    PROVE  SocketInv'
  <1>1. TableInv /\ HandleInv
    BY Zenon DEF SocketInv
  <1>2. \A j \in Positions : EntryInv(table'[j])
    BY <1>1, Zenon DEF TableInv
  <1>3. ASSUME NEW j \in Positions, NEW k \in Positions, j # k
        PROVE  ~Clash(table'[j], table'[k])
    <2>1. CASE j = i
      BY <1>3, <2>1, Zenon
    <2>2. CASE k = i
      BY <1>3, <2>2, ClashMutual, Zenon
    <2>3. CASE j # i /\ k # i
      BY <1>1, <1>3, <2>3, Zenon DEF TableInv
    <2> QED
      BY <2>1, <2>2, <2>3, Zenon
  <1>4. ASSUME NEW j \in Positions, table'[j].parent # 0
        PROVE  \E l \in Positions : ListensFor(table'[l], table'[j])
    <2>1. table[j].parent # 0 /\ table'[j].parent = table[j].parent /\ table'[j].port = table[j].port
      BY <1>4, Zenon
    <2>2. PICK l \in Positions : ListensFor(table[l], table[j])
      BY <1>1, <2>1, Zenon DEF TableInv
    <2>3. ListensFor(table'[l], table[j])
      BY <2>1, <2>2, Zenon
    <2> QED
      BY <2>1, <2>3, Zenon DEF ListensFor
  <1>5. TableInv'
    <2>1. Positions' = Positions
      BY Zenon DEF Positions
    <2> QED
      BY <1>2, <1>3, <1>4, Zenon DEF TableInv, EntryInv, Clash, Exclusive, Connected, Overlap, ListensFor, Unused
  <1>6. ASSUME NEW j \in Positions, table'[j].allocated
        PROVE  table'[j].fd = table[j].fd /\ table[j].allocated
    BY <1>6, Zenon
  <1>7. held' = {table'[j].fd : j \in {k \in Positions : table'[k].allocated /\ table'[k].open}}
    <2> DEFINE R == {table'[j].fd : j \in {k \in Positions : table'[k].allocated /\ table'[k].open}}
    <2>1. held = {table[j].fd : j \in {k \in Positions : table[k].allocated /\ table[k].open}}
      BY <1>1, Zenon DEF HandleInv
    <2>2. ASSUME NEW fd \in held' PROVE fd \in R
      <3>1. CASE fd = table[i].fd
        <4>1. e.allocated /\ e.open
          BY <2>2, <3>1, Zenon
        <4> QED
          BY <3>1, <4>1, Zenon
      <3>2. CASE fd # table[i].fd
        <4>1. fd \in held
          BY <2>2, <3>2, Zenon
        <4>2. PICK j \in Positions : table[j].allocated /\ table[j].open /\ table[j].fd = fd
          BY <2>1, <4>1, Zenon
        <4>3. table'[j] = table[j]
          BY <3>2, <4>2, Zenon
        <4> QED
          BY <4>2, <4>3, Zenon
      <3> QED
        BY <3>1, <3>2, Zenon
    <2>3. ASSUME NEW fd \in R PROVE fd \in held'
      <3>1. PICK j \in Positions : table'[j].allocated /\ table'[j].open /\ table'[j].fd = fd
        BY <2>3, Zenon
      <3>2. CASE j = i
        BY <3>1, <3>2, Zenon
      <3>3. CASE j # i
        <4>1. table[j].allocated /\ table[j].open /\ table[j].fd = fd
          BY <3>1, <3>3, Zenon
        <4>2. fd \in held
          BY <2>1, <4>1, Zenon
        <4>3. fd # table[i].fd
          BY <1>1, <3>3, <4>1, HandlesDiffer, Zenon
        <4> QED
          BY <4>2, <4>3, Zenon
      <3> QED
        BY <3>2, <3>3, Zenon
    <2> QED
      BY <2>2, <2>3, Zenon
  <1>8. HandleInv'
    <2>1. ASSUME NEW j \in Positions, table'[j].allocated
          PROVE  issued[j] # <<>> /\ table'[j].fd = issued[j][Len(issued[j])]
      BY <1>1, <1>6, <2>1, Zenon DEF HandleInv
    <2> QED
      BY <1>1, <1>7, <2>1, Zenon DEF HandleInv, Handle, LastGeneration, Positions
  <1> QED
    BY <1>5, <1>8, Zenon DEF SocketInv, Ephemeral

-----------------------------------------------------------------------------
(* Searches.  The least-number principle comes from here. *)

INSTANCE WellFoundedInduction

(* A set of natural numbers has a least element: what a search from below  *)
(* finds first.                                                            *)
LEMMA LeastNumber ==
    ASSUME NEW S \in SUBSET Nat, S # {}
    PROVE  \E x \in S : \A y \in S : x <= y
  <1>1. PICK x \in S : \A y \in S : ~(<<y, x>> \in OpToRel(<, Nat))
    BY NatLessThanWellFounded, WFMin, Zenon
  <1>2. \A y \in S : ~(y < x)
    BY <1>1, Zenon DEF OpToRel
  <1> QED
    BY <1>2

(* The loop of an automatic bind: its n-th try is the n-th port after the  *)
(* first one, around the ephemeral ports.                                  *)
LEMMA TriedPorts ==
    ASSUME next_port \in Ephemeral
    PROVE  \A n \in 0 .. LastPort :
               Tried[n] = FirstEphemeral + ((next_port - FirstEphemeral + n) % (LastPort - FirstEphemeral + 1))
  <1> DEFINE F == FirstEphemeral
             W == LastPort - F + 1
             g == [n \in 0 .. LastPort |-> F + ((next_port - F + n) % W)]
  <1>1. /\ F \in Nat \ {0} /\ LastPort \in Nat /\ F <= LastPort /\ W \in Nat \ {0}
        /\ next_port \in Nat /\ F <= next_port /\ next_port <= LastPort
    BY TableAssumption DEF Ephemeral
  <1> HIDE DEF F
  <1>2. ASSUME NEW n \in 0 .. LastPort
        PROVE  g[n] = IF n = 0 THEN next_port ELSE Advance(g[n - 1])
    <2>1. CASE n = 0
      <3>1. next_port - F \in 0 .. W - 1 /\ next_port - F + 0 = next_port - F
        BY <1>1
      <3>2. (next_port - F) % W = next_port - F
        BY <1>1, <3>1, ModSmall, Zenon
      <3> QED
        BY <1>1, <2>1, <3>1, <3>2
    <2>2. CASE n # 0
      <3> DEFINE x == next_port - F + (n - 1)
                 m == x % W
      <3>1. n - 1 \in 0 .. LastPort /\ x \in Int /\ next_port - F + n = x + 1
        BY <1>1, <2>2
      <3>2. g[n - 1] = F + m /\ g[n] = F + ((x + 1) % W)
        BY <3>1, Zenon
      <3> HIDE DEF x, g
      <3>3. m \in 0 .. W - 1 /\ (x + 1) % W = IF m = W - 1 THEN 0 ELSE m + 1
        BY <1>1, <3>1, ModRange, ModSucc, Zenon
      <3> HIDE DEF m
      <3>4. CASE m = W - 1
        <4>1. F + m + 1 = LastPort + 1 /\ (LastPort + 1) % (LastPort + 1) = 0
          <5>1. LastPort + 1 = (LastPort + 1) * 1 + 0 /\ 0 \in 0 .. (LastPort + 1) - 1
            BY <1>1
          <5> QED
            BY <1>1, <3>4, <5>1, ModUnique
        <4>2. Advance(F + m) = F
          BY <1>1, <4>1 DEF Advance, F
        <4> QED
          BY <1>1, <2>2, <3>2, <3>3, <3>4, <4>2
      <3>5. CASE m # W - 1
        <4>1. F + m + 1 \in 0 .. (LastPort + 1) - 1 /\ F + m + 1 >= F
          BY <1>1, <3>3, <3>5
        <4>2. (F + m + 1) % (LastPort + 1) = F + m + 1
          BY <1>1, <4>1, ModSmall
        <4>3. Advance(F + m) = F + m + 1
          BY <1>1, <4>1, <4>2 DEF Advance, F
        <4> QED
          BY <1>1, <2>2, <3>2, <3>3, <3>5, <4>3
      <3> QED
        BY <3>4, <3>5, Zenon
    <2> QED
      BY <2>1, <2>2, Zenon
  <1>3. g = [n \in 0 .. LastPort |-> IF n = 0 THEN next_port ELSE Advance(g[n - 1])]
    <2>1. g = [n \in 0 .. LastPort |-> g[n]]
      BY Zenon
    <2> HIDE DEF g
    <2> QED
      BY <1>2, <2>1, Zenon
  <1> HIDE DEF g
  <1>4. Tried = [n \in 0 .. LastPort |-> IF n = 0 THEN next_port ELSE Advance(Tried[n - 1])]
    BY <1>3, Zenon DEF Tried
  <1> DEFINE S == {n \in 0 .. LastPort : Tried[n] # g[n]}
  <1>5. ASSUME S # {} PROVE FALSE
    <2>1. S \in SUBSET Nat
      BY <1>1
    <2>2. PICK n \in S : \A y \in S : n <= y
      BY <1>5, <2>1, LeastNumber, Zenon
    <2>3. n \in 0 .. LastPort /\ Tried[n] # g[n]
      BY <2>2, Zenon
    <2>4. CASE n = 0
      <3>1. Tried[n] = next_port /\ g[n] = next_port
        BY <1>2, <1>4, <2>3, <2>4, Zenon
      <3> QED
        BY <2>3, <3>1, Zenon
    <2>5. CASE n # 0
      <3>1. n - 1 \in 0 .. LastPort /\ n - 1 \notin S
        BY <1>1, <2>1, <2>2, <2>3, <2>5
      <3>2. Tried[n - 1] = g[n - 1]
        BY <3>1, Zenon
      <3>3. Tried[n] = Advance(Tried[n - 1]) /\ g[n] = Advance(g[n - 1])
        BY <1>2, <1>4, <2>3, <2>5, Zenon
      <3> QED
        BY <2>3, <3>2, <3>3, Zenon
    <2> QED
      BY <2>4, <2>5, Zenon
  <1>6. \A n \in 0 .. LastPort : Tried[n] = g[n]
    BY <1>5, Zenon
  <1> QED
    BY <1>6, Zenon DEF g, F

(* Every try is an ephemeral port, and every ephemeral port is tried.      *)
LEMMA TriesCover ==
    ASSUME next_port \in Ephemeral
    PROVE  /\ \A n \in 0 .. LastPort : Tried[n] \in Ephemeral
           /\ \A n \in Tries : n \in 0 .. LastPort /\ n + 1 \in 0 .. LastPort
           /\ \A p \in Ephemeral : \E n \in Tries : Tried[n] = p
  <1> DEFINE F == FirstEphemeral
             W == LastPort - F + 1
  <1>1. /\ F \in Nat \ {0} /\ LastPort \in Nat /\ F <= LastPort /\ W \in Nat \ {0}
        /\ next_port \in Nat /\ F <= next_port /\ next_port <= LastPort
    BY TableAssumption DEF Ephemeral
  <1>2. \A n \in 0 .. LastPort : Tried[n] = F + ((next_port - F + n) % W)
    BY TriedPorts, Zenon
  <1>3. ASSUME NEW n \in 0 .. LastPort PROVE Tried[n] \in Ephemeral
    <2> DEFINE x == next_port - F + n
    <2>1. x \in Int
      BY <1>1
    <2> HIDE DEF x
    <2>2. x % W \in 0 .. W - 1
      BY <1>1, <2>1, ModRange, Zenon
    <2>3. Tried[n] = F + (x % W)
      BY <1>2, Zenon DEF x
    <2> QED
      BY <1>1, <2>2, <2>3 DEF Ephemeral
  <1>4. \A n \in Tries : n \in 0 .. LastPort /\ n + 1 \in 0 .. LastPort
    BY <1>1 DEF Tries
  <1>5. ASSUME NEW p \in Ephemeral PROVE \E n \in Tries : Tried[n] = p
    <2>1. p \in Nat /\ F <= p /\ p <= LastPort
      BY <1>1 DEF Ephemeral
    <2>2. CASE p >= next_port
      <3>1. p - next_port \in Tries /\ p - F \in 0 .. W - 1 /\ next_port - F + (p - next_port) = p - F
        BY <1>1, <2>1, <2>2 DEF Tries
      <3>2. (p - F) % W = p - F
        BY <1>1, <3>1, ModSmall, Zenon
      <3>3. Tried[p - next_port] = F + ((p - F) % W)
        BY <1>2, <1>4, <3>1, Zenon
      <3>4. Tried[p - next_port] = p
        BY <1>1, <2>1, <3>2, <3>3
      <3> QED
        BY <3>1, <3>4, Zenon
    <2>3. CASE p < next_port
      <3> DEFINE n == p - next_port + W
      <3>1. n \in Tries /\ p - F \in 0 .. W - 1 /\ next_port - F + n = p - F + W
        BY <1>1, <2>1, <2>3 DEF Tries
      <3>2. (p - F + W) % W = p - F
        <4>1. (p - F) % W = p - F
          BY <1>1, <3>1, ModSmall, Zenon
        <4>2. p - F \in Int
          BY <1>1, <2>1
        <4> QED
          BY <1>1, <4>1, <4>2, ModAdd, Zenon
      <3>3. Tried[n] = F + ((p - F + W) % W)
        BY <1>2, <1>4, <3>1, Zenon
      <3>4. Tried[n] = p
        BY <1>1, <2>1, <3>2, <3>3
      <3> QED
        BY <3>1, <3>4, Zenon
    <2> QED
      BY <1>1, <2>1, <2>2, <2>3
  <1> QED
    BY <1>3, <1>4, <1>5, Zenon

(* The least of a set of natural numbers.                                  *)
LEMMA MinIsLeast ==
    ASSUME NEW S \in SUBSET Nat, S # {}
    PROVE  Min(S) \in S /\ \A x \in S : Min(S) <= x
  <1>1. \E x \in S : \A y \in S : x <= y
    BY LeastNumber, Zenon
  <1> QED
    BY <1>1, Zenon DEF Min

(* The bindings that socket_bind() may leave are free, and the next port   *)
(* to try is an ephemeral one.                                             *)
LEMMA BindingFits ==
    ASSUME next_port \in Ephemeral, NEW i, NEW ip, NEW port \in Ports \cup {0},
           NEW b \in Bindings(i, ip, port)
    PROVE  /\ table[i].port = 0 /\ b.ip = ip /\ b.port \in Ports
           /\ PortAvailable(i, b.ip, b.port) /\ b.next \in Ephemeral
           /\ port = 0 => b.port \in Ephemeral
  <1> DEFINE fit == {n \in Tries : PortAvailable(i, ip, Tried[n])}
  <1>1. Ephemeral \subseteq Ports /\ 0 \notin Ports
    BY TableAssumption DEF Ephemeral, Ports
  <1>2. table[i].port = 0
    BY Zenon DEF Bindings
  <1>3. CASE port # 0
    <2>1. PICK p \in {q \in {port} : PortAvailable(i, ip, q)} :
              b = [ip |-> ip, port |-> p, next |-> next_port]
      BY <1>2, <1>3, Zenon DEF Bindings
    <2> QED
      BY <1>2, <1>3, <2>1, Zenon
  <1>4. CASE port = 0
    <2>1. PICK n \in fit : b = [ip |-> ip, port |-> Tried[n], next |-> Tried[n + 1]]
      BY <1>2, <1>4, Zenon DEF Bindings
    <2>2. n \in Tries /\ PortAvailable(i, ip, Tried[n])
      BY <2>1, Zenon
    <2>3. Tried[n] \in Ephemeral /\ Tried[n + 1] \in Ephemeral
      BY <2>2, TriesCover, Zenon
    <2> QED
      BY <1>1, <1>2, <2>1, <2>2, <2>3, Zenon
  <1> QED
    BY <1>3, <1>4, Zenon

(* An automatic bind finds a port when there is one.                       *)
LEMMA BindingFound ==
    ASSUME next_port \in Ephemeral, NEW i, NEW ip, table[i].port = 0, Bindings(i, ip, 0) = {},
           NEW p \in Ephemeral
    PROVE  ~PortAvailable(i, ip, p)
  <1> DEFINE fit == {n \in Tries : PortAvailable(i, ip, Tried[n])}
  <1>1. ASSUME fit # {} PROVE FALSE
    <2>1. fit \in SUBSET Nat
      BY TriesCover, TableAssumption
    <2>2. Min(fit) \in fit
      BY <1>1, <2>1, MinIsLeast, Zenon
    <2>3. Bindings(i, ip, 0) = {[ip |-> ip, port |-> Tried[n], next |-> Tried[n + 1]] :
                                    n \in {m \in fit : m = Min(fit)}}
      BY Zenon DEF Bindings
    <2> HIDE DEF fit
    <2> QED
      BY <2>2, <2>3, Zenon
  <1>2. PICK n \in Tries : Tried[n] = p
    BY TriesCover, Zenon
  <1> QED
    BY <1>1, <1>2, Zenon

(* An entry that stays open keeps its handle in the application's hands.   *)
LEMMA OpenStep ==
    ASSUME SocketInv, NEW i \in Positions, NEW e \in Entry, table[i].allocated, table[i].open,
           table' = [table EXCEPT ![i] = e],
           generations' = generations, issued' = issued, held' = held, next_port' \in Ephemeral,
           e.allocated, e.open, e.fd = table[i].fd, e.parent = table[i].parent, EntryInv(e),
           \A j \in Positions : j # i => ~Clash(e, table[j]),
           table[i].state = "LISTEN" => e.state = "LISTEN" /\ e.port = table[i].port
    PROVE  SocketInv'
  <1>1. TableInv /\ HandleInv /\ table \in [Positions -> Entry] /\ EntryInv(table[i])
    BY Zenon DEF SocketInv, TableInv
  <1>2. table' \in [Positions -> Entry] /\ table'[i] = e /\ \A j \in Positions : j # i => table'[j] = table[j]
    BY <1>1, Zenon
  <1>3. e.parent = 0
    BY <1>1, Zenon DEF EntryInv
  <1>4. \A j \in Positions : table[j].parent # 0 /\ ListensFor(table[i], table[j]) => ListensFor(e, table[j])
    BY Zenon DEF ListensFor
  <1>5. table[i].fd \in held
    BY <1>1, Zenon DEF HandleInv
  <1>6. held' = {fd \in held : fd # table[i].fd} \cup {fd \in {table[i].fd} : e.allocated /\ e.open}
    BY <1>5, Zenon
  <1> QED
    BY <1>2, <1>3, <1>4, <1>6, EntryStep, Zenon

(* A binding that port_available() lets pass clashes with nobody, even     *)
(* when an address is put in the place of "any".                           *)
LEMMA AloneFree ==
    ASSUME NEW i \in Positions, NEW ip, NEW port, PortAvailable(i, ip, port),
           NEW e, e.type = table[i].type, e.port = port, ip = AnyIp \/ e.ip = ip
    PROVE  \A j \in Positions : j # i => ~Clash(e, table[j])
  <1> SUFFICES ASSUME NEW j \in Positions, j # i, Clash(e, table[j]) PROVE FALSE
    BY Zenon
  <1>1. table[j].allocated /\ table[j].type = e.type /\ table[j].port = port
    BY Zenon DEF Clash, Connected
  <1>2. Overlap(e.ip, table[j].ip)
    BY Zenon DEF Clash, Overlap
  <1>3. Overlap(ip, table[j].ip)
    BY <1>2, Zenon DEF Overlap
  <1> QED
    BY <1>1, <1>3, Zenon DEF PortAvailable

(* A socket that is bound and has not been used has its binding alone.     *)
LEMMA AutoBindingFits ==
    ASSUME SocketInv, NEW i \in Positions, table[i].allocated, table[i].state = "CLOSED", ~table[i].error,
           NEW b \in AutoBindings(i)
    PROVE  /\ PortAvailable(i, b.ip, b.port) /\ b.port \in Ports /\ b.next \in Ephemeral
           /\ b.ip \in LocalIps \cup {AnyIp}
           /\ table[i].port # 0 => b.ip = table[i].ip /\ b.port = table[i].port
  <1>1. /\ next_port \in Ephemeral /\ table[i] \in Entry
        /\ \A j \in Positions : i # j => ~Clash(table[i], table[j])
    BY Zenon DEF SocketInv, TableInv
  <1>2. CASE table[i].port # 0
    <2>1. b = [ip |-> table[i].ip, port |-> table[i].port, next |-> next_port]
      BY <1>2, Zenon DEF AutoBindings
    <2>2. b.ip = table[i].ip /\ b.port = table[i].port /\ b.next = next_port
      BY <2>1, Zenon
    <2>3. table[i].port \in Ports /\ table[i].ip \in LocalIps \cup {AnyIp}
      BY <1>1, <1>2, TableAssumption DEF Entry, Ports
    <2>4. PortAvailable(i, table[i].ip, table[i].port)
      <3> SUFFICES ASSUME NEW j \in Positions \ {i},
                          table[j].allocated, table[j].type = table[i].type,
                          table[j].port = table[i].port, Overlap(table[i].ip, table[j].ip)
                   PROVE  FALSE
        BY Zenon DEF PortAvailable
      <3>1. Clash(table[i], table[j])
        BY <1>2, Zenon DEF Clash, Exclusive
      <3> QED
        BY <1>1, <3>1, Zenon
    <2> QED
      BY <1>1, <2>2, <2>3, <2>4, Zenon
  <1>3. CASE table[i].port = 0
    <2>1. b \in Bindings(i, AnyIp, 0)
      BY <1>3, Zenon DEF AutoBindings
    <2> QED
      BY <1>1, <1>3, <2>1, BindingFits
  <1> QED
    BY <1>2, <1>3, Zenon

(* core_bind() keeps the invariant ...                                     *)
LEMMA BindKeeps ==
    ASSUME SocketInv, NEW fd \in 1 .. IntMax, NEW ip \in LocalIps \cup {AnyIp}, NEW port \in Ports \cup {0},
           Bind(fd, ip, port)
    PROVE  SocketInv'
  <1>1. PICK i : i = Get(fd)
    BY Zenon
  <1>2. i \in Positions /\ table[i].allocated /\ table[i].open
    BY <1>1, GetFinds, Zenon DEF Bind
  <1>3. PICK b \in Bindings(i, ip, port) :
            table' = [table EXCEPT ![i] = Bound(table[i], b)] /\ next_port' = b.next
    BY <1>1, <1>2, Zenon DEF Bind, SocketInv, TableInv
  <1>4. /\ next_port \in Ephemeral /\ table[i] \in Entry /\ EntryInv(table[i])
        /\ generations' = generations /\ issued' = issued /\ held' = held
    BY <1>2, Zenon DEF SocketInv, TableInv, Bind
  <1>5. /\ table[i].port = 0 /\ b.ip = ip /\ b.port \in Ports
        /\ PortAvailable(i, b.ip, b.port) /\ b.next \in Ephemeral
    BY <1>4, BindingFits
  <1> DEFINE e == Bound(table[i], b)
  <1>6. /\ e \in Entry /\ e.ip = b.ip /\ e.port = b.port /\ e.allocated /\ e.open
        /\ e.fd = table[i].fd /\ e.type = table[i].type /\ e.parent = table[i].parent
        /\ e.state = table[i].state /\ e.error = table[i].error
    <2>1. b.port \in 0 .. LastPort
      BY <1>5, TableAssumption DEF Ports
    <2> QED
      BY <1>2, <1>4, <1>5, <2>1, Zenon DEF Bound, Entry
  <1> HIDE DEF e
  <1>7. EntryInv(e)
    BY <1>2, <1>4, <1>5, <1>6, TableAssumption, Zenon DEF EntryInv, Connected, Ports
  <1>8. \A j \in Positions : j # i => ~Clash(e, table[j])
    BY <1>2, <1>5, <1>6, AloneFree, Zenon
  <1>9. table[i].state # "LISTEN"
    BY <1>4, <1>5, Zenon DEF EntryInv
  <1>10. table' = [table EXCEPT ![i] = e] /\ next_port' \in Ephemeral
    BY <1>3, <1>5, Zenon DEF e
  <1> QED
    BY <1>2, <1>4, <1>6, <1>7, <1>8, <1>9, <1>10, OpenStep, Zenon

(* ... and so do the calls that bind a socket when it is not bound yet.    *)
LEMMA AutoBindKeeps ==
    ASSUME SocketInv, NEW i \in Positions, table[i].allocated, table[i].open,
           table[i].state = "CLOSED", ~table[i].error, NEW b \in AutoBindings(i),
           NEW e \in Entry, table' = [table EXCEPT ![i] = e], next_port' = b.next,
           generations' = generations, issued' = issued, held' = held,
           e.port = b.port, b.ip = AnyIp \/ e.ip = b.ip,
           e.allocated, e.open, e.fd = table[i].fd, e.type = table[i].type,
           e.parent = table[i].parent, EntryInv(e)
    PROVE  SocketInv'
  <1>1. PortAvailable(i, b.ip, b.port) /\ b.next \in Ephemeral
    BY AutoBindingFits, Zenon
  <1>2. \A j \in Positions : j # i => ~Clash(e, table[j])
    BY <1>1, AloneFree, Zenon
  <1>3. next_port' \in Ephemeral /\ table[i].state # "LISTEN"
    BY <1>1, Zenon
  <1> QED
    BY <1>2, <1>3, OpenStep, Zenon

(* core_sendto()                                                           *)
LEMMA SendToKeeps ==
    ASSUME SocketInv, NEW fd \in 1 .. IntMax, SendTo(fd)
    PROVE  SocketInv'
  <1>1. PICK i : i = Get(fd)
    BY Zenon
  <1>2. i \in Positions /\ table[i].allocated /\ table[i].open /\ table[i].type = "dgram"
    BY <1>1, GetFinds, Zenon DEF SendTo
  <1>3. PICK b \in AutoBindings(i) :
            table' = [table EXCEPT ![i] = Bound(table[i], b)] /\ next_port' = b.next
    BY <1>1, <1>2, Zenon DEF SendTo, SocketInv, TableInv
  <1>4. /\ table[i] \in Entry /\ EntryInv(table[i])
        /\ generations' = generations /\ issued' = issued /\ held' = held
    BY <1>2, Zenon DEF SocketInv, TableInv, SendTo
  <1>5. table[i].state = "CLOSED" /\ ~table[i].error
    BY <1>2, <1>4, Zenon DEF EntryInv
  <1>6. b.port \in Ports /\ b.ip \in LocalIps \cup {AnyIp}
    BY <1>2, <1>5, AutoBindingFits, Zenon
  <1> DEFINE e == Bound(table[i], b)
  <1>7. /\ e \in Entry /\ e.ip = b.ip /\ e.port = b.port /\ e.allocated /\ e.open
        /\ e.fd = table[i].fd /\ e.type = table[i].type /\ e.parent = table[i].parent
        /\ e.state = table[i].state /\ e.error = table[i].error
    <2>1. b.port \in 0 .. LastPort
      BY <1>6, TableAssumption DEF Ports
    <2> QED
      BY <1>2, <1>4, <1>6, <2>1, Zenon DEF Bound, Entry
  <1> HIDE DEF e
  <1>8. EntryInv(e)
    BY <1>2, <1>4, <1>5, <1>7, Zenon DEF EntryInv, Connected
  <1>9. table' = [table EXCEPT ![i] = e]
    BY <1>3, Zenon DEF e
  <1> QED
    BY <1>2, <1>3, <1>4, <1>5, <1>7, <1>8, <1>9, AutoBindKeeps, Zenon

(* core_connect() of a datagram socket                                     *)
LEMMA ConnectDatagramKeeps ==
    ASSUME SocketInv, NEW fd \in 1 .. IntMax, NEW peer \in Peers, ConnectDatagram(fd, peer)
    PROVE  SocketInv'
  <1>1. PICK i : i = Get(fd)
    BY Zenon
  <1>2. i \in Positions /\ table[i].allocated /\ table[i].open /\ table[i].type = "dgram"
    BY <1>1, GetFinds, Zenon DEF ConnectDatagram
  <1>3. PICK b \in AutoBindings(i) :
            /\ table' = [table EXCEPT ![i] = [Bound(table[i], b) EXCEPT !.remote = peer]]
            /\ next_port' = b.next
    BY <1>1, <1>2, Zenon DEF ConnectDatagram, SocketInv, TableInv
  <1>4. /\ table[i] \in Entry /\ EntryInv(table[i])
        /\ generations' = generations /\ issued' = issued /\ held' = held
    BY <1>2, Zenon DEF SocketInv, TableInv, ConnectDatagram
  <1>5. table[i].state = "CLOSED" /\ ~table[i].error
    BY <1>2, <1>4, Zenon DEF EntryInv
  <1>6. b.port \in Ports /\ b.ip \in LocalIps \cup {AnyIp}
    BY <1>2, <1>5, AutoBindingFits, Zenon
  <1> DEFINE e == [Bound(table[i], b) EXCEPT !.remote = peer]
  <1>7. /\ e \in Entry /\ e.ip = b.ip /\ e.port = b.port /\ e.allocated /\ e.open
        /\ e.fd = table[i].fd /\ e.type = table[i].type /\ e.parent = table[i].parent
        /\ e.state = table[i].state /\ e.error = table[i].error
    <2>1. b.port \in 0 .. LastPort
      BY <1>6, TableAssumption DEF Ports
    <2> QED
      BY <1>2, <1>4, <1>6, <2>1, Zenon DEF Bound, Entry
  <1> HIDE DEF e
  <1>8. EntryInv(e)
    BY <1>2, <1>4, <1>5, <1>7, Zenon DEF EntryInv, Connected
  <1>9. table' = [table EXCEPT ![i] = e]
    BY <1>3, Zenon DEF e
  <1> QED
    BY <1>2, <1>3, <1>4, <1>5, <1>7, <1>8, <1>9, AutoBindKeeps, Zenon

(* tcp_connect(): nobody else has a connection between the same endpoints, *)
(* since nobody else has the binding.                                      *)
LEMMA ConnectStreamKeeps ==
    ASSUME SocketInv, NEW fd \in 1 .. IntMax, NEW peer \in Peers, NEW source \in LocalIps,
           ConnectStream(fd, peer, source)
    PROVE  SocketInv'
  <1>1. PICK i : i = Get(fd)
    BY Zenon
  <1>2. /\ i \in Positions /\ table[i].allocated /\ table[i].open /\ table[i].type = "stream"
        /\ table[i].state = "CLOSED" /\ ~table[i].error
    BY <1>1, GetFinds, Zenon DEF ConnectStream
  <1>3. PICK b \in AutoBindings(i) :
            /\ table' = [table EXCEPT ![i] =
                             [Bound(table[i], b) EXCEPT !.ip = IF b.ip = AnyIp THEN source ELSE b.ip,
                                                        !.remote = peer, !.state = "SYN_SENT"]]
            /\ next_port' = b.next
    BY <1>1, <1>2, Zenon DEF ConnectStream, SocketInv, TableInv
  <1>4. /\ table[i] \in Entry /\ EntryInv(table[i])
        /\ generations' = generations /\ issued' = issued /\ held' = held
    BY <1>2, Zenon DEF SocketInv, TableInv, ConnectStream
  <1>5. b.port \in Ports /\ b.ip \in LocalIps \cup {AnyIp}
    BY <1>2, AutoBindingFits, Zenon
  <1> DEFINE e == [Bound(table[i], b) EXCEPT !.ip = IF b.ip = AnyIp THEN source ELSE b.ip,
                                             !.remote = peer, !.state = "SYN_SENT"]
  <1>6. /\ e \in Entry /\ (b.ip = AnyIp \/ e.ip = b.ip) /\ e.port = b.port /\ e.allocated /\ e.open
        /\ e.fd = table[i].fd /\ e.type = table[i].type /\ e.parent = table[i].parent
        /\ e.state = "SYN_SENT"
    <2>1. b.port \in 0 .. LastPort
      BY <1>5, TableAssumption DEF Ports
    <2>2. Bound(table[i], b) \in Entry
      BY <1>4, <1>5, <2>1, Zenon DEF Bound, Entry
    <2>3. e \in Entry
      BY <1>5, <2>2, Zenon DEF Entry
    <2>4. /\ Bound(table[i], b).port = b.port /\ Bound(table[i], b).allocated /\ Bound(table[i], b).open
          /\ Bound(table[i], b).fd = table[i].fd /\ Bound(table[i], b).type = table[i].type
          /\ Bound(table[i], b).parent = table[i].parent
      BY <1>2, <1>4, Zenon DEF Bound, Entry
    <2>5. /\ e.port = Bound(table[i], b).port /\ e.allocated = Bound(table[i], b).allocated
          /\ e.open = Bound(table[i], b).open /\ e.fd = Bound(table[i], b).fd
          /\ e.type = Bound(table[i], b).type /\ e.parent = Bound(table[i], b).parent
      BY <2>2, Zenon DEF Entry
    <2>6. (b.ip = AnyIp \/ e.ip = b.ip) /\ e.state = "SYN_SENT"
      BY <2>2, Zenon DEF Entry
    <2> QED
      BY <2>3, <2>4, <2>5, <2>6, Zenon
  <1> HIDE DEF e
  <1>7. EntryInv(e)
    BY <1>2, <1>4, <1>6, Zenon DEF EntryInv, Connected
  <1>8. table' = [table EXCEPT ![i] = e]
    BY <1>3, Zenon DEF e
  <1> QED
    BY <1>2, <1>3, <1>4, <1>6, <1>7, <1>8, AutoBindKeeps, Zenon

(* core_listen(): a binding that was its own is shared from now on.        *)
LEMMA ListenKeeps ==
    ASSUME SocketInv, NEW fd \in 1 .. IntMax, Listen(fd)
    PROVE  SocketInv'
  <1>1. PICK i : i = Get(fd)
    BY Zenon
  <1>2. /\ i \in Positions /\ table[i].allocated /\ table[i].open /\ table[i].type = "stream"
        /\ table[i].state = "CLOSED" /\ table[i].port # 0
    BY <1>1, GetFinds, Zenon DEF Listen
  <1>3. /\ table \in [Positions -> Entry] /\ table[i] \in Entry /\ EntryInv(table[i]) /\ next_port \in Ephemeral
        /\ generations' = generations /\ issued' = issued /\ held' = held /\ next_port' = next_port
        /\ \A j \in Positions : j # i => ~Clash(table[i], table[j])
    BY <1>2, Zenon DEF SocketInv, TableInv, Listen
  <1> DEFINE e == [table[i] EXCEPT !.state = "LISTEN"]
  <1>4. table' = [table EXCEPT ![i] = e]
    BY <1>1, <1>2, <1>3, Zenon DEF Listen
  <1>5. /\ e \in Entry /\ e.ip = table[i].ip /\ e.port = table[i].port /\ e.allocated /\ e.open
        /\ e.fd = table[i].fd /\ e.type = table[i].type /\ e.parent = table[i].parent
        /\ e.state = "LISTEN"
    BY <1>2, <1>3, Zenon DEF Entry
  <1> HIDE DEF e
  <1>6. EntryInv(e)
    BY <1>2, <1>3, <1>5, Zenon DEF EntryInv, Connected
  <1>7. ASSUME NEW j \in Positions, j # i, Clash(e, table[j]) PROVE FALSE
    <2>1. Clash(table[i], table[j])
      BY <1>2, <1>5, <1>7, Zenon DEF Clash, Exclusive, Connected
    <2> QED
      BY <1>3, <1>7, <2>1, Zenon
  <1> QED
    BY <1>2, <1>3, <1>4, <1>5, <1>6, <1>7, OpenStep, Zenon

(* The handle of an entry is in an application's hands while it is open.   *)
LEMMA HeldWhileOpen ==
    ASSUME HandleInv, NEW i \in Positions, table[i].allocated
    PROVE  table[i].fd \in held <=> table[i].open
  <1>1. held = {table[j].fd : j \in {k \in Positions : table[k].allocated /\ table[k].open}}
    BY Zenon DEF HandleInv
  <1>2. ASSUME table[i].fd \in held PROVE table[i].open
    <2>1. PICK j \in Positions : table[j].allocated /\ table[j].open /\ table[j].fd = table[i].fd
      BY <1>1, <1>2, Zenon
    <2> QED
      BY <2>1, HandlesDiffer, Zenon
  <1>3. ASSUME table[i].open PROVE table[i].fd \in held
    BY <1>1, <1>3, Zenon
  <1> QED
    BY <1>2, <1>3, Zenon

(* A step that leaves an entry's owner, binding and listener as they are.  *)
LEMMA KeepStep ==
    ASSUME SocketInv, NEW i \in Positions, NEW e \in Entry, table[i].allocated,
           table' = [table EXCEPT ![i] = e],
           generations' = generations, issued' = issued, held' = held, next_port' = next_port,
           e.allocated, e.open = table[i].open, e.fd = table[i].fd,
           e.parent = table[i].parent, e.port = table[i].port, EntryInv(e),
           \A j \in Positions : j # i => ~Clash(e, table[j]),
           table[i].state = "LISTEN" => e.state = "LISTEN"
    PROVE  SocketInv'
  <1>1. TableInv /\ HandleInv /\ table \in [Positions -> Entry] /\ next_port' \in Ephemeral
    BY Zenon DEF SocketInv, TableInv
  <1>2. table' \in [Positions -> Entry] /\ table'[i] = e /\ \A j \in Positions : j # i => table'[j] = table[j]
    BY <1>1, Zenon
  <1>3. \A j \in Positions : table[j].parent # 0 /\ ListensFor(table[i], table[j]) => ListensFor(e, table[j])
    BY Zenon DEF ListensFor
  <1>4. table[i].fd \in held <=> table[i].open
    BY <1>1, HeldWhileOpen, Zenon
  <1>5. held' = {fd \in held : fd # table[i].fd} \cup {fd \in {table[i].fd} : e.allocated /\ e.open}
    BY <1>4, Zenon
  <1> QED
    BY <1>1, <1>2, <1>3, <1>5, EntryStep, Zenon

(* The first slot of a set is one of them.                                 *)
LEMMA FirstOfSlots ==
    ASSUME NEW slots \in SUBSET Positions, FirstOf(slots) # Nobody
    PROVE  FirstOf(slots) \in slots
  <1>1. slots \in SUBSET Nat
    BY TableAssumption DEF Positions
  <1>2. slots # {} /\ FirstOf(slots) = Min(slots)
    BY Zenon DEF FirstOf
  <1> QED
    BY <1>1, <1>2, MinIsLeast, Zenon

(* A datagram enters or leaves a receive ring.                             *)
LEMMA CountKeeps ==
    ASSUME SocketInv, NEW i \in Positions, table[i].allocated, table[i].type = "dgram",
           NEW n \in 0 .. QueueSize, table' = [table EXCEPT ![i].count = n],
           generations' = generations, issued' = issued, held' = held, next_port' = next_port
    PROVE  SocketInv'
  <1>1. /\ table \in [Positions -> Entry] /\ table[i] \in Entry /\ EntryInv(table[i])
        /\ \A j \in Positions : j # i => ~Clash(table[i], table[j])
    BY Zenon DEF SocketInv, TableInv
  <1> DEFINE e == [table[i] EXCEPT !.count = n]
  <1>2. table' = [table EXCEPT ![i] = e]
    BY <1>1, Zenon
  <1>3. /\ e \in Entry /\ e.ip = table[i].ip /\ e.port = table[i].port /\ e.allocated /\ e.open = table[i].open
        /\ e.fd = table[i].fd /\ e.type = table[i].type /\ e.parent = table[i].parent
        /\ e.state = table[i].state /\ e.error = table[i].error /\ e.remote = table[i].remote
    BY <1>1, Zenon DEF Entry
  <1> HIDE DEF e
  <1>4. EntryInv(e)
    BY <1>1, <1>3, Zenon DEF EntryInv, Connected
  <1>5. ASSUME NEW j \in Positions, j # i, Clash(e, table[j]) PROVE FALSE
    <2>1. Clash(table[i], table[j])
      BY <1>3, <1>5, Zenon DEF Clash, Exclusive, Connected
    <2> QED
      BY <1>1, <1>5, <2>1, Zenon
  <1> QED
    BY <1>2, <1>3, <1>4, <1>5, KeepStep, Zenon

(* core_recvfrom()                                                         *)
LEMMA ReceiveKeeps ==
    ASSUME SocketInv, NEW fd \in 1 .. IntMax, Receive(fd)
    PROVE  SocketInv'
  <1>1. PICK i : i = Get(fd)
    BY Zenon
  <1>2. i \in Positions /\ table[i].allocated /\ table[i].type = "dgram" /\ table[i].count > 0
    BY <1>1, GetFinds, Zenon DEF Receive
  <1>3. table \in [Positions -> Entry] /\ table[i].count \in 0 .. QueueSize
    BY <1>2, Zenon DEF SocketInv, TableInv, Entry
  <1>4. PICK n : n = table[i].count - 1
    BY Zenon
  <1>5. n \in 0 .. QueueSize
    BY <1>2, <1>3, <1>4, TableAssumption
  <1>6. /\ table' = [table EXCEPT ![i].count = n]
        /\ generations' = generations /\ issued' = issued /\ held' = held /\ next_port' = next_port
    BY <1>1, <1>2, <1>3, <1>4, Zenon DEF Receive
  <1> QED
    BY <1>2, <1>5, <1>6, CountKeeps, Zenon

(* udp_deliver()                                                           *)
LEMMA DeliverKeeps ==
    ASSUME SocketInv, NEW ip, NEW port, NEW peer, Deliver(ip, port, peer)
    PROVE  SocketInv'
  <1>1. PICK i : i = FirstOf(Matches("dgram", ip, port))
    BY Zenon
  <1>2. i \in Matches("dgram", ip, port) /\ Matches("dgram", ip, port) \subseteq Positions
    <2>1. Matches("dgram", ip, port) \in SUBSET Positions
      BY Zenon DEF Matches
    <2> QED
      BY <1>1, <2>1, FirstOfSlots, Zenon DEF Deliver
  <1>3. i \in Positions /\ table[i].allocated /\ table[i].type = "dgram" /\ table[i].count < QueueSize
    BY <1>1, <1>2, Zenon DEF Matches, Deliver
  <1>4. table \in [Positions -> Entry] /\ table[i].count \in 0 .. QueueSize
    BY <1>3, Zenon DEF SocketInv, TableInv, Entry
  <1>5. PICK n : n = table[i].count + 1
    BY Zenon
  <1>6. n \in 0 .. QueueSize
    BY <1>3, <1>4, <1>5, TableAssumption
  <1>7. /\ table' = [table EXCEPT ![i].count = n]
        /\ generations' = generations /\ issued' = issued /\ held' = held /\ next_port' = next_port
    BY <1>1, <1>3, <1>4, <1>5, Zenon DEF Deliver
  <1> QED
    BY <1>3, <1>6, <1>7, CountKeeps, Zenon

(* The handshake of a stream completes.                                    *)
LEMMA EstablishKeeps ==
    ASSUME SocketInv, NEW i \in Positions, Establish(i)
    PROVE  SocketInv'
  <1>1. /\ table \in [Positions -> Entry] /\ table[i] \in Entry /\ EntryInv(table[i])
        /\ \A j \in Positions : j # i => ~Clash(table[i], table[j])
        /\ generations' = generations /\ issued' = issued /\ held' = held /\ next_port' = next_port
    BY Zenon DEF SocketInv, TableInv, Establish
  <1>2. table[i].state \in {"SYN_SENT", "SYN_RECEIVED"}
    BY Zenon DEF Establish
  <1>3. table[i].allocated /\ table[i].type = "stream"
    BY <1>1, <1>2 DEF EntryInv, Unused
  <1> DEFINE e == [table[i] EXCEPT !.state = "UP"]
  <1>4. table' = [table EXCEPT ![i] = e]
    BY <1>1, Zenon DEF Establish
  <1>5. /\ e \in Entry /\ e.ip = table[i].ip /\ e.port = table[i].port /\ e.allocated /\ e.open = table[i].open
        /\ e.fd = table[i].fd /\ e.type = table[i].type /\ e.parent = table[i].parent
        /\ e.state = "UP" /\ e.error = table[i].error /\ e.remote = table[i].remote
    BY <1>1, <1>3, Zenon DEF Entry
  <1> HIDE DEF e
  <1>6. EntryInv(e)
    BY <1>1, <1>3, <1>5, Zenon DEF EntryInv, Connected
  <1>7. ASSUME NEW j \in Positions, j # i, Clash(e, table[j]) PROVE FALSE
    <2>1. Clash(table[i], table[j])
      BY <1>2, <1>3, <1>5, <1>7, Zenon DEF Clash, Exclusive, Connected
    <2> QED
      BY <1>1, <1>7, <2>1, Zenon
  <1> QED
    BY <1>1, <1>2, <1>3, <1>4, <1>5, <1>6, <1>7, KeepStep, Zenon

(* An unused entry clashes with nobody.                                    *)
LEMMA UnusedFree ==
    /\ Unused \in Entry /\ EntryInv(Unused)
    /\ ~Unused.allocated /\ ~Unused.open /\ Unused.parent = 0
    /\ \A f : ~Clash(Unused, f)
  <1>1. Unused \in Entry
    BY TableAssumption DEF Unused, Entry
  <1>2. ~Unused.allocated /\ ~Unused.open /\ Unused.parent = 0
    BY Zenon DEF Unused
  <1>3. EntryInv(Unused)
    BY Zenon DEF EntryInv, Unused
  <1>4. \A f : ~Clash(Unused, f)
    BY <1>2, Zenon DEF Clash, Connected
  <1> QED
    BY <1>1, <1>2, <1>3, <1>4, Zenon

(* tcp_fail() frees an entry that nobody has open, and otherwise leaves    *)
(* one that cannot be connected again.                                     *)
LEMMA FailKeeps ==
    ASSUME SocketInv, NEW i \in Positions, Fail(i)
    PROVE  SocketInv'
  <1>1. /\ TableInv /\ HandleInv /\ next_port \in Ephemeral
        /\ table \in [Positions -> Entry] /\ table[i] \in Entry /\ EntryInv(table[i])
        /\ \A j \in Positions : j # i => ~Clash(table[i], table[j])
        /\ generations' = generations /\ issued' = issued /\ held' = held /\ next_port' = next_port
    BY Zenon DEF SocketInv, TableInv, Fail
  <1>2. Connected(table[i]) /\ table[i].allocated /\ table[i].type = "stream" /\ table[i].state # "LISTEN"
    BY Zenon DEF Fail, Connected
  <1>3. PICK e : e = Failed(table[i])
    BY Zenon
  <1>4. /\ table' \in [Positions -> Entry] /\ table'[i] = e /\ e \in Entry
        /\ \A j \in Positions : j # i => table'[j] = table[j]
    <2>1. e \in Entry
      <3>1. table[i] \in Entry /\ 0 \in Nat
        BY <1>1
      <3>2. [table[i] EXCEPT !.error = TRUE, !.state = "CLOSED", !.parent = 0] \in Entry
        BY <3>1, Zenon DEF Entry
      <3> QED
        BY <1>3, <3>2, UnusedFree, Zenon DEF Failed
    <2>2. table' = [table EXCEPT ![i] = e]
      BY <1>1, <1>3, Zenon DEF Fail
    <2> QED
      BY <1>1, <2>1, <2>2, Zenon
  <1>5. table[i].fd \in held <=> table[i].open
    BY <1>1, <1>2, HeldWhileOpen, Zenon
  <1>6. \A j \in Positions : table[j].parent # 0 /\ ListensFor(table[i], table[j]) => ListensFor(e, table[j])
    BY <1>2, Zenon DEF ListensFor
  <1>7. CASE table[i].open
    <2>1. /\ e.ip = table[i].ip /\ e.port = table[i].port /\ e.allocated /\ e.open
          /\ e.fd = table[i].fd /\ e.type = table[i].type /\ e.parent = 0
          /\ e.state = "CLOSED" /\ e.error
      BY <1>1, <1>2, <1>3, <1>7, Zenon DEF Failed, Entry
    <2>2. EntryInv(e)
      BY <1>2, <2>1, Zenon DEF EntryInv
    <2>3. ASSUME NEW j \in Positions, j # i, Clash(e, table[j]) PROVE FALSE
      <3>1. Clash(table[i], table[j])
        BY <1>2, <2>1, <2>3, Zenon DEF Clash, Exclusive, Connected
      <3> QED
        BY <1>1, <2>3, <3>1, Zenon
    <2>4. held' = {fd \in held : fd # table[i].fd} \cup {fd \in {table[i].fd} : e.allocated /\ e.open}
      BY <1>1, <1>5, <1>7, <2>1, Zenon
    <2>5. next_port' \in Ephemeral
      BY <1>1, Zenon
    <2> QED
      BY <1>1, <1>2, <1>4, <1>6, <2>1, <2>2, <2>3, <2>4, <2>5, EntryStep
  <1>8. CASE ~table[i].open
    <2>1. e = Unused
      BY <1>3, <1>8, Zenon DEF Failed
    <2>2. /\ EntryInv(e) /\ ~e.allocated /\ e.parent = 0
          /\ \A j \in Positions : j # i => ~Clash(e, table[j])
      BY <2>1, UnusedFree, Zenon
    <2>3. held' = {fd \in held : fd # table[i].fd} \cup {fd \in {table[i].fd} : e.allocated /\ e.open}
      BY <1>1, <1>5, <1>8, <2>2, Zenon
    <2>4. next_port' \in Ephemeral
      BY <1>1, Zenon
    <2> QED
      BY <1>1, <1>2, <1>4, <1>6, <2>2, <2>3, <2>4, EntryStep
  <1> QED
    BY <1>7, <1>8, Zenon

(* tcp_accept(): the connection passes from its listener to the            *)
(* application.                                                            *)
LEMMA AcceptKeeps ==
    ASSUME SocketInv, NEW fd \in 1 .. IntMax, Accept(fd)
    PROVE  SocketInv'
  <1> DEFINE ready == {j \in Children(fd) : table[j].state = "UP"}
  <1>1. PICK i : i = FirstOf(ready)
    BY Zenon
  <1>2. i \in Positions /\ i \in Children(fd) /\ table[i].state = "UP"
    <2>1. ready \in SUBSET Positions
      BY Zenon DEF Children
    <2>2. i # Nobody
      BY <1>1, Zenon DEF Accept
    <2> HIDE DEF ready
    <2>3. i \in ready
      BY <1>1, <2>1, <2>2, FirstOfSlots, Zenon
    <2> QED
      BY <2>1, <2>3, Zenon DEF ready
  <1>3. table[i].allocated /\ table[i].type = "stream"
    BY <1>2, Zenon DEF Children
  <1>4. /\ TableInv /\ HandleInv /\ next_port \in Ephemeral
        /\ table \in [Positions -> Entry] /\ table[i] \in Entry /\ EntryInv(table[i])
        /\ \A j \in Positions : j # i => ~Clash(table[i], table[j])
        /\ generations' = generations /\ issued' = issued /\ next_port' = next_port
    BY <1>2, Zenon DEF SocketInv, TableInv, Accept
  <1> DEFINE e == [table[i] EXCEPT !.open = TRUE, !.parent = 0]
  <1>5. table' = [table EXCEPT ![i] = e] /\ held' = held \cup {table[i].fd}
    BY <1>1, <1>2, <1>4, Zenon DEF Accept
  <1>6. /\ e \in Entry /\ e.ip = table[i].ip /\ e.port = table[i].port /\ e.allocated /\ e.open
        /\ e.fd = table[i].fd /\ e.type = table[i].type /\ e.parent = 0
        /\ e.state = table[i].state /\ e.error = table[i].error /\ e.remote = table[i].remote
    BY <1>3, <1>4, Zenon DEF Entry
  <1> HIDE DEF e
  <1>7. /\ table' \in [Positions -> Entry] /\ table'[i] = e
        /\ \A j \in Positions : j # i => table'[j] = table[j]
    BY <1>2, <1>4, <1>5, <1>6, Zenon
  <1>8. EntryInv(e)
    BY <1>2, <1>3, <1>6, Zenon DEF EntryInv
  <1>9. ASSUME NEW j \in Positions, j # i, Clash(e, table[j]) PROVE FALSE
    <2>1. Clash(table[i], table[j])
      BY <1>3, <1>6, <1>9, Zenon DEF Clash, Exclusive, Connected
    <2> QED
      BY <1>4, <1>9, <2>1, Zenon
  <1>10. \A j \in Positions : table[j].parent # 0 /\ ListensFor(table[i], table[j]) => ListensFor(e, table[j])
    BY <1>2, Zenon DEF ListensFor
  <1>11. held' = {h \in held : h # table[i].fd} \cup {h \in {table[i].fd} : e.allocated /\ e.open}
    BY <1>5, <1>6, Zenon
  <1>12. next_port' \in Ephemeral
    BY <1>4, Zenon
  <1> QED
    BY <1>2, <1>3, <1>4, <1>6, <1>7, <1>8, <1>9, <1>10, <1>11, <1>12, EntryStep

(* Freeing entries keeps the invariant when those that wait for a listener *)
(* go with it.                                                             *)
LEMMA FreeKeeps ==
    ASSUME SocketInv, table' \in [Positions -> Entry],
           \A j \in Positions : table'[j] = table[j] \/ table'[j] = Unused,
           \A j, l \in Positions :
               table'[j].parent # 0 /\ ListensFor(table[l], table[j]) => table'[l] = table[l],
           generations' = generations, issued' = issued, next_port' = next_port,
           held' = {table'[j].fd : j \in {k \in Positions : table'[k].allocated /\ table'[k].open}}
    PROVE  SocketInv'
  <1>1. TableInv /\ HandleInv /\ next_port \in Ephemeral
    BY Zenon DEF SocketInv
  <1>2. \A j \in Positions : EntryInv(table'[j])
    BY <1>1, UnusedFree, Zenon DEF TableInv
  <1>3. ASSUME NEW j \in Positions, NEW k \in Positions, j # k
        PROVE  ~Clash(table'[j], table'[k])
    <2>1. CASE table'[j] = Unused
      BY <2>1, UnusedFree, Zenon
    <2>2. CASE table'[k] = Unused
      BY <2>2, UnusedFree, ClashMutual, Zenon
    <2>3. CASE table'[j] = table[j] /\ table'[k] = table[k]
      BY <1>1, <1>3, <2>3, Zenon DEF TableInv
    <2> QED
      BY <2>1, <2>2, <2>3, Zenon
  <1>4. ASSUME NEW j \in Positions, table'[j].parent # 0
        PROVE  \E l \in Positions : ListensFor(table'[l], table'[j])
    <2>1. table'[j] = table[j]
      BY <1>4, UnusedFree, Zenon
    <2>2. PICK l \in Positions : ListensFor(table[l], table[j])
      BY <1>1, <1>4, <2>1, Zenon DEF TableInv
    <2>3. table'[l] = table[l]
      BY <1>4, <2>2, Zenon
    <2> QED
      BY <2>1, <2>2, <2>3, Zenon
  <1>5. TableInv'
    <2>1. Positions' = Positions
      BY Zenon DEF Positions
    <2> QED
      BY <1>2, <1>3, <1>4, Zenon DEF TableInv, EntryInv, Clash, Exclusive, Connected, Overlap, ListensFor, Unused
  <1>6. HandleInv'
    <2>1. ASSUME NEW j \in Positions, table'[j].allocated
          PROVE  issued[j] # <<>> /\ table'[j].fd = issued[j][Len(issued[j])]
      <3>1. table'[j] = table[j]
        BY <2>1, UnusedFree, Zenon
      <3> QED
        BY <1>1, <2>1, <3>1, Zenon DEF HandleInv
    <2> QED
      BY <1>1, <2>1, Zenon DEF HandleInv, Handle, LastGeneration, Positions
  <1> QED
    BY <1>1, <1>5, <1>6, Zenon DEF SocketInv, Ephemeral

(* core_close()                                                            *)
LEMMA CloseSocketKeeps ==
    ASSUME SocketInv, NEW fd \in 1 .. IntMax, Close(fd)
    PROVE  SocketInv'
  <1>1. PICK i : i = Get(fd)
    BY Zenon
  <1>2. i \in Positions /\ table[i].allocated /\ table[i].open /\ table[i].fd = fd
    BY <1>1, GetFinds, Zenon DEF Close
  <1>3. /\ TableInv /\ HandleInv /\ next_port \in Ephemeral
        /\ table \in [Positions -> Entry] /\ table[i] \in Entry
        /\ \A j \in Positions : EntryInv(table[j])
        /\ \A j \in Positions : j # i => ~Clash(table[i], table[j])
        /\ generations' = generations /\ issued' = issued /\ next_port' = next_port
        /\ held' = held \ {fd} /\ table' = ClosedTable(i)
    BY <1>1, <1>2, Zenon DEF SocketInv, TableInv, Close
  <1> DEFINE e == [table[i] EXCEPT !.open = FALSE]
  <1>4. /\ e \in Entry /\ e.ip = table[i].ip /\ e.port = table[i].port /\ e.allocated /\ ~e.open
        /\ e.fd = table[i].fd /\ e.type = table[i].type /\ e.parent = table[i].parent
        /\ e.state = table[i].state /\ e.error = table[i].error /\ e.remote = table[i].remote
    BY <1>2, <1>3, Zenon DEF Entry
  <1>5. CASE e.type = "stream" /\ e.state = "UP"
    <2>1. table' = [table EXCEPT ![i] = e]
      BY <1>3, <1>5, Zenon DEF ClosedTable
    <2> HIDE DEF e
    <2>2. /\ table' \in [Positions -> Entry] /\ table'[i] = e
          /\ \A j \in Positions : j # i => table'[j] = table[j]
      BY <1>2, <1>3, <1>4, <2>1, Zenon
    <2>3. EntryInv(e)
      BY <1>2, <1>3, <1>4, <1>5, Zenon DEF EntryInv, Connected
    <2>4. ASSUME NEW j \in Positions, j # i, Clash(e, table[j]) PROVE FALSE
      <3>1. Clash(table[i], table[j])
        BY <1>2, <1>4, <2>4, Zenon DEF Clash, Exclusive, Connected
      <3> QED
        BY <1>3, <2>4, <3>1, Zenon
    <2>5. \A j \in Positions : table[j].parent # 0 /\ ListensFor(table[i], table[j]) => ListensFor(e, table[j])
      BY <1>4, <1>5, Zenon DEF ListensFor
    <2>6. held' = {h \in held : h # table[i].fd} \cup {h \in {table[i].fd} : e.allocated /\ e.open}
      BY <1>2, <1>3, <1>4, Zenon
    <2>7. next_port' \in Ephemeral
      BY <1>3, Zenon
    <2> QED
      BY <1>2, <1>3, <1>4, <2>2, <2>3, <2>4, <2>5, <2>6, <2>7, EntryStep
  <1>6. CASE ~(e.type = "stream" /\ e.state = "UP")
    <2>1. table' = [j \in Positions |->
                 CASE j = i -> Unused
                   [] j # i /\ e.state = "LISTEN" /\ j \in Children(e.fd) -> Failed(table[j])
                   [] OTHER -> table[j]]
      BY <1>3, <1>6, Zenon DEF ClosedTable
    <2> HIDE DEF e
    <2>2. ASSUME NEW j \in Positions, j \in Children(fd)
          PROVE  table[j].parent = fd /\ ~table[j].open /\ Failed(table[j]) = Unused
      <3>1. table[j].parent = fd /\ fd # 0
        BY <2>2 DEF Children
      <3>2. ~table[j].open
        BY <1>3, <3>1, Zenon DEF EntryInv
      <3> QED
        BY <3>1, <3>2, Zenon DEF Failed
    <2>3. ASSUME NEW j \in Positions
          PROVE  table'[j] = IF j = i \/ (table[i].state = "LISTEN" /\ j \in Children(fd))
                             THEN Unused ELSE table[j]
      <3>1. CASE j = i
        BY <2>1, <3>1, Zenon
      <3>2. CASE j # i /\ table[i].state = "LISTEN" /\ j \in Children(fd)
        BY <1>2, <1>4, <2>1, <2>2, <3>2, Zenon
      <3>3. CASE j # i /\ ~(table[i].state = "LISTEN" /\ j \in Children(fd))
        BY <1>2, <1>4, <2>1, <3>3, Zenon
      <3> QED
        BY <3>1, <3>2, <3>3, Zenon
    <2>4. table' \in [Positions -> Entry]
      <3>1. table' = [j \in Positions |-> table'[j]]
        BY <2>1, Zenon
      <3>2. \A j \in Positions : table'[j] \in Entry
        BY <1>3, <2>3, UnusedFree, Zenon
      <3> QED
        BY <3>1, <3>2, Zenon
    <2>5. ASSUME NEW j \in Positions, NEW l \in Positions, table'[j].parent # 0,
                 ListensFor(table[l], table[j])
          PROVE  table'[l] = table[l]
      <3>1. table'[j] = table[j] /\ j # i /\ ~(table[i].state = "LISTEN" /\ j \in Children(fd))
        BY <2>3, <2>5, UnusedFree, Zenon
      <3>2. table[j].parent # 0 /\ Connected(table[j])
        BY <1>3, <2>5, <3>1, Zenon DEF EntryInv
      <3>3. l # i
        BY <1>2, <2>5, <3>1, <3>2, Zenon DEF ListensFor, Children, Connected
      <3>4. l \notin Children(fd)
        <4>1. table[l].open
          BY <2>5, Zenon DEF ListensFor
        <4> QED
          BY <2>2, <4>1, Zenon
      <3> QED
        BY <2>3, <3>3, <3>4, Zenon
    <2>6. held' = {table'[j].fd : j \in {k \in Positions : table'[k].allocated /\ table'[k].open}}
      <3> DEFINE R == {table'[j].fd : j \in {k \in Positions : table'[k].allocated /\ table'[k].open}}
      <3>1. held = {table[j].fd : j \in {k \in Positions : table[k].allocated /\ table[k].open}}
        BY <1>3, Zenon DEF HandleInv
      <3>2. ASSUME NEW h \in held' PROVE h \in R
        <4>1. h \in held /\ h # fd
          BY <1>3, <3>2, Zenon
        <4>2. PICK j \in Positions : table[j].allocated /\ table[j].open /\ table[j].fd = h
          BY <3>1, <4>1, Zenon
        <4>3. j # i /\ j \notin Children(fd)
          BY <1>2, <2>2, <4>1, <4>2, Zenon
        <4>4. table'[j] = table[j]
          BY <2>3, <4>3, Zenon
        <4> QED
          BY <4>2, <4>4, Zenon
      <3>3. ASSUME NEW h \in R PROVE h \in held'
        <4>1. PICK j \in Positions : table'[j].allocated /\ table'[j].open /\ table'[j].fd = h
          BY <3>3, Zenon
        <4>2. table'[j] = table[j] /\ j # i
          BY <2>3, <4>1, UnusedFree, Zenon
        <4>3. table[j].allocated /\ table[j].open /\ table[j].fd = h
          BY <4>1, <4>2, Zenon
        <4>4. h \in held
          BY <3>1, <4>3, Zenon
        <4>5. h # fd
          BY <1>2, <1>3, <4>2, <4>3, HandlesDiffer, Zenon
        <4> QED
          BY <1>3, <4>4, <4>5, Zenon
      <3> QED
        BY <3>2, <3>3, Zenon
    <2>7. \A j \in Positions : table'[j] = table[j] \/ table'[j] = Unused
      BY <2>3, Zenon
    <2> QED
      BY <1>3, <2>4, <2>5, <2>6, <2>7, FreeKeeps, Zenon
  <1> QED
    BY <1>5, <1>6, Zenon

(* socket_allocate(): the handle is the next one of its slot.              *)
LEMMA AllocateHandle ==
    ASSUME HandleInv, NEW i \in Positions, NEW e, e.fd = generations[i] * SocketMax + i + 1,
           table' \in [Positions -> Entry], table'[i] = e, e.allocated, ~table[i].allocated,
           \A j \in Positions : j # i => table'[j] = table[j],
           generations' = [generations EXCEPT ![i] = NextGeneration(i)],
           issued' = [issued EXCEPT ![i] = Append(@, e.fd)],
           held' = held \cup {h \in {e.fd} : e.open}
    PROVE  HandleInv'
  <1> DEFINE w(j) == LastGeneration(j)
             n == Len(issued[i])
  <1>1. /\ generations = [j \in Positions |-> Len(issued[j]) % (w(j) + 1)]
        /\ issued \in [Positions -> Seq(Nat)]
        /\ \A j \in Positions : \A k \in DOMAIN issued[j] : issued[j][k] = Handle(j, k)
        /\ \A j \in Positions : table[j].allocated =>
               issued[j] # <<>> /\ table[j].fd = issued[j][Len(issued[j])]
        /\ held = {table[j].fd : j \in {k \in Positions : table[k].allocated /\ table[k].open}}
    BY Zenon DEF HandleInv
  <1>2. n \in Nat /\ DOMAIN issued[i] = 1 .. n /\ w(i) \in Nat /\ w(i) + 1 \in Nat \ {0}
    BY <1>1, Generations
  <1>3. generations[i] = n % (w(i) + 1)
    BY <1>1, Zenon
  <1>4. e.fd = Handle(i, n + 1) /\ e.fd \in 1 .. IntMax
    <2>1. (n + 1) - 1 = n /\ n + 1 \in Nat \ {0}
      BY <1>2
    <2>2. e.fd = Handle(i, n + 1)
      BY <1>3, <2>1, Zenon DEF Handle
    <2> QED
      BY <2>1, <2>2, HandleSlot, Zenon
  <1>5. NextGeneration(i) = (n + 1) % (w(i) + 1)
    <2>1. NextGeneration(i) = IF generations[i] = w(i) THEN 0 ELSE generations[i] + 1
      BY Zenon DEF NextGeneration, LastGeneration
    <2>2. (w(i) + 1) - 1 = w(i) /\ n \in Int
      BY <1>2
    <2> HIDE DEF w, n
    <2>3. (n + 1) % (w(i) + 1) = IF n % (w(i) + 1) = (w(i) + 1) - 1 THEN 0 ELSE (n % (w(i) + 1)) + 1
      BY <1>2, <2>2, ModSucc, Zenon
    <2> QED
      BY <1>3, <2>1, <2>2, <2>3, Zenon
  <1>6. /\ issued' \in [Positions -> Seq(Nat)] /\ issued'[i] = Append(issued[i], e.fd)
        /\ Len(issued'[i]) = n + 1 /\ DOMAIN issued'[i] = 1 .. n + 1
        /\ issued'[i][n + 1] = e.fd /\ \A k \in 1 .. n : issued'[i][k] = issued[i][k]
        /\ \A j \in Positions : j # i => issued'[j] = issued[j]
    <2>1. e.fd \in Nat
      BY <1>4
    <2>2. /\ issued'[i] = Append(issued[i], e.fd) /\ issued[i] \in Seq(Nat)
          /\ \A j \in Positions : j # i => issued'[j] = issued[j]
      BY <1>1, Zenon
    <2>3. issued' \in [Positions -> Seq(Nat)]
      BY <1>1, <2>1, <2>2
    <2> QED
      BY <1>2, <2>1, <2>2, <2>3
  <1>7. generations' = [j \in Positions |-> Len(issued'[j]) % (w(j) + 1)]
    <2>1. DOMAIN generations = Positions /\ generations' = [j \in Positions |-> generations'[j]]
      BY <1>1, Zenon
    <2>2. generations'[i] = (n + 1) % (w(i) + 1)
      BY <1>1, <1>5, Zenon
    <2>3. \A j \in Positions : j # i => generations'[j] = Len(issued[j]) % (w(j) + 1)
      BY <1>1, Zenon
    <2> HIDE DEF w
    <2>4. \A j \in Positions : generations'[j] = Len(issued'[j]) % (w(j) + 1)
      BY <1>6, <2>2, <2>3, Zenon
    <2> QED
      BY <2>1, <2>4, Zenon
  <1>8. ASSUME NEW j \in Positions, NEW k \in DOMAIN issued'[j]
        PROVE  issued'[j][k] = Handle(j, k)
    <2>1. CASE j # i
      <3>1. issued'[j] = issued[j]
        BY <1>6, <2>1, Zenon
      <3>2. k \in DOMAIN issued[j]
        BY <1>8, <3>1, Zenon
      <3> QED
        BY <1>1, <3>1, <3>2, Zenon
    <2>2. CASE j = i
      <3>1. k = n + 1 \/ k \in 1 .. n
        BY <1>2, <1>6, <2>2
      <3>2. CASE k = n + 1
        BY <1>4, <1>6, <2>2, <3>2, Zenon
      <3>3. CASE k \in 1 .. n
        BY <1>1, <1>2, <1>6, <2>2, <3>3
      <3> QED
        BY <3>1, <3>2, <3>3, Zenon
    <2> QED
      BY <2>1, <2>2, Zenon
  <1>9. ASSUME NEW j \in Positions, table'[j].allocated
        PROVE  issued'[j] # <<>> /\ table'[j].fd = issued'[j][Len(issued'[j])]
    <2>1. CASE j # i
      <3>1. issued'[j] = issued[j] /\ table'[j] = table[j]
        BY <1>6, <2>1, Zenon
      <3>2. table[j].allocated => issued[j] # <<>> /\ table[j].fd = issued[j][Len(issued[j])]
        BY <1>1, Zenon
      <3> QED
        BY <1>9, <3>1, <3>2
    <2>2. CASE j = i
      <3>1. issued'[i] # <<>>
        BY <1>2, <1>6
      <3> QED
        BY <1>6, <2>2, <3>1, Zenon
    <2> QED
      BY <2>1, <2>2, Zenon
  <1>10. held' = {table'[j].fd : j \in {k \in Positions : table'[k].allocated /\ table'[k].open}}
    <2>1. ASSUME NEW h \in held'
          PROVE  \E j \in Positions : table'[j].allocated /\ table'[j].open /\ table'[j].fd = h
      <3>1. CASE h \in held
        <4>1. PICK j \in Positions : table[j].allocated /\ table[j].open /\ table[j].fd = h
          BY <1>1, <3>1, Zenon
        <4>2. table'[j] = table[j]
          BY <4>1, Zenon
        <4> QED
          BY <4>1, <4>2, Zenon
      <3>2. CASE h = e.fd /\ e.open
        BY <3>2, Zenon
      <3> QED
        BY <2>1, <3>1, <3>2, Zenon
    <2>2. ASSUME NEW j \in Positions, table'[j].allocated, table'[j].open
          PROVE  table'[j].fd \in held'
      BY <1>1, <2>2, Zenon
    <2> QED
      BY <2>1, <2>2
  <1> HIDE DEF n
  <1> QED
    BY <1>6, <1>7, <1>8, <1>9, <1>10, Zenon DEF HandleInv, Handle, LastGeneration, Positions

(* The new entry may wait for a listener that is there, and clashes with   *)
(* nobody.                                                                 *)
LEMMA AllocateKeeps ==
    ASSUME SocketInv, NEW i \in Positions, NEW e \in Entry, e.fd = generations[i] * SocketMax + i + 1,
           ~table[i].allocated, e.allocated, EntryInv(e),
           \A j \in Positions : j # i => ~Clash(e, table[j]),
           e.parent # 0 => \E l \in Positions : ListensFor(table[l], e),
           Allocate(i, e), next_port' = next_port,
           held' = held \cup {h \in {e.fd} : e.open}
    PROVE  SocketInv'
  <1>1. TableInv /\ HandleInv /\ next_port \in Ephemeral /\ table \in [Positions -> Entry]
    BY Zenon DEF SocketInv, TableInv
  <1>2. /\ table' \in [Positions -> Entry] /\ table'[i] = e
        /\ \A j \in Positions : j # i => table'[j] = table[j]
        /\ generations' = [generations EXCEPT ![i] = NextGeneration(i)]
        /\ issued' = [issued EXCEPT ![i] = Append(@, e.fd)]
    BY <1>1, Zenon DEF Allocate
  <1>3. HandleInv'
    BY <1>1, <1>2, AllocateHandle, Zenon
  <1>4. \A j \in Positions : EntryInv(table'[j])
    BY <1>1, <1>2, Zenon DEF TableInv
  <1>5. ASSUME NEW j \in Positions, NEW k \in Positions, j # k
        PROVE  ~Clash(table'[j], table'[k])
    <2>1. CASE j = i
      BY <1>2, <1>5, <2>1, Zenon
    <2>2. CASE k = i
      BY <1>2, <1>5, <2>2, ClashMutual, Zenon
    <2>3. CASE j # i /\ k # i
      BY <1>1, <1>2, <1>5, <2>3, Zenon DEF TableInv
    <2> QED
      BY <2>1, <2>2, <2>3, Zenon
  <1>6. ASSUME NEW j \in Positions, table'[j].parent # 0
        PROVE  \E l \in Positions : ListensFor(table'[l], table'[j])
    <2>1. PICK l \in Positions : ListensFor(table[l], table'[j])
      BY <1>1, <1>2, <1>6, Zenon DEF TableInv
    <2>2. l # i
      BY <2>1, Zenon DEF ListensFor
    <2> QED
      BY <1>2, <2>1, <2>2, Zenon
  <1>7. TableInv'
    <2>1. Positions' = Positions
      BY Zenon DEF Positions
    <2> QED
      BY <1>2, <1>4, <1>5, <1>6, Zenon DEF TableInv, EntryInv, Clash, Exclusive, Connected, Overlap, ListensFor, Unused
  <1> QED
    BY <1>1, <1>3, <1>7, Zenon DEF SocketInv, Ephemeral

(* The slot that socket_allocate() takes, and the handle it makes.         *)
LEMMA VacantSlot ==
    ASSUME SocketInv, FirstOf(Vacant) # Nobody
    PROVE  /\ FirstOf(Vacant) \in Positions /\ ~table[FirstOf(Vacant)].allocated
           /\ generations[FirstOf(Vacant)] * SocketMax + FirstOf(Vacant) + 1 \in Nat
  <1>1. PICK i : i = FirstOf(Vacant)
    BY Zenon
  <1>2. i \in Positions /\ ~table[i].allocated
    <2>1. Vacant \in SUBSET Positions
      BY Zenon DEF Vacant
    <2>2. i \in Vacant
      BY <1>1, <2>1, FirstOfSlots, Zenon
    <2> QED
      BY <2>2, Zenon DEF Vacant
  <1>3. generations[i] = Len(issued[i]) % (LastGeneration(i) + 1) /\ issued[i] \in Seq(Nat)
    BY <1>2, Zenon DEF SocketInv, HandleInv
  <1>4. Len(issued[i]) \in Int /\ LastGeneration(i) + 1 \in Nat \ {0}
    BY <1>2, <1>3, Generations
  <1>5. generations[i] \in Nat
    <2>1. PICK n \in Int : n = Len(issued[i])
      BY <1>4, Zenon
    <2>2. PICK w \in Nat \ {0} : w = LastGeneration(i) + 1
      BY <1>4, Zenon
    <2>3. n % w \in Nat
      BY ModRange
    <2> QED
      BY <1>3, <2>1, <2>2, <2>3, Zenon
  <1>6. SocketMax \in Nat /\ i \in Nat
    BY <1>2, Generations, Zenon
  <1>7. generations[i] * SocketMax + i + 1 \in Nat
    BY <1>5, <1>6
  <1> QED
    BY <1>1, <1>2, <1>7, Zenon

(* core_socket(): an entry that is not bound clashes with nobody.          *)
LEMMA SocketKeeps ==
    ASSUME SocketInv, NEW type \in Types, Socket(type)
    PROVE  SocketInv'
  <1>1. PICK i : i = FirstOf(Vacant)
    BY Zenon
  <1>2. /\ i # Nobody /\ Allocate(i, Allocated(i, type)) /\ next_port' = next_port
        /\ held' = held \cup {Allocated(i, type).fd}
    BY <1>1, Zenon DEF Socket
  <1>3. i \in Positions /\ ~table[i].allocated /\ generations[i] * SocketMax + i + 1 \in Nat
    BY <1>1, <1>2, VacantSlot, Zenon
  <1>4. PICK fd : fd = generations[i] * SocketMax + i + 1
    BY Zenon
  <1>5. PICK e : e = Allocated(i, type)
    BY Zenon
  <1>6. /\ e.fd = fd /\ e.allocated = TRUE /\ e.open = TRUE /\ e.port = 0 /\ e.parent = 0
        /\ e.state = "CLOSED" /\ ~e.error
    BY <1>4, <1>5, Zenon DEF Allocated, Unused
  <1>7. e \in Entry
    <2>1. 0 \in 0 .. LastPort /\ 0 \in 0 .. QueueSize
      BY TableAssumption
    <2> QED
      BY <1>3, <1>4, <1>5, <2>1, Zenon DEF Allocated, Unused, Entry
  <1>8. EntryInv(e)
    BY <1>6, Zenon DEF EntryInv
  <1>9. \A j \in Positions : j # i => ~Clash(e, table[j])
    BY <1>6, Zenon DEF Clash, Exclusive, Connected
  <1>10. held' = held \cup {h \in {e.fd} : e.open}
    BY <1>2, <1>5, <1>6, Zenon
  <1> QED
    BY <1>2, <1>3, <1>4, <1>5, <1>6, <1>7, <1>8, <1>9, <1>10, AllocateKeeps, Zenon

(* passive_open(): nobody has a binding of their own where a listener is,  *)
(* and the connection is the only one between its endpoints.               *)
LEMMA PassiveOpenKeeps ==
    ASSUME SocketInv, NEW ip \in LocalIps, NEW port \in Ports, NEW peer \in Peers,
           PassiveOpen(ip, port, peer)
    PROVE  SocketInv'
  <1>1. PICK i : i = FirstOf(Vacant)
    BY Zenon
  <1>2. PICK l : l = FirstOf(Listeners(ip, port))
    BY Zenon
  <1> DEFINE e == [Allocated(i, "stream") EXCEPT
                       !.open = FALSE, !.ip = ip, !.port = port, !.remote = peer,
                       !.parent = table[l].fd, !.state = "SYN_RECEIVED"]
  <1>3. /\ i # Nobody /\ l # Nobody /\ Allocate(i, e) /\ next_port' = next_port
        /\ held' = held /\ Connection(ip, port, peer) = {}
    BY <1>1, <1>2, Zenon DEF PassiveOpen
  <1>4. i \in Positions /\ ~table[i].allocated /\ generations[i] * SocketMax + i + 1 \in Nat
    BY <1>1, <1>3, VacantSlot, Zenon
  <1>5. /\ l \in Positions /\ table[l].allocated /\ table[l].type = "stream" /\ table[l].port = port
        /\ table[l].ip \in {AnyIp, ip} /\ table[l].open /\ table[l].state = "LISTEN"
    <2>1. Listeners(ip, port) \in SUBSET Positions
      BY Zenon DEF Listeners, Matches
    <2>2. l \in Listeners(ip, port)
      BY <1>2, <1>3, <2>1, FirstOfSlots, Zenon
    <2> QED
      BY <2>2, Zenon DEF Listeners, Matches
  <1>6. table[l].fd \in 1 .. IntMax /\ IntMax \in Nat
    BY <1>5, EntryHandle, TableAssumption, Zenon DEF SocketInv
  <1>7. PICK fd : fd = generations[i] * SocketMax + i + 1
    BY Zenon
  <1>8. /\ e.fd = fd /\ e.allocated = TRUE /\ e.open = FALSE /\ e.type = "stream" /\ e.ip = ip
        /\ e.port = port /\ e.remote = peer /\ e.parent = table[l].fd /\ e.state = "SYN_RECEIVED"
    BY <1>7, Zenon DEF Allocated, Unused
  <1>9. e \in Entry
    <2>1. port \in 0 .. LastPort /\ 0 \in 0 .. QueueSize /\ table[l].fd \in Nat
      BY <1>6, TableAssumption DEF Ports
    <2>2. Allocated(i, "stream") \in Entry
      <3>1. 0 \in 0 .. LastPort
        BY TableAssumption
      <3> QED
        BY <1>4, <2>1, <3>1, Zenon DEF Allocated, Unused, Entry
    <2> QED
      BY <2>1, <2>2, Zenon DEF Entry
  <1> HIDE DEF e
  <1>10. EntryInv(e) /\ Connected(e)
    BY <1>8, Zenon DEF EntryInv, Connected
  <1>11. ASSUME NEW j \in Positions, j # i, Clash(e, table[j])
         PROVE  FALSE
    <2>1. CASE Connected(table[j]) /\ e.ip = table[j].ip /\ e.port = table[j].port /\ e.remote = table[j].remote
      BY <1>3, <1>8, <2>1, Zenon DEF Connection
    <2>2. CASE /\ table[j].allocated /\ table[j].type = "stream" /\ table[j].port = port
               /\ Exclusive(table[j]) /\ Overlap(ip, table[j].ip)
      <3>1. j # l
        BY <1>5, <2>2, Zenon DEF Exclusive
      <3>2. Overlap(table[j].ip, table[l].ip)
        BY <1>5, <2>2, Zenon DEF Overlap
      <3>3. Clash(table[j], table[l])
        BY <1>5, <2>2, <3>2, Zenon DEF Clash
      <3> QED
        BY <1>5, <3>1, <3>3, Zenon DEF SocketInv, TableInv
    <2>3. ~Exclusive(e)
      BY <1>8, Zenon DEF Exclusive
    <2> QED
      BY <1>8, <1>11, <2>1, <2>2, <2>3, Zenon DEF Clash
  <1>12. ListensFor(table[l], e)
    BY <1>5, <1>8, Zenon DEF ListensFor
  <1>13. held' = held \cup {h \in {e.fd} : e.open}
    BY <1>3, <1>8, Zenon
  <1>14. e.fd = generations[i] * SocketMax + i + 1
    BY <1>7, <1>8, Zenon
  <1> QED
    BY <1>3, <1>4, <1>5, <1>8, <1>9, <1>10, <1>11, <1>12, <1>13, <1>14, AllocateKeeps, Zenon

(* The socket table starts empty.                                          *)
LEMMA SocketsStart == SocketInit => SocketInv
  <1> SUFFICES ASSUME SocketInit PROVE SocketInv
    BY Zenon
  <1>1. /\ table = [i \in Positions |-> Unused] /\ generations = [i \in Positions |-> 0]
        /\ issued = [i \in Positions |-> <<>>] /\ held = {} /\ next_port \in Ephemeral
    BY TableAssumption DEF SocketInit, Ephemeral
  <1>2. Unused \in Entry
    BY TableAssumption DEF Unused, Entry
  <1>3. \A i \in Positions : table[i] = Unused
    BY <1>1, Zenon
  <1>4. EntryInv(Unused) /\ ~Clash(Unused, Unused) /\ Unused.parent = 0 /\ ~Unused.allocated
    BY Zenon DEF EntryInv, Clash, Connected, Unused
  <1>5. TableInv
    BY <1>1, <1>2, <1>3, <1>4, Zenon DEF TableInv
  <1>6. generations = [i \in Positions |-> Len(issued[i]) % (LastGeneration(i) + 1)]
    <2>1. ASSUME NEW i \in Positions
          PROVE  Len(issued[i]) % (LastGeneration(i) + 1) = 0
      <3>1. Len(issued[i]) = 0 /\ LastGeneration(i) + 1 \in Nat \ {0}
        BY <1>1, Generations
      <3>2. 0 < LastGeneration(i) + 1
        BY Generations
      <3> QED
        BY <3>1, <3>2, ModSmall
    <2> QED
      BY <1>1, <2>1, Zenon
  <1>7. issued \in [Positions -> Seq(Nat)] /\ \A i \in Positions : DOMAIN issued[i] = {}
    BY <1>1
  <1>8. held = {table[i].fd : i \in {j \in Positions : table[j].allocated /\ table[j].open}}
    BY <1>1, <1>3, <1>4, Zenon
  <1>9. HandleInv
    BY <1>3, <1>4, <1>6, <1>7, <1>8, Zenon DEF HandleInv
  <1> QED
    BY <1>1, <1>5, <1>9, Zenon DEF SocketInv

(* Every operation of the socket table, and every packet that changes it,  *)
(* keeps the invariant: entries are well formed, no two can be taken for   *)
(* each other, who waits to be accepted waits for a listener, and each     *)
(* slot has issued its handles in their cyclic order.                      *)
THEOREM SocketInvariant == SocketSpec => []SocketInv
  <1>1. SocketInv /\ [SocketNext]_socketVars => SocketInv'
    <2> SUFFICES ASSUME SocketInv, [SocketNext]_socketVars
                 PROVE  SocketInv'
      BY Zenon
    <2>1. ASSUME NEW type \in Types, Socket(type) PROVE SocketInv'
      BY <2>1, SocketKeeps, Zenon
    <2>2. ASSUME NEW fd \in 1 .. IntMax, NEW ip \in LocalIps \cup {AnyIp},
                 NEW port \in Ports \cup {0}, Bind(fd, ip, port)
          PROVE  SocketInv'
      BY <2>2, BindKeeps, Zenon
    <2>3. ASSUME NEW fd \in 1 .. IntMax, NEW peer \in Peers, ConnectDatagram(fd, peer)
          PROVE  SocketInv'
      BY <2>3, ConnectDatagramKeeps, Zenon
    <2>4. ASSUME NEW fd \in 1 .. IntMax, NEW peer \in Peers, NEW source \in LocalIps,
                 ConnectStream(fd, peer, source)
          PROVE  SocketInv'
      BY <2>4, ConnectStreamKeeps, Zenon
    <2>5. ASSUME NEW fd \in 1 .. IntMax, SendTo(fd) PROVE SocketInv'
      BY <2>5, SendToKeeps, Zenon
    <2>6. ASSUME NEW fd \in 1 .. IntMax, Listen(fd) PROVE SocketInv'
      BY <2>6, ListenKeeps, Zenon
    <2>7. ASSUME NEW fd \in 1 .. IntMax, Accept(fd) PROVE SocketInv'
      BY <2>7, AcceptKeeps, Zenon
    <2>8. ASSUME NEW fd \in 1 .. IntMax, Close(fd) PROVE SocketInv'
      BY <2>8, CloseSocketKeeps, Zenon
    <2>9. ASSUME NEW fd \in 1 .. IntMax, Receive(fd) PROVE SocketInv'
      BY <2>9, ReceiveKeeps, Zenon
    <2>10. ASSUME NEW ip \in LocalIps, NEW port \in Ports, NEW peer \in Peers, Deliver(ip, port, peer)
           PROVE  SocketInv'
      BY <2>10, DeliverKeeps, Zenon
    <2>11. ASSUME NEW ip \in LocalIps, NEW port \in Ports, NEW peer \in Peers,
                  PassiveOpen(ip, port, peer)
           PROVE  SocketInv'
      BY <2>11, PassiveOpenKeeps, Zenon
    <2>12. ASSUME NEW i \in Positions, Establish(i) PROVE SocketInv'
      BY <2>12, EstablishKeeps, Zenon
    <2>13. ASSUME NEW i \in Positions, Fail(i) PROVE SocketInv'
      BY <2>13, FailKeeps, Zenon
    <2>14. CASE UNCHANGED socketVars
      <3>1. /\ table' = table /\ generations' = generations /\ next_port' = next_port
            /\ issued' = issued /\ held' = held
        BY <2>14, Zenon DEF socketVars
      <3>2. TableInv /\ HandleInv /\ next_port \in Ephemeral
        BY Zenon DEF SocketInv
      <3>3. TableInv'
        BY <3>1, <3>2, Zenon DEF TableInv
      <3>4. HandleInv'
        BY <3>1, <3>2, Zenon DEF HandleInv
      <3> QED
        BY <3>1, <3>2, <3>3, <3>4, Zenon DEF SocketInv
    <2> QED
      BY <2>1, <2>2, <2>3, <2>4, <2>5, <2>6, <2>7, <2>8, <2>9, <2>10, <2>11, <2>12, <2>13, <2>14,
         Zenon DEF SocketNext
  <1> QED
    BY <1>1, SocketsStart, PTL DEF SocketSpec

(* For every number of slots, every width of int and every sequence of     *)
(* calls and packets, the handles that work are those that applications    *)
(* have, and a slot issues a handle again only after all its others        *)
(* (socket_lookup, socket_allocate).                                       *)
THEOREM HandlesStayWithSockets == SocketSpec => []HandlesNameSockets
  <1>1. SocketInv => HandlesNameSockets
    <2> SUFFICES ASSUME SocketInv PROVE HandlesNameSockets
      BY Zenon
    <2>1. HandleInv
      BY Zenon DEF SocketInv
    <2>2. ASSUME NEW fd \in 1 .. IntMax, Get(fd) # Nobody
          PROVE  fd \in held
      <3>1. Get(fd) \in Positions /\ table[Get(fd)].allocated /\ table[Get(fd)].open /\ table[Get(fd)].fd = fd
        BY <2>2, GetFinds, Zenon
      <3>2. held = {table[i].fd : i \in {j \in Positions : table[j].allocated /\ table[j].open}}
        BY <2>1, Zenon DEF HandleInv
      <3> QED
        BY <3>1, <3>2, Zenon
    <2>3. ASSUME NEW fd \in held
          PROVE  Get(fd) # Nobody
      <3>1. held = {table[i].fd : i \in {j \in Positions : table[j].allocated /\ table[j].open}}
        BY <2>1, Zenon DEF HandleInv
      <3>2. PICK i \in Positions : table[i].allocated /\ table[i].open /\ table[i].fd = fd
        BY <2>3, <3>1, Zenon
      <3> QED
        BY <2>1, <3>2, GetFindsAll, Zenon
    <2>4. ASSUME NEW i \in Positions, table[i].allocated
          PROVE  table[i].fd = issued[i][Len(issued[i])]
      BY <2>1, <2>4, Zenon DEF HandleInv
    <2>5. ASSUME NEW i \in Positions, NEW m \in DOMAIN issued[i], NEW n \in DOMAIN issued[i]
          PROVE  /\ issued[i][n] \in 1 .. IntMax
                 /\ issued[i][m] = issued[i][n] /\ m < n => n - m > (IntMax - i - 1) \div SocketMax
      <3>1. issued[i] \in Seq(Nat) /\ issued[i][m] = Handle(i, m) /\ issued[i][n] = Handle(i, n)
        BY <2>1, Zenon DEF HandleInv
      <3>2. m \in Nat \ {0} /\ n \in Nat \ {0}
        BY <3>1
      <3>3. Handle(i, n) \in 1 .. IntMax
        BY <3>2, HandleSlot, Zenon
      <3>4. Handle(i, m) = Handle(i, n) /\ m < n => n - m > LastGeneration(i)
        BY <3>2, HandleReuse, Zenon
      <3> QED
        BY <3>1, <3>3, <3>4, Zenon DEF LastGeneration
    <2> QED
      BY <2>2, <2>3, <2>4, <2>5, Zenon DEF HandlesNameSockets
  <1> QED
    BY <1>1, SocketInvariant, PTL

(* A packet means at most one datagram socket and at most one connection,  *)
(* however sockets were bound, connected, accepted and closed, and who     *)
(* waits to be accepted waits for a listener that is there (socket_bind,   *)
(* tcp_connect, passive_open, tcp_close).                                  *)
THEOREM PacketsMeanOneSocket == SocketSpec => []PacketsFindSockets
  <1>1. SocketInv => PacketsFindSockets
    <2> SUFFICES ASSUME SocketInv PROVE PacketsFindSockets
      BY Zenon
    <2>1. /\ HandleInv /\ table \in [Positions -> Entry]
          /\ \A i \in Positions : EntryInv(table[i])
          /\ \A i, j \in Positions : i # j => ~Clash(table[i], table[j])
          /\ \A i \in Positions : table[i].parent # 0 => \E l \in Positions : ListensFor(table[l], table[i])
      BY Zenon DEF SocketInv, TableInv
    <2>2. ASSUME NEW ip \in LocalIps, NEW port \in Ports
          PROVE  \A i, j \in Matches("dgram", ip, port) : i = j
      <3>1. ASSUME NEW i \in Matches("dgram", ip, port), NEW j \in Matches("dgram", ip, port)
            PROVE  i = j
        <4>1. /\ i \in Positions /\ table[i].allocated /\ table[i].type = "dgram"
              /\ table[i].port = port /\ table[i].ip \in {AnyIp, ip}
              /\ j \in Positions /\ table[j].allocated /\ table[j].type = "dgram"
              /\ table[j].port = port /\ table[j].ip \in {AnyIp, ip}
          BY <3>1, Zenon DEF Matches
        <4>2. port # 0
          BY DEF Ports
        <4>3. Exclusive(table[i])
          BY <2>1, <4>1, <4>2, Zenon DEF EntryInv, Exclusive
        <4>4. Clash(table[i], table[j])
          BY <4>1, <4>3, Zenon DEF Clash, Overlap
        <4> QED
          BY <2>1, <4>1, <4>4, Zenon
      <3> QED
        BY <3>1, Zenon
    <2>3. ASSUME NEW ip \in LocalIps, NEW port \in Ports, NEW peer \in Peers
          PROVE  \A i, j \in Connection(ip, port, peer) : i = j
      <3>1. ASSUME NEW i \in Connection(ip, port, peer), NEW j \in Connection(ip, port, peer)
            PROVE  i = j
        BY <2>1, <3>1, Zenon DEF Connection, Clash
      <3> QED
        BY <3>1, Zenon
    <2>4. ASSUME NEW i \in Positions, table[i].parent # 0
          PROVE  /\ Get(table[i].parent) # Nobody
                 /\ table[Get(table[i].parent)].state = "LISTEN"
                 /\ table[Get(table[i].parent)].port = table[i].port
                 /\ ~table[i].open /\ Connected(table[i])
      <3>1. PICK l \in Positions : ListensFor(table[l], table[i])
        BY <2>1, <2>4, Zenon
      <3>2. Get(table[l].fd) = l /\ l # Nobody
        BY <2>1, <3>1, GetFindsAll, Zenon DEF ListensFor
      <3>3. ~table[i].open /\ Connected(table[i])
        BY <2>1, <2>4, Zenon DEF EntryInv
      <3> QED
        BY <3>1, <3>2, <3>3, Zenon DEF ListensFor
    <2> QED
      BY <2>2, <2>3, <2>4, Zenon DEF PacketsFindSockets
  <1> QED
    BY <1>1, SocketInvariant, PTL

(* An automatic bind finds an ephemeral port whenever one is free,         *)
(* wherever the search begins and whoever has the others (socket_bind).    *)
THEOREM AutomaticBindFindsPort == SocketSpec => []AutomaticPortFound
  <1>1. SocketInv => AutomaticPortFound
    <2> SUFFICES ASSUME SocketInv, NEW i \in Positions, NEW ip \in LocalIps \cup {AnyIp},
                        table[i].port = 0
                 PROVE  LET found == {b.port : b \in Bindings(i, ip, 0)}
                        IN  /\ found \subseteq {p \in Ephemeral : PortAvailable(i, ip, p)}
                            /\ found = {} => \A p \in Ephemeral : ~PortAvailable(i, ip, p)
      BY Zenon DEF AutomaticPortFound
    <2>1. next_port \in Ephemeral
      BY Zenon DEF SocketInv
    <2>2. ASSUME NEW b \in Bindings(i, ip, 0)
          PROVE  b.port \in {p \in Ephemeral : PortAvailable(i, ip, p)}
      <3>1. b.ip = ip /\ PortAvailable(i, b.ip, b.port) /\ b.port \in Ephemeral
        BY <2>1, <2>2, BindingFits
      <3> QED
        BY <3>1, Zenon
    <2>3. ASSUME Bindings(i, ip, 0) = {}, NEW p \in Ephemeral
          PROVE  ~PortAvailable(i, ip, p)
      BY <2>1, <2>3, BindingFound, Zenon
    <2> QED
      BY <2>2, <2>3, Zenon
  <1> QED
    BY <1>1, SocketInvariant, PTL
=============================================================================
