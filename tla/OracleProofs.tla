---------------------------- MODULE OracleProofs ----------------------------
(***************************************************************************)
(* The ring holds the latest observations and their averages are averages  *)
(* of prices, for every size of the ring, every interval, every width of   *)
(* the sums and every set of prices: neither the wrap of the index nor     *)
(* that of the sums loses anything.                                        *)
(*                                                                         *)
(* The inductive invariant adds to the two properties the order of the     *)
(* times in the log and that its true sums grow by prices.                 *)
(***************************************************************************)
EXTENDS Oracle, TLAPS

\* Times in the log grow up to the clock.
LogInOrder ==
    \A n \in 1..Len(log) :
        /\ log[n].time <= now
        /\ \A m \in 1..n : log[m].time <= log[n].time

\* Between any two entries of the log the true sums grow at some rate that is no less
\* than a price and at some rate that is no more than one.
Grown(m, n, s) == log[n].sum[s] - log[m].sum[s]
Elapsed(m, n)  == log[n].time - log[m].time

SumsGrowByPrices ==
    \A n \in 1..Len(log) : \A m \in 1..n - 1 : \A s \in Side :
        /\ \E p \in Prices : p * Elapsed(m, n) <= Grown(m, n, s)
        /\ \E p \in Prices : Grown(m, n, s) <= p * Elapsed(m, n)

OracleInv == TypeOK /\ RingHoldsLatest /\ LogInOrder /\ SumsGrowByPrices

(***************************************************************************)
(* Remainders.                                                             *)
(***************************************************************************)
\* A number between zero and the divisor that differs from the dividend by a multiple
\* of the divisor is the remainder.
LEMMA ModUnique ==
    ASSUME NEW a \in Int, NEW b \in Nat \ {0}, NEW q \in Int, NEW r \in 0..b - 1,
           a = q * b + r
    PROVE  a % b = r
<1> DEFINE d == a \div b
           e == a % b
<1>1. d \in Int /\ e \in 0..b - 1 /\ a = d * b + e
  OBVIOUS
<1> HIDE DEF d, e
<1>2. (q - d) * b = e - r
  BY <1>1
<1>3. e - r < b /\ r - e < b
  BY <1>1
<1>4. CASE q - d >= 1
  <2>1. (q - d) * b >= b
    BY <1>1, <1>4
  <2> QED
    BY <1>1, <1>2, <1>3, <2>1
<1>5. CASE q - d <= -1
  <2>1. (d - q) * b >= b
    BY <1>1, <1>5
  <2>2. (d - q) * b = r - e
    BY <1>1
  <2> QED
    BY <1>1, <1>3, <2>1, <2>2
<1>6. CASE q = d
  BY <1>1, <1>6 DEF e
<1> QED
  BY <1>1, <1>4, <1>5, <1>6

\* Adding to a remainder is adding to the number.
LEMMA ModAdd ==
    ASSUME NEW a \in Nat, NEW c \in Nat, NEW b \in Nat \ {0}
    PROVE  ((a % b) + c) % b = (a + c) % b
<1> DEFINE q == a \div b
           r == a % b
           n == r + c
           t == n \div b
           u == n % b
           w == q + t
<1>1. q \in Int /\ r \in 0..b - 1 /\ a = q * b + r
  OBVIOUS
<1> HIDE DEF q, r
<1>2. n \in Int
  BY <1>1
<1> HIDE DEF n
<1>3. t \in Int /\ u \in 0..b - 1 /\ n = t * b + u
  BY <1>2
<1> HIDE DEF t, u
<1>4. w \in Int /\ a + c \in Int /\ a + c = w * b + u
  BY <1>1, <1>3 DEF n
<1> HIDE DEF w
<1>5. (a + c) % b = u
  BY <1>3, <1>4, ModUnique
<1> QED
  BY <1>5 DEF u, n, r

\* The difference of two remainders gives the difference of the numbers, if it fits.
LEMMA ModDifference ==
    ASSUME NEW a \in Nat, NEW c \in Nat, NEW b \in Nat \ {0}, a - c \in 0..b - 1
    PROVE  ((a % b) - (c % b)) % b = a - c
<1> DEFINE q == a \div b
           r == a % b
           t == c \div b
           u == c % b
<1>1. q \in Int /\ r \in 0..b - 1 /\ a = q * b + r
  OBVIOUS
<1>2. t \in Int /\ u \in 0..b - 1 /\ c = t * b + u
  OBVIOUS
<1> HIDE DEF q, r, t, u
<1> DEFINE w == t - q
<1>3. w \in Int /\ r - u \in Int /\ r - u = w * b + (a - c)
  BY <1>1, <1>2
<1> HIDE DEF w
<1>4. (r - u) % b = a - c
  BY <1>3, ModUnique
<1> QED
  BY <1>4 DEF r, u

(***************************************************************************)
(* The ring.                                                               *)
(***************************************************************************)
\* The slot k back from index, and how far back it is after the index has moved on.
LEMMA SlotBack ==
    ASSUME NEW index \in Slots, NEW k \in Slots
    PROVE  /\ (index - k) % OBSERVATION_NUM
                  = IF k <= index THEN index - k ELSE index - k + OBSERVATION_NUM
           /\ (index - k) % OBSERVATION_NUM \in Slots
           /\ ((index - k) % OBSERVATION_NUM = index) <=> k = 0
<1> DEFINE N == OBSERVATION_NUM
<1>1. N \in Nat \ {0} /\ index \in 0..N - 1 /\ k \in 0..N - 1
  BY ObservationAssumption DEF Slots
<1>2. CASE k <= index
  <2>1. index - k \in 0..N - 1 /\ index - k = 0 * N + (index - k)
    BY <1>1, <1>2
  <2>2. (index - k) % N = index - k
    BY <1>1, <2>1, ModUnique
  <2> QED
    BY <1>1, <1>2, <2>1, <2>2 DEF Slots
<1>3. CASE k > index
  <2> DEFINE r == index - k + N
  <2>1. r \in 0..N - 1 /\ index - k = (-1) * N + r
    BY <1>1, <1>3
  <2>2. (index - k) % N = r
    BY <1>1, <2>1, ModUnique
  <2> QED
    BY <1>1, <1>3, <2>1, <2>2 DEF Slots
<1> QED
  BY <1>1, <1>2, <1>3

LEMMA SlotMoves ==
    ASSUME NEW index \in Slots, NEW k \in Slots
    PROVE  LET next == next_observation_index(index)
           IN  /\ next \in Slots
               /\ k = 0 => (next - k) % OBSERVATION_NUM = next
               /\ k # 0 => /\ k - 1 \in Slots
                           /\ (next - k) % OBSERVATION_NUM # next
                           /\ (next - k) % OBSERVATION_NUM
                                  = (index - (k - 1)) % OBSERVATION_NUM
<1> DEFINE N == OBSERVATION_NUM
           next == next_observation_index(index)
<1>1. N \in Nat \ {0} /\ index \in 0..N - 1 /\ k \in 0..N - 1
  BY ObservationAssumption DEF Slots
<1>2. next = IF index = N - 1 THEN 0 ELSE index + 1
  BY DEF next_observation_index
<1>3. next \in Slots
  BY <1>1, <1>2 DEF Slots
<1> HIDE DEF next
<1>4. /\ (next - k) % N = IF k <= next THEN next - k ELSE next - k + N
      /\ ((next - k) % N = next) <=> k = 0
  BY <1>3, SlotBack
<1>5. ASSUME k # 0
      PROVE  k - 1 \in Slots /\ (next - k) % N = (index - (k - 1)) % N
  <2>1. k - 1 \in Slots
    BY <1>1, <1>5 DEF Slots
  <2>2. (index - (k - 1)) % N
            = IF k - 1 <= index THEN index - (k - 1) ELSE index - (k - 1) + N
    BY <2>1, SlotBack
  <2> QED
    BY <1>1, <1>2, <1>4, <2>1, <2>2
<1> QED
  BY <1>3, <1>4, <1>5 DEF next

----------------------------------------------------------------------------
\* Nothing is logged at the start, and the ring is empty.
LEMMA OracleInitially ==
    ASSUME Init
    PROVE  OracleInv
<1> USE ObservationAssumption
<1>1. TypeOK
  BY DEF Init, TypeOK, EmptyObservationState, EmptyObservation, ObservationState,
         Observation, Slots, Side
<1>2. LogInOrder /\ SumsGrowByPrices
  BY DEF Init, LogInOrder, SumsGrowByPrices
<1>3. RingHoldsLatest
  <2>1. Kept = 0
    BY DEF Init, Kept
  <2>2. \A k \in 0..OBSERVATION_NUM - 1 : Back(k) = EmptyObservation
    BY SlotBack DEF Init, Back, EmptyObservationState, Slots
  <2>3. ~observation_state.initialized /\ log = <<>>
    BY DEF Init, EmptyObservationState
  <2> QED
    BY <2>1, <2>2, <2>3 DEF RingHoldsLatest
<1> QED
  BY <1>1, <1>2, <1>3 DEF OracleInv

\* An entry of the log.
LEMMA LogEntry ==
    ASSUME TypeOK, NEW n \in 1..Len(log)
    PROVE  log[n].time \in Nat /\ log[n].sum \in [Side -> Nat]
<1>1. ASSUME NEW T, NEW entries \in Seq(T), NEW i \in 1..Len(entries)
      PROVE  entries[i] \in T
  OBVIOUS
<1>2. log[n] \in [time: Nat, sum: [Side -> Nat]]
  BY <1>1 DEF TypeOK
<1> QED
  BY <1>2

\* The clock only moves forward.
LEMMA OracleTick ==
    ASSUME OracleInv, Tick
    PROVE  OracleInv'
<1>1. /\ now \in Nat /\ now' \in Nat /\ now <= now'
      /\ UNCHANGED <<observation_state, log>>
  BY DEF Tick, OracleInv, TypeOK
<1>2. TypeOK' /\ RingHoldsLatest' /\ SumsGrowByPrices'
  BY <1>1 DEF OracleInv, TypeOK, RingHoldsLatest, SumsGrowByPrices, Kept, Back, Grown, Elapsed
<1>3. LogInOrder'
  <2> SUFFICES ASSUME NEW n \in 1..Len(log)
               PROVE  log[n].time <= now' /\ \A m \in 1..n : log[m].time <= log[n].time
    BY <1>1 DEF LogInOrder
  <2>1. log[n].time \in Nat
    BY LogEntry DEF OracleInv
  <2> QED
    BY <1>1, <2>1 DEF OracleInv, LogInOrder
<1> QED
  BY <1>2, <1>3 DEF OracleInv

\* What the slot at the index holds.
LEMMA NewestLogged ==
    ASSUME OracleInv
    PROVE  /\ Back(0) = Newest(observation_state)
           /\ log = <<>> => ~observation_state.initialized
           /\ log # <<>> =>
                /\ observation_state.initialized
                /\ Len(log) \in 1..Len(log)
                /\ Newest(observation_state).block_timestamp = log[Len(log)].time
                /\ \A s \in Side : Newest(observation_state).cumulative_token_price_x32[s]
                                     = log[Len(log)].sum[s] % U128_RANGE
<1>1. observation_state.observation_index \in Slots /\ 0 \in Slots
  BY ObservationAssumption DEF OracleInv, TypeOK, ObservationState, Slots
<1>2. Back(0) = Newest(observation_state)
  BY <1>1, SlotBack DEF Back, Newest
<1>3. CASE log # <<>>
  <2>1. Len(log) \in Nat /\ Len(log) > 0
    BY <1>3 DEF OracleInv, TypeOK
  <2>2. 0 \in 0..Kept - 1
    BY <2>1, ObservationAssumption DEF Kept
  <2> QED
    BY <1>2, <1>3, <2>1, <2>2 DEF OracleInv, RingHoldsLatest
<1>4. CASE log = <<>>
  BY <1>2, <1>4 DEF OracleInv, RingHoldsLatest
<1> QED
  BY <1>3, <1>4


\* Growing at a rate p and then at a rate q is growing at the lower and at the higher.
LEMMA RatesCombine ==
    ASSUME NEW p \in Nat, NEW q \in Nat, NEW t \in Nat, NEW d \in Nat, NEW g \in Int
    PROVE  /\ p * t <= g => \E r \in {p, q} : r * (t + d) <= g + q * d
           /\ g <= p * t => \E r \in {p, q} : g + q * d <= r * (t + d)
<1>1. p * (t + d) = p * t + p * d /\ q * (t + d) = q * t + q * d
  OBVIOUS
<1>2. /\ p * t \in Nat /\ q * t \in Nat /\ p * d \in Nat /\ q * d \in Nat
  OBVIOUS
<1>3. CASE p <= q
  <2>1. p * t <= q * t /\ p * d <= q * d
    BY <1>3
  <2> QED
    BY <1>1, <1>2, <2>1
<1>4. CASE q <= p
  <2>1. q * t <= p * t /\ q * d <= p * d
    BY <1>4
  <2> QED
    BY <1>1, <1>2, <2>1
<1> QED
  BY <1>3, <1>4

(***************************************************************************)
(* A swap.  It writes the account exactly when it writes the log.          *)
(***************************************************************************)
\* The first observation marks the time where the ring stands.
LEMMA FirstObservation ==
    ASSUME OracleInv, NEW price \in [Side -> Prices], Swap(price), log = <<>>
    PROVE  OracleInv'
<1> DEFINE index == observation_state.observation_index
           first == [EmptyObservation EXCEPT !.block_timestamp = now]
           zeroes == [s \in Side |-> 0]
<1> USE ObservationAssumption
<1>1. /\ observation_state \in ObservationState /\ now \in Nat /\ now' = now
      /\ index \in Slots
  BY DEF OracleInv, TypeOK, ObservationState, Swap
<1>2. /\ observation_state' = [observation_state EXCEPT !.initialized = TRUE,
                                                        !.observations[index] = first]
  BY NewestLogged DEF Swap, update
<1>3. log' = <<[time |-> now, sum |-> zeroes]>>
  BY DEF Swap, LogSwap, Due, TrueSum
<1>4. /\ Len(log') = 1 /\ log'[1].time = now /\ log'[1].sum = zeroes
  BY <1>3
<1>5. first \in Observation /\ first.block_timestamp = now
        /\ first.cumulative_token_price_x32 = zeroes
  BY <1>1 DEF EmptyObservation, Observation
<1>6. /\ observation_state' \in ObservationState
      /\ observation_state'.initialized
      /\ observation_state'.observation_index = index
      /\ observation_state'.observations[index] = first
      /\ \A i \in Slots \ {index} :
            observation_state'.observations[i] = observation_state.observations[i]
  <2> HIDE DEF first
  <2> QED
    BY <1>1, <1>2, <1>5 DEF ObservationState
<1>7. TypeOK'
  <2>1. [time |-> now, sum |-> zeroes] \in [time: Nat, sum: [Side -> Nat]]
    BY <1>1
  <2> HIDE DEF zeroes
  <2> QED
    BY <1>1, <1>3, <1>6, <2>1 DEF TypeOK
<1>8. LogInOrder' /\ SumsGrowByPrices'
  BY <1>1, <1>4 DEF LogInOrder, SumsGrowByPrices
<1>9. RingHoldsLatest'
  <2>1. Kept' = 1
    BY <1>4 DEF Kept
  <2>2. Back(0)' = first
    <3>1. (index - 0) % OBSERVATION_NUM = index
      BY <1>1, SlotBack, 0 \in Slots DEF Slots
    <3> HIDE DEF first
    <3> QED
      BY <1>6, <3>1 DEF Back
  <2>3. ASSUME NEW k \in 1..OBSERVATION_NUM - 1
        PROVE  Back(k)' = EmptyObservation
    <3>1. k \in Slots /\ k # 0
      BY DEF Slots
    <3>2. (index - k) % OBSERVATION_NUM \in Slots \ {index}
      BY <1>1, <3>1, SlotBack
    <3>3. Back(k)' = Back(k)
      BY <1>6, <3>2 DEF Back
    <3>4. Kept = 0
      BY DEF Kept
    <3>5. Back(k) = EmptyObservation
      BY <3>4 DEF OracleInv, RingHoldsLatest
    <3> QED
      BY <3>3, <3>5
  <2>4. \A s \in Side : zeroes[s] % U128_RANGE = 0
    <3>1. 0 = 0 * U128_RANGE + 0 /\ 0 \in 0..U128_RANGE - 1
      OBVIOUS
    <3>2. 0 % U128_RANGE = 0
      BY <3>1, ModUnique
    <3> QED
      BY <3>2
  <2>5. /\ Back(0)'.block_timestamp = log'[1].time
        /\ \A s \in Side : Back(0)'.cumulative_token_price_x32[s]
                               = log'[1].sum[s] % U128_RANGE
    BY <1>4, <1>5, <2>2, <2>4
  <2>6. \A k \in 0..Kept' - 1 : k = 0 /\ Len(log') - k = 1
    BY <1>4, <2>1
  <2>7. observation_state'.initialized /\ log' # <<>>
    BY <1>3, <1>6
  <2> QED
    BY <2>1, <2>3, <2>5, <2>6, <2>7 DEF RingHoldsLatest
<1> QED
  BY <1>7, <1>8, <1>9 DEF OracleInv

\* Later observations move the ring on by one slot and continue its sums.
LEMMA NextObservationDue ==
    ASSUME OracleInv, NEW price \in [Side -> Prices], Swap(price), log # <<>>, Due
    PROVE  OracleInv'
<1> DEFINE index == observation_state.observation_index
           next  == next_observation_index(index)
           last  == Newest(observation_state)
           new   == NextObservation(last, now, price)
           len   == Len(log)
           delta == now - log[len].time
           sums  == TrueSum(price)
           entry == [time |-> now, sum |-> sums]
<1> USE ObservationAssumption
<1>1. /\ observation_state \in ObservationState /\ now \in Nat /\ now' = now
      /\ index \in Slots /\ next \in Slots
      /\ price \in [Side -> Nat]
  BY SlotMoves, OracleAssumption DEF OracleInv, TypeOK, ObservationState, Swap
<1>2. len \in Nat \ {0} /\ log[len].time \in Nat /\ log[len].sum \in [Side -> Nat]
  BY LogEntry DEF OracleInv, TypeOK
<1>3. log[len].time <= now /\ delta \in Nat /\ delta >= OBSERVATION_UPDATE_DURATION_DEFAULT
  BY <1>1, <1>2 DEF OracleInv, LogInOrder, Due
<1>4. /\ observation_state.initialized
      /\ last.block_timestamp = log[len].time
      /\ \A s \in Side : last.cumulative_token_price_x32[s] = log[len].sum[s] % U128_RANGE
  BY NewestLogged
<1>5. saturating_sub(now, last.block_timestamp) = delta
  BY <1>1, <1>2, <1>3, <1>4 DEF saturating_sub
<1>6. observation_state' = [observation_state EXCEPT !.observation_index = next,
                                                     !.observations[next] = new]
  BY <1>3, <1>4, <1>5 DEF Swap, update, Newest
<1>7. log' = Append(log, entry)
  BY DEF Swap, LogSwap
<1>8. sums = [s \in Side |-> log[len].sum[s] + price[s] * delta]
  BY DEF TrueSum
<1>9. sums \in [Side -> Nat]
  <2>1. \A s \in Side : log[len].sum[s] + price[s] * delta \in Nat
    BY <1>1, <1>2, <1>3
  <2> HIDE DEF len, delta, sums
  <2> QED
    BY <1>8, <2>1
<1>10. /\ new \in Observation
       /\ new.block_timestamp = now
       /\ \A s \in Side : new.cumulative_token_price_x32[s] = sums[s] % U128_RANGE
  <2>1. ASSUME NEW s \in Side
        PROVE  /\ (last.cumulative_token_price_x32[s] + price[s] * delta) % U128_RANGE
                      = sums[s] % U128_RANGE
               /\ sums[s] % U128_RANGE \in 0..U128_RANGE - 1
    <3>1. log[len].sum[s] \in Nat /\ price[s] * delta \in Nat
      BY <1>1, <1>2, <1>3
    <3>2. last.cumulative_token_price_x32[s] = log[len].sum[s] % U128_RANGE
      BY <1>4
    <3>3. sums[s] = log[len].sum[s] + price[s] * delta
      BY <1>8
    <3>4. sums[s] \in Nat
      BY <1>9
    <3> DEFINE a == log[len].sum[s]
               c == price[s] * delta
    <3> HIDE DEF a, c
    <3>5. ((a % U128_RANGE) + c) % U128_RANGE = (a + c) % U128_RANGE
      BY <3>1, ModAdd DEF a, c
    <3>6. sums[s] % U128_RANGE \in 0..U128_RANGE - 1
      <4> HIDE DEF sums
      <4> QED
        BY <3>4
    <3> QED
      BY <3>2, <3>3, <3>5, <3>6 DEF a, c
  <2>2. new = [ block_timestamp |-> now,
                cumulative_token_price_x32 |-> [s \in Side |->
                    (last.cumulative_token_price_x32[s] + price[s] * delta) % U128_RANGE] ]
    BY <1>5 DEF NextObservation
  <2> HIDE DEF new, last, delta, sums
  <2> QED
    BY <1>1, <2>1, <2>2 DEF Observation
<1> HIDE DEF index, next, last, new, delta, sums
<1>11. /\ observation_state' \in ObservationState
       /\ observation_state'.initialized
       /\ observation_state'.observation_index = next
       /\ observation_state'.observations[next] = new
       /\ \A i \in Slots \ {next} :
             observation_state'.observations[i] = observation_state.observations[i]
  BY <1>1, <1>4, <1>6, <1>10 DEF ObservationState
<1>12. entry \in [time: Nat, sum: [Side -> Nat]] /\ entry.time = now /\ entry.sum = sums
  BY <1>1, <1>9
<1> HIDE DEF entry
<1>13. /\ log' \in Seq([time: Nat, sum: [Side -> Nat]])
       /\ Len(log') = len + 1
       /\ log'[len + 1] = entry
       /\ \A n \in 1..len : log'[n] = log[n]
  BY <1>7, <1>12 DEF OracleInv, TypeOK
<1>14. TypeOK'
  BY <1>1, <1>11, <1>13 DEF TypeOK
<1> HIDE DEF len
<1>15. LogInOrder'
  <2> SUFFICES ASSUME NEW n \in 1..len + 1, NEW m \in 1..n
               PROVE  log'[n].time <= now /\ log'[m].time <= log'[n].time
    BY <1>1, <1>2, <1>12, <1>13 DEF LogInOrder
  <2> DEFINE before == /\ \A i \in 1..len : log[i].time <= now
                       /\ \A i \in 1..len : \A j \in 1..i : log[j].time <= log[i].time
  <2>1. before
    BY DEF OracleInv, LogInOrder, len
  <2>2. CASE n \in 1..len
    <3>1. m \in 1..len
      BY <1>2, <2>2
    <3>2. log'[n] = log[n] /\ log'[m] = log[m]
      BY <1>13, <2>2, <3>1
    <3> QED
      BY <2>2, <2>1, <3>2
  <2>3. CASE n = len + 1 /\ m \in 1..len
    <3>1. log'[n].time = now /\ log'[m] = log[m]
      BY <1>12, <1>13, <2>3
    <3> QED
      BY <1>1, <2>3, <2>1, <3>1
  <2>4. CASE n = len + 1 /\ m = len + 1
    BY <1>1, <1>2, <1>12, <1>13, <2>4
  <2> QED
    BY <1>2, <2>2, <2>3, <2>4
<1>16. SumsGrowByPrices'
  <2> SUFFICES ASSUME NEW n \in 1..len + 1, NEW m \in 1..n - 1, NEW s \in Side
               PROVE  /\ \E p \in Prices : p * Elapsed(m, n)' <= Grown(m, n, s)'
                      /\ \E p \in Prices : Grown(m, n, s)' <= p * Elapsed(m, n)'
    BY <1>2, <1>13 DEF SumsGrowByPrices
  <2>1. CASE n \in 1..len
    <3>1. log'[n] = log[n] /\ log'[m] = log[m]
      BY <1>2, <1>13, <2>1
    <3>2. Elapsed(m, n)' = Elapsed(m, n) /\ Grown(m, n, s)' = Grown(m, n, s)
      BY <3>1 DEF Elapsed, Grown
    <3>3. /\ \E p \in Prices : p * Elapsed(m, n) <= Grown(m, n, s)
          /\ \E p \in Prices : Grown(m, n, s) <= p * Elapsed(m, n)
      BY <1>2, <2>1 DEF OracleInv, SumsGrowByPrices, len
    <3> QED
      BY <3>2, <3>3
  <2>2. CASE n = len + 1
    <3> DEFINE t == Elapsed(m, len)
               g == Grown(m, len, s)
               q == price[s]
    <3>1. q \in Prices /\ q \in Nat
      BY <1>1
    <3>2. /\ m \in 1..len
          /\ log[m].time \in Nat /\ log[m].sum[s] \in Nat /\ log[len].sum[s] \in Nat
          /\ log[m].time <= log[len].time
      BY <1>2, <2>2, LogEntry DEF OracleInv, LogInOrder, len
    <3>3. t \in Nat /\ g \in Int
      BY <1>2, <3>2 DEF Elapsed, Grown
    <3>4. Elapsed(m, n)' = t + delta
      <4>1. log'[n].time = now /\ log'[m].time = log[m].time
        BY <1>12, <1>13, <2>2, <3>2
      <4> QED
        BY <1>1, <1>2, <3>2, <4>1 DEF Elapsed, delta
    <3>5. Grown(m, n, s)' = g + q * delta
      <4>1. log'[n].sum[s] = log[len].sum[s] + q * delta
        BY <1>8, <1>12, <1>13, <2>2
      <4>2. log'[m].sum[s] = log[m].sum[s]
        BY <1>13, <3>2
      <4>3. q * delta \in Int
        BY <1>3, <3>1
      <4> HIDE DEF q
      <4> QED
        BY <3>2, <4>1, <4>2, <4>3 DEF Grown
    <3>6. CASE m = len
      <4>1. t = 0 /\ g = 0
        BY <1>2, <3>2, <3>6 DEF Elapsed, Grown
      <4>2. Elapsed(m, n)' = delta /\ Grown(m, n, s)' = q * delta
        <5> HIDE DEF t, g, q
        <5> QED
          BY <1>3, <3>1, <3>4, <3>5, <4>1
      <4>3. q * delta \in Int
        BY <1>3, <3>1
      <4> HIDE DEF q
      <4> QED
        BY <3>1, <4>2, <4>3
    <3>7. CASE m # len
      <4>1. m \in 1..len - 1
        BY <1>2, <3>2, <3>7
      <4>2. PICK low \in Prices : low * t <= g
        BY <1>2, <4>1 DEF OracleInv, SumsGrowByPrices, len
      <4>3. PICK high \in Prices : g <= high * t
        BY <1>2, <4>1 DEF OracleInv, SumsGrowByPrices, len
      <4>4. low \in Nat /\ high \in Nat
        BY OracleAssumption
      <4> HIDE DEF t, g, q
      <4>5. \E r \in {low, q} : r * (t + delta) <= g + q * delta
        BY <1>3, <3>1, <3>3, <4>2, <4>4, RatesCombine
      <4>6. \E r \in {high, q} : g + q * delta <= r * (t + delta)
        BY <1>3, <3>1, <3>3, <4>3, <4>4, RatesCombine
      <4> QED
        BY <3>1, <3>4, <3>5, <4>5, <4>6
    <3> QED
      BY <3>6, <3>7
  <2> QED
    BY <1>2, <2>1, <2>2
<1>17. RingHoldsLatest'
  <2>1. Back(0)' = new
    <3>1. (next - 0) % OBSERVATION_NUM = next
      BY <1>1, SlotMoves, 0 \in Slots DEF Slots, next
    <3> QED
      BY <1>11, <3>1 DEF Back
  <2>2. ASSUME NEW k \in 1..OBSERVATION_NUM - 1
        PROVE  Back(k)' = Back(k - 1)
    <3>1. k \in Slots /\ k # 0
      BY DEF Slots
    <3>2. /\ (next - k) % OBSERVATION_NUM # next
          /\ (next - k) % OBSERVATION_NUM = (index - (k - 1)) % OBSERVATION_NUM
          /\ (next - k) % OBSERVATION_NUM \in Slots
      BY <1>1, <3>1, SlotMoves, SlotBack DEF next
    <3> QED
      BY <1>11, <3>2 DEF Back, index
  <2>3. Kept' = IF len + 1 < OBSERVATION_NUM THEN len + 1 ELSE OBSERVATION_NUM
    BY <1>13 DEF Kept
  <2>4. ASSUME NEW k \in 0..Kept' - 1
        PROVE  LET n == Len(log') - k
               IN  /\ Back(k)'.block_timestamp = log'[n].time
                   /\ \A s \in Side : Back(k)'.cumulative_token_price_x32[s]
                                        = log'[n].sum[s] % U128_RANGE
    <3>1. CASE k = 0
      <4>1. Len(log') - k = len + 1
        BY <1>2, <1>13, <3>1
      <4>2. log'[len + 1].time = now /\ log'[len + 1].sum = sums
        BY <1>12, <1>13
      <4>3. /\ Back(0)'.block_timestamp = now
            /\ \A s \in Side : Back(0)'.cumulative_token_price_x32[s] = sums[s] % U128_RANGE
        BY <1>10, <2>1
      <4> QED
        BY <3>1, <4>1, <4>2, <4>3
    <3>2. CASE k # 0
      <4>1. k \in 1..OBSERVATION_NUM - 1 /\ k - 1 \in 0..Kept - 1
        BY <1>2, <2>3, <3>2 DEF Kept, len
      <4>2. Len(log') - k = len - (k - 1) /\ len - (k - 1) \in 1..len
        <5>1. Kept \in 0..len
          BY <1>2 DEF Kept, len
        <5>2. Len(log') = len + 1
          BY <1>13
        <5>3. k - 1 \in Nat /\ k - 1 < len
          BY <1>2, <4>1, <5>1
        <5> QED
          BY <1>2, <4>1, <5>2, <5>3
      <4>3. /\ Back(k - 1).block_timestamp = log[len - (k - 1)].time
            /\ \A s \in Side : Back(k - 1).cumulative_token_price_x32[s]
                                   = log[len - (k - 1)].sum[s] % U128_RANGE
        BY <4>1 DEF OracleInv, RingHoldsLatest, len
      <4>4. log'[len - (k - 1)] = log[len - (k - 1)]
        BY <1>13, <4>2
      <4> QED
        BY <2>2, <4>1, <4>2, <4>3, <4>4
    <3> QED
      BY <3>1, <3>2
  <2>5. ASSUME NEW k \in Kept'..OBSERVATION_NUM - 1
        PROVE  Back(k)' = EmptyObservation
    <3>1. k \in 1..OBSERVATION_NUM - 1 /\ k - 1 \in Kept..OBSERVATION_NUM - 1
      BY <1>2, <2>3 DEF Kept, len
    <3>2. Back(k - 1) = EmptyObservation
      BY <3>1 DEF OracleInv, RingHoldsLatest
    <3> QED
      BY <2>2, <3>1, <3>2
  <2>6. observation_state'.initialized /\ log' # <<>>
    BY <1>2, <1>11, <1>13
  <2> QED
    BY <2>4, <2>5, <2>6 DEF RingHoldsLatest
<1> QED
  BY <1>14, <1>15, <1>16, <1>17 DEF OracleInv

\* A swap that comes too early after the last observation leaves the account alone.
LEMMA TooEarly ==
    ASSUME OracleInv, NEW price \in [Side -> Prices], Swap(price), ~Due
    PROVE  UNCHANGED vars
<1> DEFINE last == Newest(observation_state)
<1>1. log # <<>> /\ log' = log /\ now' = now
  BY DEF Due, Swap, LogSwap
<1>2. /\ observation_state.initialized
      /\ last.block_timestamp = log[Len(log)].time
      /\ Len(log) \in 1..Len(log)
  BY <1>1, NewestLogged
<1>3. /\ log[Len(log)].time \in Nat /\ now \in Nat
      /\ log[Len(log)].time <= now
  BY <1>2, LogEntry DEF OracleInv, TypeOK, LogInOrder
<1>4. saturating_sub(now, last.block_timestamp) < OBSERVATION_UPDATE_DURATION_DEFAULT
  BY <1>2, <1>3, ObservationAssumption DEF saturating_sub, Due
<1>5. observation_state' = observation_state
  BY <1>2, <1>4 DEF Swap, update, Newest
<1> QED
  BY <1>1, <1>5 DEF vars

LEMMA OracleUnchanged ==
    ASSUME OracleInv, UNCHANGED vars
    PROVE  OracleInv'
  BY DEF vars, OracleInv, TypeOK, RingHoldsLatest, LogInOrder, SumsGrowByPrices, Kept, Back,
         Grown, Elapsed

LEMMA OracleInvAlways == Spec => []OracleInv
<1>1. Init => OracleInv
  BY OracleInitially
<1>2. ASSUME OracleInv, [Next]_vars
      PROVE  OracleInv'
  <2>1. CASE Tick
    BY <1>2, <2>1, OracleTick
  <2>2. ASSUME NEW price \in [Side -> Prices], Swap(price)
        PROVE  OracleInv'
    BY <1>2, <2>2, FirstObservation, NextObservationDue, TooEarly, OracleUnchanged
  <2>3. CASE UNCHANGED vars
    BY <1>2, <2>3, OracleUnchanged
  <2> QED
    BY <1>2, <2>1, <2>2, <2>3 DEF Next
<1> QED
  BY <1>1, <1>2, PTL DEF Spec

----------------------------------------------------------------------------
\* The account stays a ring of observations of its size and width.
THEOREM OracleTyped == Spec => []TypeOK
<1>1. OracleInv => TypeOK
  BY DEF OracleInv
<1> QED
  BY <1>1, OracleInvAlways, PTL

\* However often index and sums wrap, and however irregularly swaps come, the ring is
\* the tail of the log, in order, with the true sums modulo the width of the field.
THEOREM RingAlwaysHoldsLatest == Spec => []RingHoldsLatest
<1>1. OracleInv => RingHoldsLatest
  BY DEF OracleInv
<1> QED
  BY <1>1, OracleInvAlways, PTL

\* A reader who takes the average price between two observations of the ring gets a
\* value between two prices that were offered, whatever has overflowed meanwhile.
THEOREM AverageAlwaysWithinPrices == Spec => []AverageWithinPrices
<1>1. ASSUME OracleInv
      PROVE  AverageWithinPrices
  <2> SUFFICES ASSUME NEW newer \in 0..Kept - 1, NEW older \in 0..Kept - 1, newer < older,
                      \A p \in Prices :
                         p * (Back(newer).block_timestamp - Back(older).block_timestamp)
                             < U128_RANGE,
                      NEW s \in Side
               PROVE  LET seconds == Back(newer).block_timestamp - Back(older).block_timestamp
                          gained == (Back(newer).cumulative_token_price_x32[s]
                                     - Back(older).cumulative_token_price_x32[s]) % U128_RANGE
                      IN  /\ \E p \in Prices : p * seconds <= gained
                          /\ \E p \in Prices : gained <= p * seconds
    BY DEF AverageWithinPrices
  <2> DEFINE n == Len(log) - newer
             m == Len(log) - older
             a == log[n].sum[s]
             c == log[m].sum[s]
             seconds == Elapsed(m, n)
  <2>1. Len(log) \in Nat
    BY <1>1 DEF OracleInv, TypeOK
  <2>2. Kept \in Nat /\ Kept <= Len(log)
    BY <2>1, ObservationAssumption DEF Kept
  <2>3. n \in 1..Len(log) /\ m \in 1..n - 1 /\ m \in 1..Len(log)
    BY <2>1, <2>2
  <2>4. /\ Back(newer).block_timestamp = log[n].time
        /\ Back(older).block_timestamp = log[m].time
        /\ Back(newer).cumulative_token_price_x32[s] = a % U128_RANGE
        /\ Back(older).cumulative_token_price_x32[s] = c % U128_RANGE
    BY <1>1 DEF OracleInv, RingHoldsLatest
  <2>5. Back(newer).block_timestamp - Back(older).block_timestamp = seconds
    BY <2>4 DEF Elapsed
  <2> HIDE DEF n, m
  <2>6. /\ a \in Nat /\ c \in Nat
        /\ log[n].time \in Nat /\ log[m].time \in Nat
    BY <1>1, <2>3, LogEntry DEF OracleInv
  <2>7. seconds \in Nat
    <3>1. log[m].time <= log[n].time
      BY <1>1, <2>1, <2>3 DEF OracleInv, LogInOrder
    <3> QED
      BY <2>6, <3>1 DEF Elapsed
  <2>8. PICK low \in Prices : low * seconds <= a - c
    BY <1>1, <2>3 DEF OracleInv, SumsGrowByPrices, Grown
  <2>9. PICK high \in Prices : a - c <= high * seconds
    BY <1>1, <2>3 DEF OracleInv, SumsGrowByPrices, Grown
  <2> HIDE DEF a, c, seconds
  <2>10. low * seconds \in Nat /\ high * seconds \in Nat /\ high * seconds < U128_RANGE
    BY <2>5, <2>7, OracleAssumption
  <2>11. a - c \in 0..U128_RANGE - 1
    BY <2>6, <2>8, <2>9, <2>10, ObservationAssumption
  <2>12. ((a % U128_RANGE) - (c % U128_RANGE)) % U128_RANGE = a - c
    BY <2>6, <2>11, ModDifference, ObservationAssumption
  <2> QED
    BY <2>4, <2>5, <2>8, <2>9, <2>12
<1> QED
  BY <1>1, OracleInvAlways, PTL
============================================================================
