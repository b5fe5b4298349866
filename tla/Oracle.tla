------------------------------- MODULE Oracle -------------------------------
(***************************************************************************)
(* The price oracle under any sequence of swaps, next to what a reader of  *)
(* it may expect: a log of all observations, of which the ring is to hold  *)
(* the latest.  The log is kept by its own rule (LogSwap), not by what the *)
(* ring does.                                                              *)
(***************************************************************************)
EXTENDS ObservationRing, Sequences

CONSTANTS
    Prices,                    \* prices the swaps offer
    MaxTime                    \* bound on the clock

ASSUME OracleAssumption == Prices \subseteq Nat /\ MaxTime \in Nat

VARIABLES
    observation_state,         \* the account
    now,                       \* the chain's clock
    log                        \* every observation ever made: when, with which true sums

vars == <<observation_state, now, log>>

Init ==
    /\ observation_state = EmptyObservationState
    /\ now = 0
    /\ log = <<>>

\* An observation is due if there is none yet, or the last is old enough.
Due == log = <<>> \/ now - log[Len(log)].time >= OBSERVATION_UPDATE_DURATION_DEFAULT

\* The true sums of price times seconds so far; the price of the first observation is
\* skipped.
TrueSum(price) ==
    [s \in Side |->
        IF log = <<>>
        THEN 0
        ELSE log[Len(log)].sum[s] + price[s] * (now - log[Len(log)].time)]

LogSwap(price) ==
    log' = IF Due THEN Append(log, [time |-> now, sum |-> TrueSum(price)]) ELSE log

\* A swap offers the prices before it to the oracle.
Swap(price) ==
    /\ observation_state' = update(observation_state, now, price)
    /\ LogSwap(price)
    /\ UNCHANGED now

\* Time passes, by one second or by many.
Tick ==
    \E later \in now + 1..MaxTime :
        /\ now' = later
        /\ UNCHANGED <<observation_state, log>>

Next == Tick \/ \E price \in [Side -> Prices] : Swap(price)

Spec == Init /\ [][Next]_vars

----------------------------------------------------------------------------
TypeOK ==
    /\ observation_state \in ObservationState
    /\ now \in Nat
    /\ log \in Seq([time: Nat, sum: [Side -> Nat]])

\* How many observations the ring still holds, and its slots from the newest back.
Kept == IF Len(log) < OBSERVATION_NUM THEN Len(log) ELSE OBSERVATION_NUM

Back(k) ==
    observation_state.observations[(observation_state.observation_index - k) % OBSERVATION_NUM]

\* Through every wrap-around of the index and of the cumulatives, the ring holds the
\* latest observations of the log in order, each with the true sum modulo the width
\* of the field, and nothing else.
RingHoldsLatest ==
    /\ observation_state.initialized <=> log # <<>>
    /\ \A k \in 0..Kept - 1 :
          LET n == Len(log) - k
          IN  /\ Back(k).block_timestamp = log[n].time
              /\ \A s \in Side :
                    Back(k).cumulative_token_price_x32[s] = log[n].sum[s] % U128_RANGE
    /\ \A k \in Kept..OBSERVATION_NUM - 1 : Back(k) = EmptyObservation

\* Any two observations in the ring give an average price between the lowest and the
\* highest price offered, although the sums themselves have overflowed: the modular
\* difference is the true one as long as that fits the field.
AverageWithinPrices ==
    \A newer, older \in 0..Kept - 1 : newer < older =>
        LET seconds == Back(newer).block_timestamp - Back(older).block_timestamp
        IN  (\A p \in Prices : p * seconds < U128_RANGE) =>
                \A s \in Side :
                    LET gained == (Back(newer).cumulative_token_price_x32[s]
                                     - Back(older).cumulative_token_price_x32[s]) % U128_RANGE
                    IN  /\ \E p \in Prices : p * seconds <= gained
                        /\ \E p \in Prices : gained <= p * seconds
============================================================================
