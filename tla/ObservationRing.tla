-------------------------- MODULE ObservationRing --------------------------
(***************************************************************************)
(* The price oracle account of a pool (states/oracle.rs): a ring of        *)
(* observations, each holding the time it was written and, per token, the  *)
(* running sum of price times elapsed seconds.  The account is one record; *)
(* update is the only operation on it, called by both swap handlers.       *)
(***************************************************************************)
EXTENDS Integers

CONSTANTS
    OBSERVATION_NUM,                     \* slots of the ring, 100 in the program
    OBSERVATION_UPDATE_DURATION_DEFAULT, \* seconds between observations, 15
    U128_RANGE                           \* cumulatives wrap at 2^128

ASSUME ObservationAssumption ==
    /\ OBSERVATION_NUM \in Nat \ {0}
    /\ OBSERVATION_UPDATE_DURATION_DEFAULT \in Nat
    /\ U128_RANGE \in Nat \ {0}

Side == {0, 1}                           \* token_0 and token_1
Slots == 0..OBSERVATION_NUM - 1

Observation ==
    [ block_timestamp: Nat, cumulative_token_price_x32: [Side -> 0..U128_RANGE - 1] ]

ObservationState ==
    [ initialized: BOOLEAN, observation_index: Slots, observations: [Slots -> Observation] ]

\* A freshly created account is all zeroes.
EmptyObservation ==
    [ block_timestamp |-> 0, cumulative_token_price_x32 |-> [s \in Side |-> 0] ]

EmptyObservationState ==
    [ initialized |-> FALSE, observation_index |-> 0,
      observations |-> [i \in Slots |-> EmptyObservation] ]

Newest(state) == state.observations[state.observation_index]

\* MUTANTS of next_observation_index: never wraps; wraps one slot too far.
next_index_unwrapped(index) == index + 1
next_index_skipping(index) == IF index = OBSERVATION_NUM - 1 THEN 1 ELSE index + 1

next_observation_index(index) == IF index = OBSERVATION_NUM - 1 THEN 0 ELSE index + 1

saturating_sub(a, b) == IF a > b THEN a - b ELSE 0

\* MUTANT of NextObservation: saturates where the code wraps.
NextObservationSaturating(last, block_timestamp, price) ==
    LET delta_time == saturating_sub(block_timestamp, last.block_timestamp)
        sum(s)     == last.cumulative_token_price_x32[s] + price[s] * delta_time
    IN  [ block_timestamp |-> block_timestamp,
          cumulative_token_price_x32 |->
              [s \in Side |-> IF sum(s) < U128_RANGE THEN sum(s) ELSE U128_RANGE - 1] ]

\* The observation that follows last: wrapping_add of price * delta_time.
NextObservation(last, block_timestamp, price) ==
    LET delta_time == saturating_sub(block_timestamp, last.block_timestamp)
    IN  [ block_timestamp |-> block_timestamp,
          cumulative_token_price_x32 |->
              [s \in Side |-> (last.cumulative_token_price_x32[s] + price[s] * delta_time)
                                  % U128_RANGE] ]

\* The first call only marks the time; later calls that come too early after
\* the newest observation leave the account as it is.
update(state, block_timestamp, price) ==
    LET index == state.observation_index
        last  == state.observations[index]
        next  == next_observation_index(index)
    IN  IF ~state.initialized
        THEN [state EXCEPT
                !.initialized = TRUE,
                !.observations[index] = [EmptyObservation EXCEPT
                                           !.block_timestamp = block_timestamp]]
        ELSE IF saturating_sub(block_timestamp, last.block_timestamp)
                    < OBSERVATION_UPDATE_DURATION_DEFAULT
        THEN state
        ELSE [state EXCEPT
                !.observation_index = next,
                !.observations[next] = NextObservation(last, block_timestamp, price)]
============================================================================
