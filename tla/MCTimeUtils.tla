---------------------------- MODULE MCTimeUtils -----------------------------
(* Times of day and durations, for TLC.                                    *)
EXTENDS TimeUtils

\* Midnight, the tick after it, noon, the tick before midnight.
Moments == {0, 1, 12 * 3600 * TicksPerSecond, TicksPerDay - 1}

\* Each part zero and not: hours, minutes, seconds, and ns of one and nine digits.
MCAmounts ==
    {<<0, 0>>, <<0, 7>>, <<0, 500000000>>, <<59, 0>>, <<60, 0>>, <<3600, 1000000>>,
     <<3661, 999999999>>, <<86399, 12345678>>}

=============================================================================
