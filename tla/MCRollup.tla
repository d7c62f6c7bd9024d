------------------------------ MODULE MCRollup ------------------------------
(* Small calendars for Rollup.  In the long one an hour has 3 minutes, a   *)
(* day 2 and a month 4; in the short one an hour has 2, days have 1 or 2   *)
(* and a month 3 (2 in "east").  In both, midnight falls inside an hour    *)
(* bucket, as it does in a zone with a sub-hour offset, and the days of    *)
(* "east" begin inside those of "home".                                    *)
EXTENDS Rollup, TLC

CONSTANTS home, east

LongDayStart == [z \in Zone |-> IF z = home THEN {0, 2, 4, 6, 8, 10, 12}
                                            ELSE {0, 1, 3, 5, 7, 9, 11}]
LongMonthStart == [z \in Zone |-> IF z = home THEN {0, 4, 8, 12} ELSE {0, 3, 7, 11}]

ShortDayStart == [z \in Zone |-> IF z = home THEN {0, 1, 3, 4} ELSE {0, 2, 4}]
ShortMonthStart == [z \in Zone |-> IF z = home THEN {0, 3, 4} ELSE {0, 2, 4}]

(* An ordinary clock, one that jumps ahead, one that is stepped back. *)
Forward == {1}
Suspends == {1, 4}
AnyClock == {1, -2}

ChunkSymmetry == Permutations(Chunk)
=============================================================================
