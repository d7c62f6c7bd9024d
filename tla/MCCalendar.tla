----------------------------- MODULE MCCalendar -----------------------------
(* Days of six units, two of them an hour, months of three days, and a     *)
(* change by up to two hours and a half at any time of a day.              *)
EXTENDS Calendar

MCOffset == -2 .. 3
MCInstant == 10 .. 60
MCChange == 30 .. 47
=============================================================================
