------------------------------ MODULE MCClock ------------------------------
EXTENDS AlarmClock

CONSTANTS a1, l1

\* Times of the clock, minutes beyond an hour, and what a negative number becomes.
MCSettings == {[mHour |-> h, mMinute |-> m] : h \in {0, 1, 2, Width - 1}, m \in {0, 1, 3}}
=============================================================================
