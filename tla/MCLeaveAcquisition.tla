------------------------- MODULE MCLeaveAcquisition -------------------------
(* April: its thirty days are 1..30, with a day before and after it.  Of the *)
(* month lengths only thirty has parts of a month that credit whole tenths,  *)
(* where rounding is decided, and are no binary fractions.                   *)
EXTENDS LeaveAcquisition

P(from, to) == [start |-> from, end |-> to]

\* Before, across, inside and after the month; touching, overlapping, nested,
\* open-ended; one that ends before it starts.
MCSpans == {P(0, 1), P(0, 12), P(7, 7), P(7, 13), P(13, 28), P(19, 24), P(28, 31),
            P(30, 30), P(24, 13), P(19, None), P(31, None)}
=============================================================================
