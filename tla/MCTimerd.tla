------------------------------ MODULE MCTimerd ------------------------------
(* Small instances of module Timerd for TLC. *)
EXTENDS TimerdProps

MCPeriod == [r \in {"DAILY"} |-> 2]

Margins(m) == [pre |-> m, post |-> m]
MCSafeties == {Margins(0), Margins(1)}
MCNoSafety == Margins(0)
OneSafety == {Margins(0)}

New(type, repeat, count, announce, alarm, stop) ==
    [type |-> type, repeat |-> repeat, count |-> count,
     announce |-> announce, alarm |-> alarm, stop |-> stop]

\* A recording of each kind and a plain timer whose weekdays were all cleared;
\* and a recording without an end, whose repeat value nothing knows.
MCLegalTimers == { New("RECORD", "ONCE", 1, 1, 2, 3),
                   New("RECORD", "DAILY", 2, 0, 1, 2),
                   New("ZAPTO", "WEEKDAYS", 0, 0, 1, 0) }
MCNewTimers == MCLegalTimers \cup { New("RECORD", "UNKNOWN", 0, 0, 1, 0) }
=============================================================================
