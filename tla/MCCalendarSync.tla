--------------------------- MODULE MCCalendarSync ---------------------------
(* Instances of CalendarSync for TLC.                                       *)
EXTENDS CalendarSync, TLC

CONSTANTS f1, f2, x1, x2, m1, sweep

S(a, b) == [from |-> a, to |-> b]

MCFeeds1  == {f1}
MCFeeds2  == {f1, f2}
MCUids1   == {x1}
MCUids2   == {x1, x2}
MCManuals == {m1}
MCNone    == {}
MCOffers  == {S(0, 2), S(1, 2)}
=============================================================================
