-------------------------- MODULE MCCheckinDispatch --------------------------
(* Instances of CheckinDispatch for TLC.                                    *)
EXTENDS CheckinDispatch, TLC

CONSTANTS b1, b2, t1, t2, w1

MCBookings == {b1, b2}
MCTasks    == {t1, t2}
MCSweeps1  == {w1}
MCImported == {b2}
MCStart    == (b1 :> 1 @@ b2 :> 2)
MCDates    == {2, 3}
=============================================================================
