----------------------------- MODULE MCSlotsCache -----------------------------
(* Two readers, one POST/PATCH and one sync on a table of two writes; an      *)
(* entry lives two ticks and a fill may straddle one.                         *)
EXTENDS SlotsCache
=============================================================================
