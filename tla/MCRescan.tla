------------------------------ MODULE MCRescan ------------------------------
(* A live event, and a quota row that scans read from a file. *)
EXTENDS Rescan, TLC

CONSTANTS q1, q2, hook, event, limits

MCTableOf == event :> "live_events" @@ limits :> "rate_window_history"

=============================================================================
