----------------------------- MODULE MCAppTimer -----------------------------
(***************************************************************************)
(* AppTimer with a single shot and a periodic timer.                       *)
(***************************************************************************)
EXTENDS AppTimer, TLC

CONSTANTS once, again
MCTimer == {once, again}
MCPeriod == once :> 0 @@ again :> 3
=============================================================================
