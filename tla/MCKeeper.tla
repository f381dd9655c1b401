------------------------------- MODULE MCKeeper -------------------------------
(***************************************************************************)
(* An instance of PricingKeeper for TLC.  The bounds are part of the step, *)
(* so that liveness is not cut off: trades, upkeep and other sources'      *)
(* samples happen until LastAct, failures until LastStop, outages end by   *)
(* LastReturn, and the time after it is enough for three samples.          *)
(* Observing the subject is open to all throughout, and the feed publishes *)
(* when its price is due.                                                  *)
(***************************************************************************)
EXTENDS PricingKeeper

CONSTANTS MaxTime, LastAct, LastStop, LastReturn

MCReserves == {[asset |-> 1, usdc |-> 4], [asset |-> 1, usdc |-> 0]}

Others == earlier' # earlier \/ pool' # pool \/ (live' # live /\ pending' = pending)

Bounds ==
    /\ time' <= MaxTime
    /\ Others /\ ~Call => time <= LastAct
    /\ Stop => time <= LastStop
    /\ outage = "on" /\ outage' # "on" => time <= LastReturn
    /\ feeds' # feeds => time \in FeedTimes

MCSpec ==
    /\ KeeperInit /\ [][KeeperNext /\ Bounds]_keeperVars
    /\ WF_keeperVars(CloseOnSchedule /\ Bounds)
    /\ WF_keeperVars(outage # "on" /\ Call)

=============================================================================
