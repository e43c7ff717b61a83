------------------------------ MODULE MC_Metrics ------------------------------
(* Instances of Metrics.  A second begins 5 ms after the process starts;   *)
(* 5 ms and 10 s are bucket bounds.  Two scrapes in a row and, at any time *)
(* besides them, a call of any other kind.                                 *)
EXTENDS Metrics

MCKinds ==
    [c \in Calls |->
        CASE c = "first"  -> {"resolve", "readyz", "livez", "wrong_method", "no_route"}
          [] c = "second" -> {"metrics"}
          [] c = "third"  -> {"metrics"}]

MCAfter == [c \in Calls |-> IF c = "third" THEN "second" ELSE None]

MCOutcomes ==
    {[outcome |-> "success", error_kind |-> "none", status |-> 200],
     [outcome |-> "error", error_kind |-> "validation", status |-> 415]}

MCDelays == {5, 10000}
=============================================================================
