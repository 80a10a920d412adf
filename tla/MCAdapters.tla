----------------------------- MODULE MCAdapters -----------------------------
(***************************************************************************)
(* Instance of Adapters for TLC: all eight adapters, configurations that   *)
(* pass and fail their gates, and short logs of a monitor's samples.       *)
(***************************************************************************)
EXTENDS Adapters

MCConfigs ==
    {[keyword |-> "none", window |-> "none", freq |-> 60],
     [keyword |-> "absent", window |-> "none", freq |-> 90],
     [keyword |-> "none", window |-> "day", freq |-> 300],
     [keyword |-> "none", window |-> "midnight", freq |-> 300]}

MCRecord(t, s, e) == [at |-> t, state |-> s, end |-> e]
MCDown == MCRecord(2, "down", 5)
MCUp   == MCRecord(3, "up", 0)
MCLogs ==
    {<<MCDown, MCRecord(2, "up", 0), MCRecord(3, "down", 0), MCUp, MCRecord(4, "up", 0)>>,
     <<MCUp, MCRecord(1, "down", 3), MCRecord(2, "other", 0), MCRecord(4, "down", 0), MCRecord(5, "up", 0)>>}
=============================================================================
