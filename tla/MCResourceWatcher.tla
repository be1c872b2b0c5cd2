------------------------- MODULE MCResourceWatcher -------------------------
EXTENDS ResourceWatcher

MCLevelOf == [f \in File |-> IF f = Boot THEN 1 ELSE 2]
=============================================================================
