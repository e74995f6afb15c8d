------------------------------ MODULE MCSync ------------------------------
(* A small instance of Sync.                                                 *)
EXTENDS Sync

(* The settings followed.                                                    *)
SomeKeys == ServiceKeys \cup {"SyncTypeRequired", "FullSyncLastSuccess"}

Server(url, others) ==
    [k \in SomeKeys |-> IF k = "SyncBaseURL" THEN url ELSE IF k \in others THEN "on" ELSE None]

(* A server and statistics, telemetry export only, and nothing.  (Statistics *)
(* only is like telemetry export only: both are read in Wanted alone.)       *)
SomeProfiles ==
    {Server("a", {"EnableStatsCollection"}), Server(None, {"EnableTelemetryExport"}),
     Server(None, {})}
===========================================================================
