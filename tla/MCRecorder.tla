----------------------------- MODULE MCRecorder -----------------------------
(* A small instance of Recorder.                                             *)
EXTENDS Recorder

(* A file that is logged, one below a prefix, and one the expression leaves. *)
Logged == <<"/", "a">>
Device == <<"/", "d", "e", "v", "/", "b">>
Other == <<"/", "o">>

SomeFiles == {Logged, Device, Other}
SomePrograms == {Logged}
SomeMatches == {Logged, Device}
SomeFilters == {<<"/", "t">>}

SomeTypes == {"EXEC", "CLOSE", "AUTHENTICATION"}
SomeMasks == {TelemetryEvents, TelemetryEvents \ {"kClose"}}
=============================================================================
