------------------------------ MODULE Configurator ------------------------------
(***************************************************************************)
(* SNTConfigurator: where a setting comes from, and what survives.         *)
(*                                                                         *)
(* A setting has up to two sources: the forced configuration of a profile  *)
(* (configState, read again about a second after a profile changes, by     *)
(* each process for itself) and the sync server (syncState, of santad      *)
(* only).  A setter of the sync server's values only queues a block on the *)
(* main queue; the block changes syncState and saves the whole dictionary, *)
(* if a sync server is configured.  At start-up syncState is read back,    *)
(* and keys whose type is not in a table are dropped.                      *)
(*                                                                         *)
(* A value is a string; None stands for an absent key.                     *)
(***************************************************************************)
EXTENDS Sequences, FiniteSets

CONSTANTS
    Keys,        \* the settings followed
    Profiles     \* the profiles that may be installed: functions from Keys to values

None == "none"

Processes == {"santad", "santasyncservice"}

VARIABLES
    profile,     \* the profile installed (managed preferences)
    configState, \* per process: the profile as it was last read
    syncState,   \* santad: what the sync server sent, in memory
    stateFile,   \* the same, on disk
    mainQueue,   \* blocks of updateSyncStateForKey that did not run yet
    unsaved      \* the state in memory changed and was not saved

configVars == <<profile, configState, syncState, stateFile, mainQueue, unsaved>>

-----------------------------------------------------------------------------
(* What the sync server may set and a profile may set too: the getter asks   *)
(* syncState first.                                                          *)
SyncFirst ==
    {"ClientMode", "AllowedPathRegex", "BlockedPathRegex", "EventDetailURL",
     "EventDetailText", "BlockUSBMount", "RemountUSBMode", "OverrideFileAccessAction",
     "EnableTransitiveRules", "EnableAllEventUpload", "DisableUnknownEventUpload"}

(* What only the sync server's values are asked for.                         *)
SyncOnly ==
    {"EnableBundles", "ExportConfiguration", "ModeTransition", "FullSyncLastSuccess",
     "RuleSyncLastSuccess", "SyncTypeRequired", "FullSyncInterval", "FCMFullSyncInterval",
     "BlockNetworkMount", "AllowedNetworkMountHosts", "BannedNetworkMountBlockMessage"}

(* The keys that are read back from the file: those with a type there.       *)
SyncServerKeyTypes == (SyncFirst \cup SyncOnly) \ {"DisableUnknownEventUpload"}

(* The keys whose value is a regular expression; they are saved as patterns. *)
RegexKeys == {"AllowedPathRegex", "BlockedPathRegex"}

ASSUME KeysAssumption ==
    /\ \A p \in Profiles : DOMAIN p = Keys
    \* Every key is asked for in one order.
    /\ SyncFirst \cap SyncOnly = {}
    /\ RegexKeys \subseteq SyncServerKeyTypes

-----------------------------------------------------------------------------
Empty == [k \in Keys |-> None]

(* The setting a process sees: the source asked first that has one.          *)
Setting(p, k) ==
    LET sync == IF p = "santad" /\ k \in SyncFirst \cup SyncOnly THEN syncState[k] ELSE None
    IN  IF sync # None \/ k \in SyncOnly THEN sync ELSE configState[p][k]

syncBaseURL(p) == Setting(p, "SyncBaseURL")

enableStatsCollection(p) == Setting(p, "EnableStatsCollection") # None

enableTelemetryExport(p) == Setting(p, "EnableTelemetryExport") # None

(* A machine that has no sync state at all asks for a clean slate.           *)
syncTypeRequired ==
    IF syncState = Empty THEN "CleanAll"
    ELSE IF syncState["SyncTypeRequired"] = None THEN "Normal"
    ELSE syncState["SyncTypeRequired"]

(* The file is read and written only while a sync server is configured.      *)
SyncStateAccessAuthorized == configState["santad"]["SyncBaseURL"] # None

(* Any pattern but None: the expression gets the anchor that it lacks.       *)
expressionForPattern(pattern) == IF pattern = None THEN None ELSE "^expression"

(* What santad reads back from a file.                                       *)
readSyncStateFromDisk(file) ==
    [k \in Keys |-> IF k \notin SyncServerKeyTypes THEN None
                    ELSE IF k \in RegexKeys THEN expressionForPattern(file[k])
                    ELSE file[k]]

ConfigInit ==
    /\ profile \in Profiles
    /\ configState = [p \in Processes |-> profile]
    /\ syncState = Empty
    /\ stateFile = Empty
    /\ mainQueue = <<>>
    /\ unsaved = FALSE

-----------------------------------------------------------------------------
(* A device management server installs another profile.                      *)
InstallProfile(p) ==
    /\ p # profile
    /\ profile' = p
    /\ UNCHANGED <<configState, syncState, stateFile, mainQueue, unsaved>>

(* A second after the last change, a process reads the profile.              *)
HandleChange(p) ==
    /\ configState[p] # profile
    /\ configState' = [configState EXCEPT ![p] = profile]
    /\ UNCHANGED <<profile, syncState, stateFile, mainQueue, unsaved>>

(* updateSyncStateForKey: the block for the main queue, if the key is one of *)
(* those followed.                                                           *)
Update(key, value) == IF key \in Keys THEN <<[key |-> key, value |-> value]>> ELSE <<>>

Enqueue(updates) == mainQueue' = mainQueue \o updates

(* Mutant of Saved: a file that is there is left alone.                      *)
SavedOnce(state) == IF stateFile = Empty THEN state ELSE stateFile

(* saveSyncStateToDisk.                                                      *)
Saved(state) == IF SyncStateAccessAuthorized THEN state ELSE stateFile

(* The block on the main queue.                                              *)
ApplyUpdate ==
    /\ mainQueue # <<>>
    /\ syncState' = [syncState EXCEPT ![Head(mainQueue).key] = Head(mainQueue).value]
    /\ stateFile' = Saved(syncState')
    /\ mainQueue' = Tail(mainQueue)
    /\ unsaved' = ~SyncStateAccessAuthorized
    /\ UNCHANGED <<profile, configState>>

(* clearSyncState forgets the state in memory; the file stays.               *)
ClearSyncState ==
    /\ syncState' = Empty
    /\ unsaved' = TRUE
    /\ UNCHANGED <<profile, configState, stateFile, mainQueue>>

(* santad starts: the profile is read, and the file if a server is set.      *)
StartConfigurator ==
    /\ configState' = [p \in Processes |-> profile]
    /\ syncState' = IF profile["SyncBaseURL"] # None
                    THEN readSyncStateFromDisk(stateFile) ELSE Empty
    /\ mainQueue' = <<>>
    /\ unsaved' = (profile["SyncBaseURL"] = None)
    /\ UNCHANGED <<profile, stateFile>>

=============================================================================
