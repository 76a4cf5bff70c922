---------------------------- MODULE SettingsFile ----------------------------
(***************************************************************************)
(* SettingsService of src/src/services/settings.service.ts: every update   *)
(* reads settings.json, changes what it read and writes the file, with     *)
(* awaits in between and without a lock.  A file that is missing or cannot *)
(* be parsed counts as DEFAULT_SETTINGS, one object shared by all          *)
(* requests, which most updates then change in place.                      *)
(***************************************************************************)
CONSTANTS
  Sections,         \* fallback, validation, logging
  Entries,          \* a section is the set of its entries: stages, or options
  StageSection,     \* validation
  Updaters,         \* requests that may be under way at a time
  Shipped,          \* the defaults as the server loads them
  Absent,           \* no such file
  Broken            \* a file that is not JSON: in the middle of a write

\* A file written by hand may lack sections.
Partial == UNION {[S -> SUBSET Entries] : S \in SUBSET Sections}

ASSUME SettingsAssumption == /\ Shipped \in [Sections -> SUBSET Entries]
                             /\ StageSection \in Sections
                             /\ {Absent, Broken} \cap Partial = {}
                             /\ Absent # Broken

VARIABLES
  settingsFile,  \* settings.json
  defaults,      \* the object DEFAULT_SETTINGS
  updater,       \* how far each request has come, and what it is to write
  wanted,        \* history: the update of the only request, while settled
  unsettled      \* history: two updates overlapped, or one broke off

settingsVars == <<settingsFile, defaults, updater, wanted, unsettled>>

Settings == [Sections -> SUBSET Entries]

\* What a request takes out of each section and puts in.
Update == {update \in [gone : Settings, come : Settings] :
             \A s \in Sections : update.gone[s] \cap update.come[s] = {}}

Nothing == [s \in Sections |-> {}]
NoChange == [gone |-> Nothing, come |-> Nothing]
NoUpdate == [at |-> "idle", draft |-> Shipped]

SettingsTypeOK ==
  /\ settingsFile \in Partial \cup {Absent, Broken}
  /\ defaults \in Settings
  /\ updater \in [Updaters -> [at : {"idle", "open", "write"}, draft : Settings]]
  /\ wanted \in Update
  /\ unsettled \in BOOLEAN

SettingsInit ==
  /\ settingsFile \in Partial \cup {Absent}
  /\ defaults = Shipped
  /\ updater = [u \in Updaters |-> NoUpdate]
  /\ wanted = NoChange
  /\ unsettled = FALSE

UnderWay == {u \in Updaters : updater[u].at # "idle"}
Writers == {u \in Updaters : updater[u].at = "write"}

FallsBack == settingsFile \in {Absent, Broken}
Lacks(s) == FallsBack \/ s \notin DOMAIN settingsFile

\* loadSettings: the sections of the file over the defaults.
LoadedSettings ==
  [s \in Sections |-> IF Lacks(s) THEN defaults[s] ELSE settingsFile[s]]

\* The sections that an update is about.
Touched(update) == {s \in Sections : update.gone[s] \cup update.come[s] # {}}

\* The updates: updateSettings sets options of any sections, in a copy;
\* updateFallbackSettings and updateValidationSettings replace a section of the
\* object they loaded; the stage operations change its validation section.
Updates ==
  [options |-> Update,
   replace |-> {update \in Update : \E s \in Sections :
                  /\ Touched(update) \subseteq {s}
                  /\ update.gone[s] = Entries \ update.come[s]},
   stage |-> {update \in Update : Touched(update) \subseteq {StageSection}}]

Kind == DOMAIN Updates

\* A stage to be added must be new, one to be edited or removed must be there.
Refused(update, kind) ==
  /\ kind = "stage"
  /\ \/ ~ update.gone[StageSection] \subseteq LoadedSettings[StageSection]
     \/ update.come[StageSection] \cap LoadedSettings[StageSection] # {}

\* The change reaches the shared defaults where they stand for what was loaded.
InPlace(update, kind) ==
  \/ kind = "replace" /\ FallsBack
  \/ kind = "stage" /\ Lacks(StageSection)

Effect(update, old) ==
  [s \in Sections |-> (old[s] \ update.gone[s]) \cup update.come[s]]

\* Mutant: the change is made to the defaults, whatever the file says.
LoadOnlyDefaults(u, update, kind) ==
  /\ updater[u].at = "idle"
  /\ update \in Updates[kind]
  /\ ~Refused(update, kind)
  /\ updater' = [updater EXCEPT ![u] =
                   [at |-> "open", draft |-> Effect(update, defaults)]]
  /\ unsettled' = (unsettled \/ UnderWay # {})
  /\ wanted' = IF unsettled' THEN NoChange ELSE update
  /\ UNCHANGED <<settingsFile, defaults>>

\* An update up to its writeFile; a refused one leaves no trace.
LoadAndChange(u, update, kind) ==
  /\ updater[u].at = "idle"
  /\ update \in Updates[kind]
  /\ ~Refused(update, kind)
  /\ defaults' = IF InPlace(update, kind) THEN Effect(update, defaults) ELSE defaults
  /\ updater' = [updater EXCEPT ![u] =
                   [at |-> "open", draft |-> Effect(update, LoadedSettings)]]
  /\ unsettled' = (unsettled \/ UnderWay # {})
  /\ wanted' = IF unsettled' THEN NoChange ELSE update
  /\ UNCHANGED settingsFile

\* writeFile empties the file,
Truncate(u) ==
  /\ updater[u].at = "open"
  /\ settingsFile' = Broken
  /\ updater' = [updater EXCEPT ![u].at = "write"]
  /\ UNCHANGED <<defaults, wanted, unsettled>>

\* and fills it.  What two writers write at a time may be no JSON.
WriteSettings(u) ==
  /\ updater[u].at = "write"
  /\ \/ settingsFile' = updater[u].draft
     \/ unsettled /\ settingsFile' = Broken
  /\ updater' = [updater EXCEPT ![u] = NoUpdate]
  /\ wanted' = NoChange
  /\ UNCHANGED <<defaults, unsettled>>

\* The write fails: the request is answered with an error.
SettingsWriteFails(u) ==
  /\ updater[u].at # "idle"
  /\ updater' = [updater EXCEPT ![u] = NoUpdate]
  /\ wanted' = NoChange
  /\ unsettled' = TRUE
  /\ UNCHANGED <<settingsFile, defaults>>

\* The server is restarted and loads its defaults again.
SettingsRestart ==
  /\ defaults' = Shipped
  /\ updater' = [u \in Updaters |-> NoUpdate]
  /\ wanted' = NoChange
  /\ unsettled' = (unsettled \/ UnderWay # {})
  /\ UNCHANGED settingsFile

SettingsNext ==
  \/ \E u \in Updaters \ UnderWay, kind \in Kind : \E update \in Updates[kind] :
       LoadAndChange(u, update, kind)
  \/ \E u \in UnderWay : Truncate(u) \/ WriteSettings(u) \/ SettingsWriteFails(u)
  \/ SettingsRestart

SettingsSpec == SettingsInit /\ [][SettingsNext]_settingsVars

--------------------------------------------------------------------------
(* Properties *)

\* The settings as their users mean them: of a file in the middle of its only
\* write, what is being written.
Meant == IF settingsFile = Broken /\ Writers # {}
         THEN updater[CHOOSE u \in Writers : TRUE].draft
         ELSE LoadedSettings

\* The request under way; it has taken effect if what it is to write shows.
Request ==
  [at |-> IF UnderWay = {} THEN "none"
          ELSE IF \E u \in UnderWay \ Writers : updater[u].draft # LoadedSettings
          THEN "asked" ELSE "done",
   update |-> wanted]

Store == INSTANCE SettingsStore
  WITH settings <- Meant, request <- Request, trusted <- ~unsettled

\* As long as no two updates overlap, none fails and none is cut off by a
\* restart, the file and the defaults together are a store: between its request
\* and its answer every update changes, once and as a whole, what it asks for in
\* all its sections and nothing else, although a missing file is replaced by
\* defaults that the first update may change in place.
ImplementsSettingsStore == Store!StoreSpec

\* The inductive invariant.
SettingsInv ==
  /\ SettingsTypeOK
  /\ ~unsettled =>
       /\ \A u, v \in UnderWay : u = v
       /\ settingsFile = Broken <=> Writers # {}
       /\ UnderWay = {} => /\ wanted = NoChange
                           /\ \A s \in Sections : Lacks(s) => defaults[s] = Shipped[s]
       /\ \A u \in UnderWay \ Writers :
            updater[u].draft \in {LoadedSettings, Effect(wanted, LoadedSettings)}
============================================================================
