----------------------- MODULE ValidationData_proofs -----------------------
(***************************************************************************)
(* Theorems about what validation reads and leaves behind: the inductive   *)
(* invariants of SettingsFile, StageConfigs and ValidationRecords, that    *)
(* the settings file and the shared defaults together implement            *)
(* SettingsStore, and that all variables of MCValidation keep their types. *)
(***************************************************************************)
EXTENDS MCValidation, SettingsFile, ValidationPipeline_proofs

--------------------------------------------------------------------------
(* SettingsFile *)

\* An update of settings gives settings.
LEMMA EffectType ==
  ASSUME NEW old \in Settings, NEW update \in Update
  PROVE  Effect(update, old) \in Settings
<1>1. \A s \in Sections : update.come[s] \in SUBSET Entries
  BY DEF Update, Settings
<1> QED BY <1>1 DEF Effect, Settings

LEMMA NoChangeType == NoChange \in Update
<1>1. Nothing \in Settings /\ \A s \in Sections : Nothing[s] = {}
  BY DEF Nothing, Settings
<1> QED BY <1>1 DEF NoChange, Update

\* A file with all sections is no special value.
LEMMA SettingsArePartial ==
  ASSUME NEW f \in Settings
  PROVE  f \in Partial /\ f # Absent /\ f # Broken /\ DOMAIN f = Sections
<1>1. f \in [Sections -> SUBSET Entries]
  BY DEF Settings
<1>2. f \in Partial
  BY <1>1 DEF Partial
<1> QED BY <1>1, <1>2, SettingsAssumption

\* What is read from any file is settings.
LEMMA LoadedType ==
  ASSUME SettingsTypeOK
  PROVE  LoadedSettings \in Settings
<1> SUFFICES ASSUME NEW s \in Sections
             PROVE  (IF Lacks(s) THEN defaults[s] ELSE settingsFile[s]) \in SUBSET Entries
  BY DEF LoadedSettings, Settings
<1>1. CASE Lacks(s)
  BY <1>1 DEF SettingsTypeOK, Settings
<1>2. CASE ~Lacks(s)
  <2>1. settingsFile \in Partial /\ s \in DOMAIN settingsFile
    BY <1>2 DEF Lacks, FallsBack, SettingsTypeOK
  <2>2. PICK S \in SUBSET Sections : settingsFile \in [S -> SUBSET Entries]
    BY <2>1 DEF Partial
  <2> QED BY <1>2, <2>1, <2>2
<1> QED BY <1>1, <1>2

\* A change in place shows at once: for every section, either the defaults stand
\* for it, or the change leaves it alone.
LEMMA ChangeInPlaceShows ==
  ASSUME SettingsTypeOK, NEW kind \in Kind, NEW update \in Updates[kind],
         InPlace(update, kind),
         UNCHANGED settingsFile, defaults' = Effect(update, defaults)
  PROVE  LoadedSettings' = Effect(update, LoadedSettings)
<1>1. \A s \in Sections : Lacks(s)' <=> Lacks(s)
  BY DEF Lacks, FallsBack
<1>2. \A s \in Sections :
        Lacks(s) \/ (update.gone[s] = {} /\ update.come[s] = {})
  <2>1. CASE kind = "replace" /\ FallsBack
    BY <2>1 DEF Lacks
  <2>2. CASE kind = "stage" /\ Lacks(StageSection)
    BY <2>2 DEF Updates, Touched
  <2> QED BY <2>1, <2>2 DEF InPlace
<1>3. \A s \in Sections :
        (IF Lacks(s) THEN defaults'[s] ELSE settingsFile[s])
          = (LoadedSettings[s] \ update.gone[s]) \cup update.come[s]
  <2> TAKE s \in Sections
  <2>1. defaults'[s] = (defaults[s] \ update.gone[s]) \cup update.come[s]
    BY DEF Effect
  <2>2. LoadedSettings[s] = IF Lacks(s) THEN defaults[s] ELSE settingsFile[s]
    BY DEF LoadedSettings
  <2>3. CASE Lacks(s)
    BY <2>1, <2>2, <2>3
  <2>4. CASE ~Lacks(s)
    BY <1>2, <2>2, <2>4
  <2> QED BY <2>3, <2>4
<1>4. LoadedSettings' = [s \in Sections |->
                           IF Lacks(s) THEN defaults'[s] ELSE settingsFile[s]]
  BY <1>1 DEF LoadedSettings
<1> QED BY <1>3, <1>4 DEF Effect

\* Without a write under way, the settings are what a request would load.
LEMMA MeantAtRest ==
  ASSUME SettingsInv, ~unsettled, Writers = {}
  PROVE  Meant = LoadedSettings
BY DEF Meant, SettingsInv

\* In the middle of the only write they are what it writes.
LEMMA MeantInWrite ==
  ASSUME SettingsInv, ~unsettled, NEW u \in Writers
  PROVE  Meant = updater[u].draft
<1>1. settingsFile = Broken
  BY DEF SettingsInv
<1>2. \A v \in Writers : v = u
  BY DEF SettingsInv, Writers, UnderWay
<1>3. (CHOOSE v \in Writers : TRUE) \in Writers
  OBVIOUS
<1> QED BY <1>1, <1>2, <1>3 DEF Meant

--------------------------------------------------------------------------
(* The invariant *)

LEMMA TypeInit == SettingsInit => SettingsTypeOK
<1> SUFFICES ASSUME SettingsInit PROVE SettingsTypeOK
  OBVIOUS
<1>1. NoUpdate \in [at : {"idle", "open", "write"}, draft : Settings]
  BY SettingsAssumption DEF NoUpdate, Settings
<1> QED BY <1>1, NoChangeType, SettingsAssumption
        DEF SettingsInit, SettingsTypeOK, Settings

LEMMA TypeStep ==
  ASSUME SettingsTypeOK, [SettingsNext]_settingsVars
  PROVE  SettingsTypeOK'
<1> DEFINE Updating == [at : {"idle", "open", "write"}, draft : Settings]
<1>1. NoUpdate \in Updating /\ Shipped \in Settings
  BY SettingsAssumption DEF NoUpdate, Settings
<1>2. ASSUME NEW u \in Updaters, NEW kind \in Kind, NEW update \in Updates[kind],
             LoadAndChange(u, update, kind)
      PROVE  SettingsTypeOK'
  <2> update \in Update
    BY DEF Updates, Kind
  <2>1. defaults' \in Settings
    BY <1>2, EffectType DEF LoadAndChange, SettingsTypeOK
  <2>2. Effect(update, LoadedSettings) \in Settings
    BY EffectType, LoadedType
  <2>3. updater' \in [Updaters -> Updating]
    BY <1>2, <2>2 DEF LoadAndChange, SettingsTypeOK
  <2>4. unsettled' \in BOOLEAN /\ settingsFile' = settingsFile /\ wanted' \in Update
    BY <1>2, NoChangeType DEF LoadAndChange, SettingsTypeOK
  <2> QED BY <2>1, <2>3, <2>4 DEF SettingsTypeOK
<1>3. ASSUME NEW u \in Updaters, Truncate(u)
      PROVE  SettingsTypeOK'
  BY <1>3 DEF Truncate, SettingsTypeOK
<1>4. ASSUME NEW u \in Updaters, WriteSettings(u)
      PROVE  SettingsTypeOK'
  <2>1. updater[u].draft \in Partial
    BY SettingsArePartial DEF SettingsTypeOK
  <2>2. settingsFile' \in Partial \cup {Absent, Broken}
    BY <1>4, <2>1 DEF WriteSettings
  <2>3. updater' \in [Updaters -> Updating]
    BY <1>1, <1>4 DEF WriteSettings, SettingsTypeOK
  <2> QED BY <1>4, <2>2, <2>3, NoChangeType DEF WriteSettings, SettingsTypeOK
<1>5. ASSUME NEW u \in Updaters, SettingsWriteFails(u)
      PROVE  SettingsTypeOK'
  BY <1>1, <1>5, NoChangeType DEF SettingsWriteFails, SettingsTypeOK
<1>6. ASSUME SettingsRestart
      PROVE  SettingsTypeOK'
  BY <1>1, <1>6, NoChangeType DEF SettingsRestart, SettingsTypeOK
<1>7. ASSUME UNCHANGED settingsVars
      PROVE  SettingsTypeOK'
  BY <1>7 DEF settingsVars, SettingsTypeOK
<1>8. UnderWay \subseteq Updaters
  BY DEF UnderWay
<1> QED BY <1>2, <1>3, <1>4, <1>5, <1>6, <1>7, <1>8 DEF SettingsNext

\* A step is one of the store, or changes nothing that the store has.
StoreStep == [Store!StoreNext]_Store!storeVars

\* What the store is told is disturbed allows every step.
LEMMA DisturbedStep ==
  ASSUME unsettled' PROVE StoreStep
<1>1. (~unsettled)' = FALSE
  OBVIOUS
<1> QED BY <1>1 DEF StoreStep, Store!StoreNext

\* A request of the store that has taken effect.
Done(update) == [at |-> "done", update |-> update]

LEMMA SameUpdates == Store!Update = Update
BY DEF Store!Update, Update, Store!Settings, Settings

\* The request as the store sees it, with none and with one under way.
LEMMA RequestAtRest ==
  ASSUME UnderWay = {}, wanted = NoChange
  PROVE  Request = Store!NoRequest
BY DEF Request, NoChange, Nothing, Store!NoRequest, Store!Nothing

LEMMA RequestOfOne ==
  ASSUME NEW u, UnderWay = {u}
  PROVE  Request = IF u \notin Writers /\ updater[u].draft # LoadedSettings
                   THEN Store!Asked(wanted) ELSE Done(wanted)
BY DEF Request, Store!Asked, Done

\* An update that begins alone leaves the settings alone, or changes them at once.
LEMMA LoadStep ==
  ASSUME SettingsInv, SettingsTypeOK', NEW u \in Updaters, NEW kind \in Kind,
         NEW update \in Updates[kind], LoadAndChange(u, update, kind)
  PROVE  SettingsInv' /\ StoreStep
<1> SUFFICES ASSUME ~unsettled'
             PROVE  SettingsInv' /\ StoreStep
  BY DisturbedStep DEF SettingsInv
<1> update \in Update
  BY DEF Updates, Kind
<1>1. ~unsettled /\ UnderWay = {} /\ UNCHANGED settingsFile /\ wanted' = update
  BY DEF LoadAndChange, SettingsInv, SettingsTypeOK
<1>2. Writers = {} /\ Writers' = {} /\ UnderWay' = {u}
  BY <1>1 DEF LoadAndChange, Writers, UnderWay, SettingsInv, SettingsTypeOK
<1>3. settingsFile # Broken
  BY <1>1, <1>2 DEF SettingsInv
<1>4. updater'[u].draft = Effect(update, LoadedSettings)
  BY DEF LoadAndChange, SettingsInv, SettingsTypeOK
<1>5. Meant = LoadedSettings
  BY <1>1, <1>2, MeantAtRest
<1>6. Meant' = LoadedSettings'
  BY <1>1, <1>3 DEF Meant
<1>7. Request = Store!NoRequest
  BY <1>1, RequestAtRest DEF SettingsInv
<1>8. Request' = IF updater'[u].draft # LoadedSettings'
                 THEN Store!Asked(update) ELSE Done(update)
  BY <1>1, <1>2 DEF Request, Store!Asked, Done
<1>9. LoadedSettings' \in {LoadedSettings, Effect(update, LoadedSettings)}
  <2>1. CASE InPlace(update, kind)
    BY <1>1, <2>1, ChangeInPlaceShows DEF LoadAndChange, SettingsInv
  <2>2. CASE ~InPlace(update, kind)
    BY <1>1, <2>2 DEF LoadAndChange, LoadedSettings, Lacks, FallsBack
  <2> QED BY <2>1, <2>2
<1>10. SettingsInv'
  <2>1. updater'[u].draft \in {LoadedSettings', Effect(update, LoadedSettings')}
    BY <1>4, <1>9
  <2> QED BY <1>1, <1>2, <1>3, <2>1 DEF SettingsInv, Effect
<1>11. StoreStep
  <2>1. (~unsettled)' = ~unsettled
    BY <1>1
  <2>2. CASE updater'[u].draft # LoadedSettings'
    <3>1. Meant' = Meant
      BY <1>4, <1>5, <1>6, <1>9, <2>2
    <3>2. Store!Ask
      BY <1>7, <1>8, <2>1, <2>2, <3>1, SameUpdates DEF Store!Ask, Store!Asked
    <3> QED BY <3>2 DEF StoreStep, Store!StoreNext
  <2>3. CASE updater'[u].draft = LoadedSettings'
    <3>1. Meant' = Effect(update, Meant)
      BY <1>4, <1>5, <1>6, <2>3
    <3>2. Store!TakeEffect
      <4>1. Request' = Done(update)
        BY <1>8, <2>3
      <4> QED BY <1>7, <2>1, <3>1, <4>1, SameUpdates
              DEF Store!TakeEffect, Store!Effect, Effect, Done
    <3> QED BY <3>2 DEF StoreStep, Store!StoreNext
  <2> QED BY <2>2, <2>3
<1> QED BY <1>10, <1>11

\* The beginning of the only write is where its update takes effect, unless it
\* did before.
LEMMA TruncateStep ==
  ASSUME SettingsInv, SettingsTypeOK', NEW u \in Updaters, Truncate(u)
  PROVE  SettingsInv' /\ StoreStep
<1> SUFFICES ASSUME ~unsettled'
             PROVE  SettingsInv' /\ StoreStep
  BY DisturbedStep DEF SettingsInv
<1>1. ~unsettled /\ UNCHANGED <<unsettled, defaults, wanted>>
  BY DEF Truncate
<1>2. u \in UnderWay /\ UnderWay = {u} /\ u \notin Writers
  BY <1>1 DEF Truncate, UnderWay, Writers, SettingsInv
<1>3. Writers = {}
  BY <1>2 DEF Truncate, Writers, UnderWay
<1>4. UnderWay' = {u} /\ Writers' = {u} /\ updater'[u].draft = updater[u].draft
  BY <1>2 DEF Truncate, UnderWay, Writers, SettingsInv, SettingsTypeOK
<1>5. Meant = LoadedSettings
  BY <1>1, <1>3, MeantAtRest
<1>6. settingsFile' = Broken
  BY DEF Truncate
<1>7. Meant' = updater[u].draft
  BY <1>4, <1>6 DEF Meant
<1>8. updater[u].draft \in {LoadedSettings, Effect(wanted, LoadedSettings)}
  BY <1>1, <1>2 DEF SettingsInv
<1>9. updater'[u].at = "write"
  BY DEF Truncate, SettingsInv, SettingsTypeOK
<1>10. SettingsInv'
  BY <1>4, <1>6, <1>9 DEF SettingsInv
<1>11. Request = IF updater[u].draft # LoadedSettings
                 THEN Store!Asked(wanted) ELSE Done(wanted)
  BY <1>2, RequestOfOne
<1>12. Request' = Done(wanted)
  BY <1>1, <1>4 DEF Request, Done
<1>13. StoreStep
  <2>1. (~unsettled)' = ~unsettled
    BY <1>1
  <2>2. CASE updater[u].draft = LoadedSettings
    BY <1>5, <1>7, <1>11, <1>12, <2>1, <2>2 DEF StoreStep, Store!storeVars
  <2>3. CASE updater[u].draft # LoadedSettings
    <3>1. Meant' = Effect(wanted, Meant)
      BY <1>5, <1>7, <1>8, <2>3
    <3>2. Store!TakeEffect
      <4>1. wanted \in Store!Update
        BY SameUpdates DEF SettingsInv, SettingsTypeOK
      <4>2. Request = Store!Asked(wanted)
        BY <1>11, <2>3
      <4> QED BY <1>12, <2>1, <3>1, <4>1, <4>2
              DEF Store!TakeEffect, Store!Effect, Effect, Done
    <3> QED BY <3>2 DEF StoreStep, Store!StoreNext
  <2> QED BY <2>2, <2>3
<1> QED BY <1>10, <1>13

\* The end of the only write leaves a file with all sections, and the request is
\* answered.
LEMMA WriteStep ==
  ASSUME SettingsInv, SettingsTypeOK', NEW u \in Updaters, WriteSettings(u)
  PROVE  SettingsInv' /\ StoreStep
<1> SUFFICES ASSUME ~unsettled'
             PROVE  SettingsInv' /\ StoreStep
  BY DisturbedStep DEF SettingsInv
<1>1. ~unsettled /\ UNCHANGED <<unsettled, defaults>> /\ wanted' = NoChange
  BY DEF WriteSettings
<1>2. u \in Writers /\ UnderWay = {u} /\ \A v \in UnderWay : v = u
  BY <1>1 DEF WriteSettings, UnderWay, Writers, SettingsInv
<1>3. UnderWay' = {} /\ Writers' = {}
  BY <1>2 DEF WriteSettings, UnderWay, Writers, NoUpdate, SettingsInv, SettingsTypeOK
<1>4. settingsFile' = updater[u].draft /\ settingsFile' \in Settings
  BY <1>1 DEF WriteSettings, SettingsInv, SettingsTypeOK
<1>5. /\ settingsFile' # Broken /\ settingsFile' # Absent
      /\ DOMAIN settingsFile' = Sections
  BY <1>4, SettingsArePartial
<1>6. \A s \in Sections : ~Lacks(s)'
  BY <1>5 DEF Lacks, FallsBack
<1>7. LoadedSettings' = settingsFile'
  <2>1. LoadedSettings' = [s \in Sections |-> settingsFile'[s]]
    BY <1>6 DEF LoadedSettings
  <2> QED BY <1>4, <2>1 DEF Settings
<1>8. Meant = updater[u].draft
  BY <1>1, <1>2, MeantInWrite
<1>9. Meant' = settingsFile'
  BY <1>5, <1>7 DEF Meant
<1>10. SettingsInv'
  BY <1>1, <1>3, <1>5, <1>6 DEF SettingsInv
<1>11. Request = Done(wanted)
  BY <1>2, RequestOfOne
<1>12. Request' = Store!NoRequest
  BY <1>1, <1>3 DEF Request, NoChange, Nothing, Store!NoRequest, Store!Nothing
<1>13. Store!Answer
  BY <1>1, <1>4, <1>8, <1>9, <1>11, <1>12 DEF Store!Answer, Done
<1> QED BY <1>10, <1>13 DEF StoreStep, Store!StoreNext

\* A restart with no update under way loads the defaults nothing has changed.
LEMMA RestartStep ==
  ASSUME SettingsInv, SettingsTypeOK', SettingsRestart
  PROVE  SettingsInv' /\ StoreStep
<1> SUFFICES ASSUME ~unsettled'
             PROVE  SettingsInv' /\ StoreStep
  BY DisturbedStep DEF SettingsInv
<1>1. ~unsettled /\ UnderWay = {} /\ UNCHANGED settingsFile /\ wanted' = NoChange
  BY DEF SettingsRestart, SettingsInv, SettingsTypeOK
<1>2. Writers = {} /\ UnderWay' = {} /\ Writers' = {}
  BY <1>1 DEF SettingsRestart, UnderWay, Writers, NoUpdate, SettingsInv, SettingsTypeOK
<1>3. settingsFile # Broken
  BY <1>1, <1>2 DEF SettingsInv
<1>4. \A s \in Sections : /\ Lacks(s)' <=> Lacks(s)
                          /\ Lacks(s) => defaults'[s] = defaults[s]
  BY <1>1 DEF SettingsRestart, SettingsInv, Lacks, FallsBack
<1>5. LoadedSettings' = LoadedSettings
  BY <1>1, <1>4 DEF LoadedSettings
<1>6. Meant = LoadedSettings /\ Meant' = LoadedSettings'
  BY <1>1, <1>3 DEF Meant
<1>7. defaults' = Shipped
  BY DEF SettingsRestart
<1>8. SettingsInv'
  BY <1>1, <1>2, <1>3, <1>7 DEF SettingsInv
<1>9. Request' = Request
  BY <1>1, <1>2 DEF SettingsInv, Request
<1>10. (~unsettled)' = ~unsettled
  BY <1>1
<1> QED BY <1>5, <1>6, <1>8, <1>9, <1>10 DEF StoreStep, Store!storeVars

\* One step keeps the invariant and is one of the store.
LEMMA StepImplements ==
  ASSUME SettingsInv, [SettingsNext]_settingsVars
  PROVE  SettingsInv' /\ StoreStep
<1>1. SettingsTypeOK'
  BY TypeStep DEF SettingsInv
<1>2. ASSUME NEW u \in Updaters, SettingsWriteFails(u)
      PROVE  SettingsInv' /\ StoreStep
  BY <1>1, <1>2, DisturbedStep DEF SettingsWriteFails, SettingsInv
<1>3. CASE UNCHANGED settingsVars
  <2>1. /\ UnderWay' = UnderWay /\ Writers' = Writers
        /\ LoadedSettings' = LoadedSettings
        /\ \A s \in Sections : Lacks(s)' <=> Lacks(s)
    BY <1>3 DEF settingsVars, UnderWay, Writers, LoadedSettings, Lacks, FallsBack
  <2>2. Meant' = Meant /\ Request' = Request /\ (~unsettled)' = ~unsettled
    BY <1>3, <2>1 DEF settingsVars, Meant, Request
  <2>3. SettingsInv'
    BY <1>1, <1>3, <2>1 DEF settingsVars, SettingsInv, Effect
  <2> QED BY <2>2, <2>3 DEF StoreStep, Store!storeVars
<1>4. UnderWay \subseteq Updaters
  BY DEF UnderWay
<1> QED BY <1>1, <1>2, <1>3, <1>4, LoadStep, TruncateStep, WriteStep, RestartStep
        DEF SettingsNext

LEMMA InvInit == SettingsInit => SettingsInv
<1> SUFFICES ASSUME SettingsInit PROVE SettingsInv
  OBVIOUS
<1>1. UnderWay = {} /\ Writers = {}
  BY DEF SettingsInit, UnderWay, Writers, NoUpdate
<1>2. settingsFile # Broken
  BY SettingsAssumption DEF SettingsInit
<1> QED BY <1>1, <1>2, TypeInit DEF SettingsInit, SettingsInv

\* Between updates, the defaults that stand for missing sections are those the
\* server was shipped with, and a request that is about to write has loaded what
\* is still there and changed just what it was asked to (SettingsService).
THEOREM SettingsInductive == SettingsSpec => []SettingsInv
<1>1. SettingsInv /\ [SettingsNext]_settingsVars => SettingsInv'
  BY StepImplements
<1> QED BY InvInit, <1>1, PTL DEF SettingsSpec

\* The file and the shared defaults implement the store of settings, for any
\* sections, entries and number of requests: undisturbed, each update takes
\* effect once, in all its sections together (SettingsService).
THEOREM SettingsImplement == SettingsSpec => ImplementsSettingsStore
<1>1. SettingsInit => Store!StoreInit
  <2> SUFFICES ASSUME SettingsInit PROVE Store!StoreInit
    OBVIOUS
  <2>1. SettingsInv
    BY InvInit
  <2>2. Meant = LoadedSettings /\ ~unsettled
    BY <2>1, MeantAtRest DEF SettingsInit, Writers, NoUpdate
  <2>3. Meant \in Settings
    BY <2>1, <2>2, LoadedType DEF SettingsInv
  <2>4. UnderWay = {} /\ wanted = NoChange
    BY DEF SettingsInit, UnderWay, NoUpdate
  <2>5. Request = Store!NoRequest
    BY <2>4, RequestAtRest
  <2> QED BY <2>2, <2>3, <2>5 DEF Store!StoreInit, Store!Settings, Settings
<1>2. SettingsInv /\ [SettingsNext]_settingsVars
        => [Store!StoreNext]_Store!storeVars
  BY StepImplements DEF StoreStep
<1> QED BY <1>1, <1>2, SettingsInductive, PTL
        DEF SettingsSpec, ImplementsSettingsStore, Store!StoreSpec

--------------------------------------------------------------------------
(* StageConfigs *)

\* A toggle negates what it finds, so that two of them undo each other.
LEMMA ToggledIsOther ==
  ASSUME NEW flag \in {"on", "off"}
  PROVE  /\ Toggled(flag) \in {"on", "off"}
         /\ (CHOOSE f \in {"on", "off"} : f # flag) = Toggled(flag)
<1>1. \E f \in {"on", "off"} : f # flag
  OBVIOUS
<1>2. (CHOOSE f \in {"on", "off"} : f # flag) \in {"on", "off"} \ {flag}
  BY <1>1
<1> QED BY <1>2 DEF Toggled

LEMMA ConfigStart == ConfigInit => ConfigInv
BY DEF ConfigInit, ConfigInv, ConfigTypeOK, FlagsAreAsAsked, TogglesNegate,
       ThereAsAsked, NoAsk, Flag

LEMMA LookUpKeeps ==
  ASSUME ConfigInv, NEW a \in Askers, NEW op \in Op, NEW c \in Configs,
         NEW flag \in Flag, LookUp(a, op, c, flag)
  PROVE  ConfigInv'
<1>1. ConfigTypeOK'
  BY DEF ConfigInv, ConfigTypeOK, LookUp
<1>2. TogglesNegate'
  <2> SUFFICES ASSUME NEW b \in Askers, asker'[b].op = "toggle"
               PROVE  /\ asker'[b].of \in Configs
                      /\ asker'[b].flag \in {"on", "off"}
                      /\ b \notin outdated' =>
                           asker'[b].flag = Toggled(stored[asker'[b].of])
    BY DEF LookUp, TogglesNegate, Toggled
  <2>1. CASE b = a
    <3>1. asker'[a] = [op |-> op, of |-> c, flag |-> flag]
      BY DEF LookUp, ConfigInv, ConfigTypeOK
    <3>2. flag = Toggled(stored[c]) /\ flag \in {"on", "off"}
      BY <2>1, <3>1 DEF LookUp, Toggled
    <3> QED BY <2>1, <3>1, <3>2
  <2>2. CASE b # a
    <3>1. asker'[b] = asker[b]
      BY <2>2 DEF LookUp, ConfigInv, ConfigTypeOK
    <3>2. b \notin outdated' => b \notin outdated
      BY <2>2 DEF LookUp
    <3> QED BY <3>1, <3>2 DEF ConfigInv, TogglesNegate
  <2> QED BY <2>1, <2>2
<1> QED BY <1>1, <1>2 DEF LookUp, ConfigInv, FlagsAreAsAsked, ThereAsAsked

LEMMA WriteFlagKeeps ==
  ASSUME ConfigInv, NEW a \in Askers, WriteFlag(a)
  PROVE  ConfigInv'
<1> DEFINE c == asker[a].of
           toggles == asker[a].op = "toggle"
           counted == CHOOSE f \in {"on", "off"} : f # asked[c]
<1>1. /\ c \in Configs \cup {"none"} /\ asker[a].flag \in Flag
      /\ asker[a].op \in Op \cup {"none"}
  BY DEF ConfigInv, ConfigTypeOK
<1>2. counted \in {"on", "off"}
  <2>1. \E f \in {"on", "off"} : f # asked[c]
    OBVIOUS
  <2> QED BY <2>1
<1>3. asked' = [asked EXCEPT ![c] = IF toggles THEN counted ELSE asker[a].flag]
  BY DEF WriteFlag
<1>4. stored' = [stored EXCEPT ![c] = asker[a].flag]
  BY DEF WriteFlag
<1>5. asker' = [asker EXCEPT ![a] = NoAsk]
  BY DEF WriteFlag
<1>6. outdated' = outdated \cup {b \in Askers : asker[b].of = c}
  BY DEF WriteFlag
<1>7. raced' = IF ~toggles THEN raced \ {c}
               ELSE IF a \in outdated THEN raced \cup {c} ELSE raced
  BY DEF WriteFlag
<1>8. toggles => c \in Configs /\ asker[a].flag \in {"on", "off"}
  BY DEF ConfigInv, TogglesNegate
<1> HIDE DEF counted
<1>9. ConfigTypeOK'
  <2>1. (IF toggles THEN counted ELSE asker[a].flag) \in Flag
    BY <1>1, <1>2 DEF Flag
  <2>2. stored' \in [Configs -> Flag] /\ asked' \in [Configs -> Flag]
    BY <1>1, <1>3, <1>4, <2>1 DEF ConfigInv, ConfigTypeOK
  <2>3. asker' \in [Askers -> [op : Op \cup {"none"}, of : Configs \cup {"none"},
                               flag : Flag]]
    BY <1>5 DEF ConfigInv, ConfigTypeOK, NoAsk, Flag
  <2>4. outdated' \subseteq Askers /\ raced' \subseteq Configs
    BY <1>6, <1>7, <1>8 DEF ConfigInv, ConfigTypeOK
  <2> QED BY <2>2, <2>3, <2>4 DEF ConfigTypeOK
<1>10. \A d \in Configs \ {c} : stored'[d] = stored[d] /\ asked'[d] = asked[d]
  BY <1>3, <1>4 DEF ConfigInv, ConfigTypeOK
<1>11. \A d \in Configs : d = c =>
         /\ stored'[d] = asker[a].flag
         /\ asked'[d] = IF toggles THEN counted ELSE asker[a].flag
  BY <1>3, <1>4 DEF ConfigInv, ConfigTypeOK
<1>12. ThereAsAsked'
  BY <1>2, <1>8, <1>10, <1>11 DEF ConfigInv, ThereAsAsked
<1>13. FlagsAreAsAsked'
  <2> SUFFICES ASSUME NEW d \in Configs, d \notin raced'
               PROVE  stored'[d] = asked'[d]
    BY DEF FlagsAreAsAsked
  <2>1. CASE d # c
    BY <1>7, <1>10, <2>1 DEF ConfigInv, FlagsAreAsAsked
  <2>2. CASE d = c /\ ~toggles
    BY <1>11, <2>2
  <2>3. CASE d = c /\ toggles
    <3>1. a \notin outdated /\ c \notin raced
      BY <1>7, <2>3
    <3>2. asker[a].flag = Toggled(stored[c])
      BY <2>3, <3>1 DEF ConfigInv, TogglesNegate
    <3>3. stored[c] = asked[c]
      BY <2>3, <3>1 DEF ConfigInv, FlagsAreAsAsked
    <3>4. stored[c] \in {"on", "off"}
      BY <2>3 DEF WriteFlag, ConfigInv, ConfigTypeOK, Flag
    <3>5. counted = Toggled(stored[c])
      BY <3>3, <3>4, ToggledIsOther DEF counted
    <3> QED BY <1>11, <2>3, <3>2, <3>5
  <2> QED BY <2>1, <2>2, <2>3
<1>14. TogglesNegate'
  <2> SUFFICES ASSUME NEW b \in Askers, asker'[b].op = "toggle"
               PROVE  /\ asker'[b].of \in Configs
                      /\ asker'[b].flag \in {"on", "off"}
                      /\ b \notin outdated' =>
                           asker'[b].flag = Toggled(stored'[asker'[b].of])
    BY DEF TogglesNegate, Toggled
  <2>1. b # a
    BY <1>5 DEF NoAsk, ConfigInv, ConfigTypeOK
  <2>2. asker'[b] = asker[b]
    BY <1>5, <2>1 DEF ConfigInv, ConfigTypeOK
  <2>3. asker[b].of \in Configs /\ asker[b].flag \in {"on", "off"}
    BY <2>2 DEF ConfigInv, TogglesNegate
  <2>4. ASSUME b \notin outdated'
        PROVE  asker[b].flag = Toggled(stored'[asker[b].of])
    <3>1. b \notin outdated /\ asker[b].of # c
      BY <1>6, <2>4
    <3>2. asker[b].flag = Toggled(stored[asker[b].of])
      BY <2>2, <3>1 DEF ConfigInv, TogglesNegate
    <3> QED BY <1>10, <2>3, <3>1, <3>2
  <2> QED BY <2>2, <2>3, <2>4
<1> QED BY <1>9, <1>12, <1>13, <1>14 DEF ConfigInv

LEMMA FailWriteKeeps ==
  ASSUME ConfigInv, NEW a \in Askers, FailWrite(a)
  PROVE  ConfigInv'
<1>1. ConfigTypeOK'
  BY DEF ConfigInv, ConfigTypeOK, FailWrite, NoAsk, Flag
<1>2. TogglesNegate'
  BY DEF ConfigInv, ConfigTypeOK, FailWrite, NoAsk, TogglesNegate, Toggled
<1> QED BY <1>1, <1>2 DEF FailWrite, ConfigInv, FlagsAreAsAsked, ThereAsAsked

LEMMA ConfigStep == ConfigInv /\ [ConfigNext]_configVars => ConfigInv'
<1> SUFFICES ASSUME ConfigInv, [ConfigNext]_configVars PROVE ConfigInv'
  OBVIOUS
<1>1. CASE UNCHANGED configVars
  BY <1>1 DEF configVars, ConfigInv, ConfigTypeOK, FlagsAreAsAsked, TogglesNegate,
     ThereAsAsked, Toggled
<1> QED BY <1>1, LookUpKeeps, WriteFlagKeeps, FailWriteKeeps DEF ConfigNext

\* The invariant of the requests on configurations holds in every reachable state.
THEOREM ConfigInductive == ConfigSpec => []ConfigInv
BY ConfigStart, ConfigStep, PTL DEF ConfigSpec

\* For any number of configurations and overlapping requests, the flags are as
\* the answered requests say, each toggle counted once, but for a configuration
\* whose flag a toggle wrote that something else came before (toggleStageConfig).
THEOREM FlagsAsAsked == ConfigSpec => []FlagsAreAsAsked
<1>1. ConfigInv => FlagsAreAsAsked
  BY DEF ConfigInv
<1> QED BY <1>1, ConfigInductive, PTL

--------------------------------------------------------------------------
(* ValidationRecords *)

LEMMA RecordsStart == RecordsInit => RecordsInv
<1> SUFFICES ASSUME RecordsInit PROVE RecordsInv
  OBVIOUS
<1>1. RecordsTypeOK
  BY EmptySeq DEF RecordsInit, RecordsTypeOK, Config, ScriptState, NewScript
<1>2. RecordsAreWhole
  BY DEF RecordsInit, RecordsAreWhole, Recorded, Runs, NewScript
<1>3. AttributedToOwn /\ SafeStagesAreRecorded /\ OwnIsCurrent /\ AsksOnce
  BY DEF RecordsInit, AttributedToOwn, SafeStagesAreRecorded, OwnIsCurrent, AsksOnce,
     NewScript
<1> QED BY <1>1, <1>2, <1>3 DEF RecordsInv

\* The configurations change: none that rows refer to goes.
LEMMA ConfigChangeKeeps ==
  ASSUME RecordsInv, NEW s \in StageIds, NEW state \in Config,
         config' = [config EXCEPT ![s] = state],
         Recorded(s) => state # "none",
         UNCHANGED <<newest, script, posted, rows, safe, overtaken, unanswered>>
  PROVE  RecordsInv'
<1>1. \A t \in StageIds : Recorded(t)' <=> Recorded(t)
  BY DEF Recorded
<1>2. RecordsTypeOK'
  BY DEF RecordsInv, RecordsTypeOK
<1>3. RecordsAreWhole'
  BY <1>1 DEF RecordsInv, RecordsTypeOK, RecordsAreWhole
<1>4. AttributedToOwn' /\ OwnIsCurrent' /\ AsksOnce'
  BY DEF RecordsInv, AttributedToOwn, OwnIsCurrent, AsksOnce,
     CurrentTask
<1>5. SafeStagesAreRecorded'
  BY <1>1 DEF RecordsInv, SafeStagesAreRecorded, Recorded
<1> QED BY <1>2, <1>3, <1>4, <1>5 DEF RecordsInv

\* The tasks in progress, without one: those before it stay where they are.
LEMMA WithoutTask ==
  ASSUME newest \in Seq(RunTasks), NEW t \in RunTasks
  PROVE  /\ Without(t) \in Seq(RunTasks)
         /\ newest # <<>> /\ newest[1] # t =>
              Without(t) # <<>> /\ Without(t)[1] = newest[1]
<1>1. CASE t \notin InProgress
  BY <1>1 DEF Without
<1>2. CASE t \in InProgress
  <2> DEFINE i == CHOOSE j \in 1 .. Len(newest) : newest[j] = t
             before == SubSeq(newest, 1, i - 1)
             after == SubSeq(newest, i + 1, Len(newest))
  <2>1. i \in 1 .. Len(newest) /\ newest[i] = t
    BY <1>2 DEF InProgress
  <2>2. Len(newest) \in Nat
    BY LenProperties
  <2>3. before \in Seq(RunTasks) /\ after \in Seq(RunTasks)
    BY <2>1, <2>2, SubSeqProperties
  <2>4. Without(t) = before \o after
    BY <1>2 DEF Without
  <2>5. Without(t) \in Seq(RunTasks)
    BY <2>3, <2>4, ConcatProperties
  <2>6. ASSUME newest # <<>>, newest[1] # t
        PROVE  Without(t) # <<>> /\ Without(t)[1] = newest[1]
    <3>1. i >= 2
      BY <2>1, <2>2, <2>6
    <3>2. Len(before) = i - 1 /\ before[1] = newest[1]
      BY <2>1, <2>2, <3>1, SubSeqProperties
    <3>3. Len(before) >= 1 /\ Len(before) \in Nat /\ Len(after) \in Nat
      BY <2>1, <2>2, <2>3, <3>1, <3>2, LenProperties
    <3> HIDE DEF before, after
    <3>4. Len(before \o after) = Len(before) + Len(after)
      BY <2>3, ConcatProperties
    <3>5. (before \o after)[1] = before[1]
      BY <2>3, <3>3, ConcatProperties
    <3>6. Len(before \o after) # 0
      BY <3>3, <3>4
    <3>7. before \o after # <<>>
      BY <3>6, EmptySeq
    <3> QED BY <2>4, <3>2, <3>5, <3>7
  <2> QED BY <2>5, <2>6
<1> QED BY <1>1, <1>2

\* Scripts that are run for another task than the one updated are overtaken.
LEMMA TouchTaskKeeps ==
  ASSUME RecordsInv, NEW t \in RunTasks, TouchTask(t)
  PROVE  RecordsInv'
<1>1. Without(t) \in Seq(RunTasks) /\ <<t>> \in Seq(RunTasks) /\ Len(<<t>>) = 1
  BY WithoutTask DEF RecordsInv, RecordsTypeOK
<1>2. /\ newest' \in Seq(RunTasks) /\ newest'[1] = t
      /\ Len(newest') = 1 + Len(Without(t))
  BY <1>1, ConcatProperties DEF TouchTask
<1>3. newest' # <<>>
  BY <1>1, <1>2, LenProperties, EmptySeq
<1>4. RecordsTypeOK'
  BY <1>2 DEF TouchTask, RecordsInv, RecordsTypeOK
<1>5. CurrentTask' = t
  BY <1>2, <1>3 DEF CurrentTask
<1>6. \A r \in Scripts \ overtaken' : r \notin overtaken /\ script[r].own = t
  BY DEF TouchTask
<1>7. AttributedToOwn' /\ OwnIsCurrent' /\ AsksOnce'
  BY <1>5, <1>6 DEF TouchTask, RecordsInv, AttributedToOwn, OwnIsCurrent, AsksOnce
<1>8. RecordsAreWhole' /\ SafeStagesAreRecorded'
  BY DEF TouchTask, RecordsInv, RecordsAreWhole, SafeStagesAreRecorded, Recorded
<1> QED BY <1>4, <1>7, <1>8 DEF RecordsInv

\* So are those whose task leaves progress; for the others, the last one updated
\* stays the same.
LEMMA LeaveTaskKeeps ==
  ASSUME RecordsInv, NEW t \in RunTasks, LeaveTask(t)
  PROVE  RecordsInv'
<1>1. newest' = Without(t) /\ newest \in Seq(RunTasks)
  BY DEF LeaveTask, RecordsInv, RecordsTypeOK
<1>2. RecordsTypeOK'
  BY <1>1, WithoutTask DEF LeaveTask, RecordsInv, RecordsTypeOK
<1>3. \A r \in Scripts \ overtaken' : r \notin overtaken /\ script[r].own # t
  BY DEF LeaveTask
<1>4. newest # <<>>
  BY EmptySeq DEF LeaveTask, InProgress
<1>5. CurrentTask # t => CurrentTask' = CurrentTask
  BY <1>1, <1>4, WithoutTask DEF CurrentTask
<1>6. AttributedToOwn' /\ OwnIsCurrent' /\ AsksOnce'
  BY <1>3, <1>5 DEF LeaveTask, RecordsInv, AttributedToOwn, OwnIsCurrent, AsksOnce
<1>7. RecordsAreWhole' /\ SafeStagesAreRecorded'
  BY DEF LeaveTask, RecordsInv, RecordsAreWhole, SafeStagesAreRecorded, Recorded
<1> QED BY <1>2, <1>6, <1>7 DEF RecordsInv

LEMMA LoadStagesKeeps ==
  ASSUME RecordsInv, NEW r \in Scripts, NEW own \in RunTasks \cup {NoTask},
         NEW given \in SUBSET StageIds, LoadStages(r, own, given)
  PROVE  RecordsInv'
<1> DEFINE stages == IF Enabled # {} THEN Enabled ELSE given
           latest == IF newest = <<>> THEN NoTask ELSE Head(newest)
<1>1. /\ script[r].at = "new"
      /\ script' = [script EXCEPT ![r] =
           [at |-> "running", own |-> own, task |-> NoTask, stages |-> stages]]
      /\ overtaken' = IF own = latest THEN overtaken \ {r} ELSE overtaken \cup {r}
      /\ safe' = IF \A s \in stages : Recorded(s) THEN safe \cup {r} ELSE safe
      /\ UNCHANGED <<config, newest, posted, rows, unanswered>>
  BY DEF LoadStages
<1>2. stages \subseteq StageIds
  BY DEF Enabled
<1>3. latest = CurrentTask
  BY DEF CurrentTask, RecordsInv, RecordsTypeOK
<1> HIDE DEF stages, latest
<1>4. script'[r] = [at |-> "running", own |-> own, task |-> NoTask, stages |-> stages]
  BY <1>1 DEF RecordsInv, RecordsTypeOK
<1>5. \A q \in Scripts \ {r} : script'[q] = script[q]
  BY <1>1 DEF RecordsInv, RecordsTypeOK
<1>6. RecordsTypeOK'
  <2>1. [at |-> "running", own |-> own, task |-> NoTask, stages |-> stages] \in ScriptState
    BY <1>2 DEF ScriptState
  <2> QED BY <1>1, <2>1 DEF RecordsInv, RecordsTypeOK
<1>7. \A s \in StageIds : Recorded(s)' <=> Recorded(s)
  BY <1>1 DEF Recorded
<1>8. r \notin safe
  BY <1>1 DEF RecordsInv, SafeStagesAreRecorded
<1>9. RecordsAreWhole'
  <2>1. ASSUME NEW q \in Scripts
        PROVE  /\ script'[q].at = "done" => rows'[q] = script'[q].stages
               /\ script'[q].at = "broken" => q \notin safe'
    BY <1>1, <1>4, <1>5 DEF RecordsInv, RecordsAreWhole
  <2> QED BY <1>1, <1>7, <2>1 DEF RecordsInv, RecordsAreWhole
<1>10. SafeStagesAreRecorded'
  <2> SUFFICES ASSUME NEW q \in safe'
               PROVE  script'[q].at # "new" /\ \A s \in script'[q].stages : Recorded(s)'
    BY DEF SafeStagesAreRecorded
  <2>1. q \in Scripts
    BY <1>1 DEF RecordsInv, RecordsTypeOK
  <2>2. CASE q = r
    BY <1>1, <1>2, <1>4, <1>7, <1>8, <2>2
  <2>3. CASE q # r
    BY <1>1, <1>5, <2>1, <2>3 DEF RecordsInv, SafeStagesAreRecorded, Recorded
  <2> QED BY <2>2, <2>3
<1>11. CurrentTask' = CurrentTask
  BY <1>1 DEF CurrentTask
<1>12. AttributedToOwn' /\ AsksOnce'
  <2>1. r \notin unanswered /\ unanswered \subseteq Scripts
    BY <1>1 DEF RecordsInv, AsksOnce, RecordsTypeOK
  <2> QED BY <1>1, <1>4, <1>5, <2>1 DEF RecordsInv, AttributedToOwn, AsksOnce
<1>13. OwnIsCurrent'
  BY <1>1, <1>3, <1>4, <1>5, <1>11 DEF RecordsInv, OwnIsCurrent
<1> QED BY <1>6, <1>9, <1>10, <1>12, <1>13 DEF RecordsInv

\* A script gets ahead without writing a row.
LEMMA ScriptStepKeeps ==
  ASSUME RecordsInv, NEW r \in Scripts,
         FindTask(r) \/ FindFails(r) \/ CreateRun(r) \/ BreakOff(r) \/ EndSave(r)
           \/ KillScript(r)
  PROVE  RecordsInv'
<1> DEFINE after == script'[r]
<1>1. /\ after \in ScriptState /\ after.at # "new" /\ after.own = script[r].own
      /\ after.stages = script[r].stages
      /\ \A q \in Scripts \ {r} : script'[q] = script[q]
      /\ UNCHANGED <<config, newest, posted, rows, safe, overtaken>>
      /\ unanswered' \in {unanswered, unanswered \cup {r}}
  <2>1. CurrentTask \in RunTasks \cup {NoTask}
    <3>1. ASSUME newest # <<>> PROVE newest[1] \in RunTasks
      BY <3>1, EmptySeq, LenProperties, ElementOfSeq DEF RecordsInv, RecordsTypeOK
    <3> QED BY <3>1 DEF CurrentTask
  <2> QED BY <2>1 DEF FindTask, FindFails, CreateRun, BreakOff, EndSave, KillScript, 
              historyVars, RecordsInv, RecordsTypeOK, ScriptState
<1>2. /\ after.at \in {"saving", "done", "broken"} =>
           /\ script[r].at \in {"found", "saving"} /\ after.task = script[r].task
           /\ unanswered' = unanswered
      /\ after.at = "found" => /\ script[r].at = "running"
           /\ after.task = IF r \in unanswered' THEN NoTask ELSE CurrentTask
      /\ after.at # "running"
      /\ after.at = "done" => rows[r] = after.stages
      /\ after.at = "broken" => \E s \in after.stages : config[s] = "none"
  BY DEF FindTask, FindFails, CreateRun, BreakOff, EndSave, KillScript, historyVars,
     RecordsInv, RecordsTypeOK, ScriptState, AsksOnce
<1>3. \A s : Recorded(s)' <=> Recorded(s)
  BY <1>1 DEF Recorded
<1>4. RecordsTypeOK'
  <2>1. script' \in [Scripts -> ScriptState]
    BY <1>1 DEF FindTask, FindFails, CreateRun, BreakOff, EndSave, KillScript, RecordsInv,
       RecordsTypeOK
  <2>2. unanswered' \subseteq Scripts
    BY <1>1 DEF RecordsInv, RecordsTypeOK
  <2> QED BY <1>1, <2>1, <2>2 DEF RecordsInv, RecordsTypeOK
<1> HIDE DEF after
<1>5. RecordsAreWhole'
  <2>1. ASSUME NEW q \in Scripts
        PROVE  /\ script'[q].at = "done" => rows'[q] = script'[q].stages
               /\ script'[q].at = "broken" => q \notin safe'
    <3>1. CASE q # r
      BY <1>1, <3>1 DEF RecordsInv, RecordsAreWhole
    <3>2. ASSUME q = r, after.at = "broken", r \in safe
          PROVE  FALSE
      <4>1. PICK s \in after.stages : config[s] = "none"
        BY <1>2, <3>2
      <4>2. s \in StageIds
        BY <1>1 DEF ScriptState
      <4>3. Recorded(s)
        BY <1>1, <3>2 DEF RecordsInv, SafeStagesAreRecorded
      <4> QED BY <4>1, <4>2, <4>3 DEF RecordsInv, RecordsAreWhole
    <3> QED BY <1>1, <1>2, <3>1, <3>2 DEF after
  <2> QED BY <1>1, <1>3, <2>1 DEF RecordsInv, RecordsAreWhole
<1>6. SafeStagesAreRecorded'
  <2> SUFFICES ASSUME NEW q \in safe
               PROVE  script'[q].at # "new" /\ \A s \in script'[q].stages : Recorded(s)'
    BY <1>1 DEF SafeStagesAreRecorded
  <2>1. q \in Scripts
    BY DEF RecordsInv, RecordsTypeOK
  <2> QED BY <1>1, <1>3, <2>1 DEF RecordsInv, SafeStagesAreRecorded, after
<1>7. CurrentTask' = CurrentTask
  BY <1>1 DEF CurrentTask
<1>8. OwnIsCurrent'
  BY <1>1, <1>2, <1>7 DEF RecordsInv, OwnIsCurrent, after
<1>9. AttributedToOwn'
  <2>1. ASSUME NEW q \in Scripts \ overtaken,
               script'[q].at \in {"found", "saving", "done", "broken"}
        PROVE  script'[q].task = IF q \in unanswered' THEN NoTask ELSE script'[q].own
    <3>1. CASE q # r
      BY <1>1, <2>1, <3>1 DEF RecordsInv, AttributedToOwn
    <3>2. CASE q = r
      BY <1>1, <1>2, <2>1, <3>2 DEF RecordsInv, AttributedToOwn, OwnIsCurrent, after
    <3> QED BY <3>1, <3>2
  <2> QED BY <1>1, <2>1 DEF AttributedToOwn
<1>10. AsksOnce'
  <2>1. after.at \notin {"new", "running"}
    BY <1>1, <1>2
  <2>2. unanswered \subseteq Scripts
    BY DEF RecordsInv, RecordsTypeOK
  <2> QED BY <1>1, <2>1, <2>2 DEF RecordsInv, AsksOnce, after
<1> QED BY <1>4, <1>5, <1>6, <1>8, <1>9, <1>10 DEF RecordsInv

LEMMA CreateStageKeeps ==
  ASSUME RecordsInv, NEW r \in Scripts, NEW s \in StageIds, CreateStage(r, s)
  PROVE  RecordsInv'
<1>1. /\ rows' = [rows EXCEPT ![r] = @ \cup {s}] /\ r \in Runs /\ r # Api
      /\ script[r].at = "saving" /\ config[s] # "none"
      /\ UNCHANGED <<config, newest, script, posted, safe, overtaken, unanswered>>
  BY RecordsAssumption DEF CreateStage, Runs, historyVars
<1>2. /\ rows'[r] = rows[r] \cup {s}
      /\ \A q \in Runs \ {r} : rows'[q] = rows[q]
  BY <1>1 DEF RecordsInv, RecordsTypeOK
<1>3. \A t : Recorded(t)' <=> Recorded(t) \/ t = s
  BY <1>1, <1>2 DEF Recorded
<1>4. RecordsTypeOK'
  BY <1>1 DEF RecordsInv, RecordsTypeOK
<1>5. RecordsAreWhole'
  <2>1. rows'[Api] = posted'
    BY <1>1, <1>2 DEF RecordsInv, RecordsAreWhole, Runs
  <2>2. ASSUME NEW q \in Scripts
        PROVE  /\ script'[q].at = "done" => rows'[q] = script'[q].stages
               /\ script'[q].at = "broken" => q \notin safe'
    BY <1>1, <1>2 DEF RecordsInv, RecordsAreWhole, Runs
  <2> QED BY <1>1, <1>3, <2>1, <2>2 DEF RecordsInv, RecordsAreWhole
<1>6. SafeStagesAreRecorded'
  BY <1>1, <1>3 DEF RecordsInv, SafeStagesAreRecorded
<1>7. AttributedToOwn' /\ OwnIsCurrent' /\ AsksOnce'
  BY <1>1 DEF RecordsInv, AttributedToOwn, OwnIsCurrent, AsksOnce,
     CurrentTask
<1> QED BY <1>4, <1>5, <1>6, <1>7 DEF RecordsInv

LEMMA PostRunKeeps ==
  ASSUME RecordsInv, NEW stages \in SUBSET StageIds, PostRun(stages)
  PROVE  RecordsInv'
<1>1. /\ rows' = [rows EXCEPT ![Api] = stages] /\ Api \in Runs /\ Api \notin Scripts
      /\ posted' = stages /\ posted = {}
      /\ \A s \in stages : config[s] # "none"
      /\ UNCHANGED <<config, newest, script, safe, overtaken, unanswered>>
  BY RecordsAssumption DEF PostRun, Runs, historyVars
<1>2. /\ rows'[Api] = stages /\ rows[Api] = {}
      /\ \A q \in Runs \ {Api} : rows'[q] = rows[q]
  BY <1>1 DEF RecordsInv, RecordsTypeOK, RecordsAreWhole
<1>3. \A t : Recorded(t)' <=> Recorded(t) \/ t \in stages
  BY <1>1, <1>2 DEF Recorded
<1>4. RecordsTypeOK'
  BY <1>1 DEF RecordsInv, RecordsTypeOK
<1>5. RecordsAreWhole'
  <2>1. ASSUME NEW q \in Scripts
        PROVE  /\ script'[q].at = "done" => rows'[q] = script'[q].stages
               /\ script'[q].at = "broken" => q \notin safe'
    BY <1>1, <1>2 DEF RecordsInv, RecordsAreWhole, Runs
  <2> QED BY <1>1, <1>2, <1>3, <2>1 DEF RecordsInv, RecordsAreWhole
<1>6. SafeStagesAreRecorded'
  BY <1>1, <1>3 DEF RecordsInv, SafeStagesAreRecorded
<1>7. AttributedToOwn' /\ OwnIsCurrent' /\ AsksOnce'
  BY <1>1 DEF RecordsInv, AttributedToOwn, OwnIsCurrent, AsksOnce,
     CurrentTask
<1> QED BY <1>4, <1>5, <1>6, <1>7 DEF RecordsInv

LEMMA ClearRunsKeeps ==
  ASSUME RecordsInv, ClearRuns
  PROVE  RecordsInv'
<1> DEFINE Cut == [at |-> "killed", own |-> NoTask, task |-> NoTask, stages |-> {}]
<1>1. \A r \in Scripts :
        IF script[r].at \in {"saving", "done", "broken", "killed"}
        THEN script'[r] = Cut ELSE script'[r] = script[r]
  BY DEF ClearRuns, NewScript
<1>2. RecordsTypeOK'
  <2>1. Cut \in ScriptState /\ [NewScript EXCEPT !.at = "killed"] = Cut
    BY DEF ScriptState, NewScript
  <2> QED BY <2>1 DEF ClearRuns, RecordsInv, RecordsTypeOK
<1>3. \A t : ~Recorded(t)'
  BY DEF ClearRuns, Recorded
<1>4. \A r \in Scripts : script'[r].at \notin {"done", "broken"}
  BY <1>1
<1>5. RecordsAreWhole'
  BY <1>3, <1>4 DEF ClearRuns, RecordsAreWhole, Runs
<1>6. AttributedToOwn' /\ OwnIsCurrent'
  BY <1>1 DEF ClearRuns, RecordsInv, AttributedToOwn, OwnIsCurrent, CurrentTask
<1>7. AsksOnce'
  <2>1. unanswered \subseteq Scripts /\ unanswered' = unanswered
    BY DEF ClearRuns, RecordsInv, RecordsTypeOK
  <2> QED BY <1>1, <2>1 DEF RecordsInv, AsksOnce
<1>8. SafeStagesAreRecorded'
  BY DEF ClearRuns, SafeStagesAreRecorded
<1> QED BY <1>2, <1>5, <1>6, <1>7, <1>8 DEF RecordsInv

LEMMA RecordsStep == RecordsInv /\ [RecordsNext]_recordsVars => RecordsInv'
<1> SUFFICES ASSUME RecordsInv, [RecordsNext]_recordsVars PROVE RecordsInv'
  OBVIOUS
<1>1. ASSUME NEW s \in StageIds, NEW state \in Config, WriteConfig(s, state)
      PROVE  RecordsInv'
  BY <1>1, ConfigChangeKeeps DEF WriteConfig, historyVars
<1>2. ASSUME NEW s \in StageIds, DeleteConfig(s)
      PROVE  RecordsInv'
  BY <1>2, ConfigChangeKeeps DEF DeleteConfig, Config, historyVars
<1>3. ASSUME NEW r \in Scripts, FindTask(r) \/ FindFails(r) \/ CreateRun(r) \/
                                BreakOff(r) \/ EndSave(r) \/ KillScript(r)
      PROVE  RecordsInv'
  BY <1>3, ScriptStepKeeps
<1>4. CASE UNCHANGED recordsVars
  <2>1. RecordsTypeOK'
    BY <1>4 DEF recordsVars, historyVars, RecordsInv, RecordsTypeOK
  <2>2. RecordsAreWhole' /\ SafeStagesAreRecorded'
    BY <1>4 DEF recordsVars, historyVars, RecordsInv, RecordsAreWhole, SafeStagesAreRecorded, Recorded
  <2>3. AttributedToOwn' /\ OwnIsCurrent' /\ AsksOnce'
    BY <1>4 DEF recordsVars, historyVars, RecordsInv, AttributedToOwn, OwnIsCurrent, AsksOnce,
     CurrentTask
  <2> QED BY <2>1, <2>2, <2>3 DEF RecordsInv
<1> QED BY <1>1, <1>2, <1>3, <1>4, TouchTaskKeeps, LeaveTaskKeeps, LoadStagesKeeps,
        CreateStageKeeps, PostRunKeeps, ClearRunsKeeps DEF RecordsNext

\* The invariant of the records holds in every reachable state.
THEOREM RecordsInductive == RecordsSpec => []RecordsInv
BY RecordsStart, RecordsStep, PTL DEF RecordsSpec

\* A run that is kept has a row for each of its stages, unless its script was
\* killed or broke off, which never happens over stages all recorded before; rows
\* and configurations agree (saveToDatabase, createStageRecords, POST /).
THEOREM RunsAreWhole == RecordsSpec => []RecordsAreWhole
<1>1. RecordsInv => RecordsAreWhole
  BY DEF RecordsInv
<1> QED BY <1>1, RecordsInductive, PTL

\* A run is attributed to the task it was made for, unless another task in
\* progress was updated after it or it left progress; to none if the query for
\* the task failed (findCurrentTask).
THEOREM RunsAreAttributed == RecordsSpec => []AttributedToOwn
<1>1. RecordsInv => AttributedToOwn
  BY DEF RecordsInv
<1> QED BY <1>1, RecordsInductive, PTL

--------------------------------------------------------------------------
(* The composition *)

\* Every variable of the pipeline and of what it reads and leaves behind keeps
\* its type, whichever component a behaviour of the composition is about.
THEOREM ValidationTypes == MCSpec => []MCTypeOK
<1> DEFINE Inv == /\ TypeOK /\ IInv
                  /\ FileTypeOK /\ FileInv
                  /\ RecordsInv /\ ConfigInv
           allVars == <<focus, vars, fileVars, recordsVars, configVars>>
<1>1. MCInit => Inv
  BY PipelineStart, FileStart, RecordsStart, ConfigStart DEF MCInit
<1>2. Inv /\ [MCNext]_allVars => Inv'
  <2> SUFFICES ASSUME Inv, [MCNext]_allVars PROVE Inv'
    OBVIOUS
  <2>1. /\ [Next]_vars /\ [FileNext]_fileVars
        /\ [RecordsNext]_recordsVars /\ [ConfigNext]_configVars
    BY DEF MCNext
  <2> QED BY <2>1, PipelineStep, FileStep, RecordsStep, ConfigStep
<1>3. Inv => MCTypeOK
  BY DEF MCTypeOK, RecordsInv, ConfigInv
<1> QED BY <1>1, <1>2, <1>3, PTL DEF MCSpec
===========================================================================
