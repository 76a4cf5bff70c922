--------------------------- MODULE SettingsStore ---------------------------
(***************************************************************************)
(* What the settings are to their users: sections, changed by one request  *)
(* at a time.  A request changes any of the sections; it takes effect      *)
(* once, as a whole, at some moment between its arrival and its answer.    *)
(* The store vouches for that until it is disturbed.                       *)
(***************************************************************************)
CONSTANTS Sections, Entries   \* a section is the set of its entries

VARIABLES settings, request, trusted

storeVars == <<settings, request, trusted>>

Settings == [Sections -> SUBSET Entries]

\* An update takes entries out of sections and puts others in: options are set,
\* a section is replaced, a stage is added, edited or removed.
Update == {update \in [gone : Settings, come : Settings] :
             \A s \in Sections : update.gone[s] \cap update.come[s] = {}}

Effect(update, old) ==
  [s \in Sections |-> (old[s] \ update.gone[s]) \cup update.come[s]]

Nothing == [s \in Sections |-> {}]
NoRequest == [at |-> "none", update |-> [gone |-> Nothing, come |-> Nothing]]
Asked(update) == [at |-> "asked", update |-> update]

StoreInit ==
  /\ settings \in Settings
  /\ request = NoRequest
  /\ trusted = TRUE

Ask ==
  /\ request = NoRequest
  /\ request' \in [at : {"asked"}, update : Update]
  /\ UNCHANGED <<settings, trusted>>

\* Some time after the request was made, or at once.
TakeEffect ==
  /\ request' \in [at : {"done"}, update : Update]
  /\ request \in {NoRequest, Asked(request'.update)}
  /\ settings' = Effect(request'.update, settings)
  /\ UNCHANGED trusted

Answer ==
  /\ request.at = "done"
  /\ request' = NoRequest
  /\ UNCHANGED <<settings, trusted>>

StoreNext ==
  \/ trusted' = FALSE
  \/ Ask \/ TakeEffect \/ Answer

StoreSpec == StoreInit /\ [][StoreNext]_storeVars
============================================================================
