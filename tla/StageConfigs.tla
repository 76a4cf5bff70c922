---------------------------- MODULE StageConfigs ----------------------------
(***************************************************************************)
(* The requests on stage configurations, in                                *)
(* src/src/routes/validation-stage-configs.ts and                          *)
(* src/src/services/validation-stage-config.service.ts: each looks the     *)
(* configuration up and writes it afterwards.  A toggle writes what it     *)
(* read, negated; the others bring their flag along.                       *)
(***************************************************************************)
CONSTANTS
  Configs,   \* stageIds
  Askers     \* requests that may be under way at a time

VARIABLES
  stored,    \* whether each configuration is there, and enabled
  asker,     \* the request under way, and the flag it is to write
  asked,     \* history: the flags as the answered requests mean them, in order
  outdated,  \* history: requests whose configuration was written since they read it
  raced      \* history: configurations written by a toggle that was outdated

configVars == <<stored, asker, asked, outdated, raced>>

Flag == {"none", "off", "on"}
Op == {"create", "set", "toggle", "delete"}

NoAsk == [op |-> "none", of |-> "none", flag |-> "none"]

ConfigTypeOK ==
  /\ stored \in [Configs -> Flag]
  /\ asker \in [Askers -> [op : Op \cup {"none"}, of : Configs \cup {"none"}, flag : Flag]]
  /\ asked \in [Configs -> Flag]
  /\ outdated \subseteq Askers
  /\ raced \subseteq Configs

ConfigInit ==
  /\ stored = [c \in Configs |-> "none"]
  /\ asker = [a \in Askers |-> NoAsk]
  /\ asked = [c \in Configs |-> "none"]
  /\ outdated = {}
  /\ raced = {}

\* Mutant: a toggle only ever disables.
SwitchedOff(flag) == "off"

\* What toggleStageConfig writes.
Toggled(flag) == IF flag = "on" THEN "off" ELSE "on"

\* findUnique: 409 for a new configuration that is there, 404 for another that
\* is not.
LookUp(a, op, c, flag) ==
  /\ asker[a] = NoAsk
  /\ op = "create" <=> stored[c] = "none"
  /\ flag = "none" <=> op = "delete"
  /\ op = "toggle" => flag = Toggled(stored[c])
  /\ asker' = [asker EXCEPT ![a] = [op |-> op, of |-> c, flag |-> flag]]
  /\ outdated' = outdated \ {a}
  /\ UNCHANGED <<stored, asked, raced>>

\* The write.
WriteFlag(a) ==
  LET c == asker[a].of
      toggles == asker[a].op = "toggle"
  IN /\ asker[a] # NoAsk
     /\ asker[a].op = "create" <=> stored[c] = "none"
     /\ stored' = [stored EXCEPT ![c] = asker[a].flag]
     /\ asked' = [asked EXCEPT ![c] = IF toggles
                                      THEN CHOOSE f \in {"on", "off"} : f # @
                                      ELSE asker[a].flag]
     /\ outdated' = outdated \cup {b \in Askers : asker[b].of = c}
     /\ raced' = IF ~toggles THEN raced \ {c}
                 ELSE IF a \in outdated THEN raced \cup {c} ELSE raced
     /\ asker' = [asker EXCEPT ![a] = NoAsk]

\* The database refuses a second row for a stage, the change of a row that is
\* gone, and the deletion of a configuration that stage rows refer to: 500.
FailWrite(a) ==
  /\ asker[a] # NoAsk
  /\ \/ asker[a].op = "create" <=> stored[asker[a].of] # "none"
     \/ asker[a].op = "delete"
  /\ asker' = [asker EXCEPT ![a] = NoAsk]
  /\ UNCHANGED <<stored, asked, outdated, raced>>

ConfigNext ==
  \E a \in Askers :
    \/ \E op \in Op, c \in Configs, flag \in Flag : LookUp(a, op, c, flag)
    \/ WriteFlag(a)
    \/ FailWrite(a)

ConfigSpec == ConfigInit /\ [][ConfigNext]_configVars

--------------------------------------------------------------------------
(* Properties *)

\* However requests overlap, every configuration is enabled as the answered
\* requests say, each toggle counted once, unless its flag was written by a
\* toggle that something else came before; another request ends such a race.
FlagsAreAsAsked ==
  \A c \in Configs \ raced : stored[c] = asked[c]

--------------------------------------------------------------------------
(* The invariant behind it *)

\* A toggle that nothing came before negates the flag that is stored.
TogglesNegate ==
  \A a \in Askers :
    asker[a].op = "toggle" =>
      /\ asker[a].of \in Configs
      /\ asker[a].flag \in {"on", "off"}
      /\ a \notin outdated => asker[a].flag = Toggled(stored[asker[a].of])

\* A configuration that is there is so by the requests, raced or not.
ThereAsAsked ==
  \A c \in Configs : stored[c] = "none" <=> asked[c] = "none"

ConfigInv ==
  /\ ConfigTypeOK
  /\ FlagsAreAsAsked
  /\ TogglesNegate
  /\ ThereAsAsked
============================================================================
