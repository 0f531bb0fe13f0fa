----------------------------- MODULE Supervisor -----------------------------
(***************************************************************************)
(* The supervisor of one agent pod and the catalogue that it follows.  It  *)
(* is a loop: wait for a first config, deliver the model keys, start the   *)
(* gateway, and from then on, at each tick, respawn a dead gateway, poll   *)
(* the resolved config, refresh the keys, refresh the gateway config and   *)
(* approve the platform's device.                                          *)
(*                                                                         *)
(* Of the resolved config only the credentials are kept.  keys.json is on  *)
(* an emptyDir that goes with the pod, openclaw.json on a volume that      *)
(* stays.  The agent shares the volume and may rewrite openclaw.json.  A   *)
(* failed call, a dead child, a restart and an edit by the agent all take  *)
(* one of MaxFaults.  The Secrets of one sync are read in one step: no     *)
(* property compares the keys of two providers.                            *)
(***************************************************************************)
EXTENDS LlmProviders

CONSTANT Edited         \* a config that the agent wrote over the platform's

ASSUME EditedAssumption == Edited # None
ASSUME KeysAssumption == None \notin [Names -> Keys \cup {None}]

VARIABLES at,           \* where Run is
          polled,       \* whether the poll of this round of the boot succeeded
          lastCfg,      \* credentials of the last resolved config, None before it
          keys,         \* keys.json
          lastKeys,     \* what this process last wrote there (lastKeysHash)
          config,       \* openclaw.json in the pod
          child,        \* the gateway: none, running, or exited and not yet reaped
          pairing,      \* the platform's device at the gateway
          devicePaired  \* the supervisor's memory of having approved it

podVars == <<at, polled, lastCfg, keys, lastKeys, config, child, pairing, devicePaired>>
vars == <<catalogVars, faults, podVars>>

NoKeys == [n \in Names |-> None]

Step(here, next) == at = here /\ at' = next

-----------------------------------------------------------------------------
\* poll: a failure keeps the last config.
Poll(here, next) ==
    /\ Step(here, next)
    /\ \/ Resolvable /\ lastCfg' = Credentials /\ polled' = TRUE /\ UNCHANGED faults
       \/ ~Resolvable /\ polled' = FALSE /\ UNCHANGED <<lastCfg, faults>>
       \/ Fault /\ polled' = FALSE /\ UNCHANGED lastCfg
    /\ UNCHANGED <<catalogVars, keys, lastKeys, config, child, pairing, devicePaired>>

\* syncCredentials: all keys of the last config or none; nothing is written when
\* this process wrote the same before.
Polled == lastCfg # None
Deliverable == lastCfg # None /\ \A n \in lastCfg : secrets[n] # None

KeyImage == [n \in Names |-> IF n \in lastCfg THEN secrets[n] ELSE None]

FailsRemembering ==
    Fault /\ UNCHANGED keys /\ lastKeys' = IF Deliverable THEN KeyImage ELSE lastKeys
FailsToWrite == Fault /\ UNCHANGED <<keys, lastKeys>>

SyncCredentials(here, next) ==
    /\ Step(here, next)
    /\ \/ Deliverable /\ KeyImage # lastKeys /\ keys' = KeyImage /\ lastKeys' = KeyImage
          /\ UNCHANGED faults
       \/ ~(Deliverable /\ KeyImage # lastKeys) /\ UNCHANGED <<keys, lastKeys, faults>>
       \/ FailsToWrite
    /\ UNCHANGED <<catalogVars, polled, lastCfg, config, child, pairing, devicePaired>>

\* refreshGatewayConfig: what is written is compared with the file, not with memory.
WriteUnlessEdited == config' = IF config = Edited THEN config ELSE PersonalConfig
WriteConfig == config' = PersonalConfig

\* The API serves the config as rendered when it cannot read the user's selection.
WriteShared == Fault /\ config' = rendered

RefreshConfig(here) ==
    /\ at = here
    /\ (WriteConfig /\ UNCHANGED faults) \/ WriteShared
    /\ UNCHANGED <<catalogVars, polled, lastCfg, keys, lastKeys, child, pairing,
                   devicePaired>>

FailConfig(here, next) ==
    /\ Step(here, next)
    /\ Fault
    /\ UNCHANGED <<catalogVars, polled, lastCfg, keys, lastKeys, config, child, pairing,
                   devicePaired>>

-----------------------------------------------------------------------------
\* The boot: both fetches must have succeeded in one round.
BootPoll == Poll("boot", "bootConfig")

BootConfig ==
    \/ RefreshConfig("bootConfig") /\ at' = (IF polled THEN "bootKeys" ELSE "boot")
    \/ FailConfig("bootConfig", "boot")

BootKeys == SyncCredentials("bootKeys", "start")

\* A gateway that cannot be started at boot ends Run, and with it the container.
StartFirst ==
    /\ Step("start", "tick")
    /\ child' = "running"
    /\ UNCHANGED <<catalogVars, faults, polled, lastCfg, keys, lastKeys, config, pairing,
                   devicePaired>>

-----------------------------------------------------------------------------
\* The tick.
Respawn ==
    /\ Step("tick", "poll")
    /\ \/ child' = "running" /\ UNCHANGED faults
       \/ child # "running" /\ Fault /\ child' = "none"
    /\ UNCHANGED <<catalogVars, polled, lastCfg, keys, lastKeys, config, pairing, devicePaired>>

TickPoll == Poll("poll", "keys")
TickKeys == SyncCredentials("keys", "config")
TickConfig ==
    \/ RefreshConfig("config") /\ at' = "pair"
    \/ FailConfig("config", "pair")

\* ensureDevicePaired: over the loopback to a gateway that runs.
Pair ==
    /\ Step("pair", "tick")
    /\ \/ /\ lastCfg # None /\ config # None /\ child = "running"
          /\ pairing # "unknown"
          /\ pairing' = "paired" /\ devicePaired' = TRUE
          /\ UNCHANGED faults
       \/ /\ \/ lastCfg = None \/ config = None \/ child # "running"
             \/ pairing = "unknown" \/ devicePaired
          /\ UNCHANGED <<pairing, devicePaired, faults>>
       \/ Fault /\ UNCHANGED <<pairing, devicePaired>>
    /\ UNCHANGED <<catalogVars, polled, lastCfg, keys, lastKeys, config, child>>

-----------------------------------------------------------------------------
\* What happens to the supervisor.

GatewayExits ==
    /\ child = "running" /\ Fault
    /\ child' = "exited"
    /\ UNCHANGED <<catalogVars, at, polled, lastCfg, keys, lastKeys, config, pairing, devicePaired>>

\* The container restarts with the emptyDir, or the pod is created anew without it.
Restart ==
    /\ Fault
    /\ at' = "boot" /\ polled' = FALSE
    /\ lastCfg' = None /\ lastKeys' = None
    /\ keys' \in {keys, NoKeys}
    /\ child' = "none"
    /\ devicePaired' = FALSE
    /\ UNCHANGED <<catalogVars, config, pairing>>

AgentEdits ==
    /\ config \notin {None, Edited} /\ Fault
    /\ config' = Edited
    /\ UNCHANGED <<catalogVars, at, polled, lastCfg, keys, lastKeys, child, pairing, devicePaired>>

\* The platform's first connection leaves a pending request at the gateway.
PlatformDials ==
    /\ pairing = "unknown" /\ child = "running"
    /\ pairing' = "pending"
    /\ UNCHANGED <<catalogVars, faults, at, polled, lastCfg, keys, lastKeys, config, child,
                   devicePaired>>

-----------------------------------------------------------------------------
PodInit ==
    /\ at = "boot" /\ polled = FALSE
    /\ lastCfg = None
    /\ keys = NoKeys /\ lastKeys = None
    /\ config = None
    /\ child = "none"
    /\ pairing = "unknown" /\ devicePaired = FALSE

Run == \/ BootPoll \/ BootConfig \/ BootKeys \/ StartFirst
       \/ Respawn \/ TickPoll \/ TickKeys \/ TickConfig \/ Pair

PodNext == Run \/ GatewayExits \/ Restart \/ AgentEdits \/ PlatformDials

Init == CatalogInit /\ PodInit
Next == (CatalogNext /\ UNCHANGED podVars) \/ PodNext
Spec == Init /\ [][Next]_vars

Fairness == CatalogFairness /\ WF_vars(Run)
FairSpec == Spec /\ Fairness

-----------------------------------------------------------------------------
\* A key leaves the pod only when the resolved config no longer names its
\* credential, or with the pod: a Secret that cannot be read never thins
\* keys.json out (supervisor.go:357-363).
KeysStayWhole ==
    [][\A n \in Names : keys[n] # None /\ keys'[n] = None => at' = "boot" \/ n \notin lastCfg]_vars

\* A sync that has nothing to report leaves in keys.json just what it has read, and no
\* key of a credential that the config no longer names, although it compares with its
\* memory of the last write and not with the file (supervisor.go:337-340, 369-383).
KeysDelivered ==
    [][Deliverable /\ at \in {"bootKeys", "keys"} /\ at' # at /\ UNCHANGED faults =>
         keys' = KeyImage]_vars

\* The gateway is never started on anything but a config that the platform served,
\* and the primary model of such a config is one that its own allow list has, or
\* none (supervisor.go:232-237, handlers_platform.go:395-410).
BootsConfigured ==
    /\ child # "none" => config # None
    /\ config \notin {None, Edited} =>
         config.primary \in config.allow \/ (config.primary = None /\ config.allow = {})

\* When admins, users and failures have stopped, the pod ends up with the config,
\* the keys and the pairing that the catalogue calls for: an edit by the agent is
\* overwritten, a dead gateway is respawned, a key that was missing arrives.
InStep ==
    /\ config = PersonalConfig
    /\ Resolvable /\ (\A n \in Credentials : secrets[n] # None) =>
         \A n \in Names : keys[n] = IF n \in Credentials THEN secrets[n] ELSE None
    /\ child = "running"
    /\ pairing # "pending"

PodFollows == <>[](Resolvable => InStep)
=============================================================================
