----------------------------- MODULE MCPlatform -----------------------------
(***************************************************************************)
(* What the platform keeps in step for one user: the agent pod with its    *)
(* catalogue, the skills in it, and the instances with their identity.     *)
(* The three share no state in their models, so a behaviour picks one of   *)
(* them and runs it alone; the others stay as they begin.                  *)
(***************************************************************************)
EXTENDS Supervisor, SkillDelivery, AgentInstances

CONSTANTS p1, p2, m1, m2, r1, s1, s2, k1, k2, seed, up, n1, n2

VARIABLE part

platformVars == <<vars, skillVars, instanceVars, part>>

PlatformInit ==
    /\ part \in {"pod", "skills", "instances"}
    /\ Init /\ SkillInit /\ InstanceInit
    /\ m1 \in providers[Bundled].models       \* the models are alike
    /\ part # "pod" => default = None

\* The bounds of the instances: what fails, fails before the last creation; and a
\* second name is used beside the first, once that has served, when nothing has failed.
Used(n) == inst[n] # Missing \/ volume[n] # Missing \/ pods[n] # Missing

InstancesBound ==
    /\ created = MaxCreates => mishaps' = mishaps
    /\ Used(n2)' => /\ mishaps = 0
                    /\ ~Used(n2) => inst[n1] # Missing /\ inst[n1].phase = "Ready"

PlatformNext ==
    /\ UNCHANGED part
    /\ \/ part = "pod" /\ Next /\ UNCHANGED <<skillVars, instanceVars>>
       \/ part = "skills" /\ SkillNext /\ UNCHANGED <<vars, instanceVars>>
       \/ /\ part = "instances" /\ InstanceNext /\ InstancesBound
          /\ UNCHANGED <<vars, skillVars>>

\* Each part is fair while it is the one that runs: in the others no step of it is
\* enabled.
PlatformFairness ==
    /\ \A r \in Requests :
         WF_<<catalogVars, faults>>(part = "pod" /\ (List(r) \/ Write(r) \/ WriteSecret(r)))
    /\ WF_<<catalogVars, faults>>(part = "pod" /\ StoreChoice)
    /\ WF_<<catalogVars, faults>>(part = "pod" /\ (RenderRead \/ RenderWrite))
    /\ WF_vars(part = "pod" /\ Run)
    /\ WF_skillVars(part = "skills" /\ SyncStep)
    /\ \A p \in Publishes :
         WF_skillVars(part = "skills" /\ (WriteBytes(p) \/ GetSkill(p) \/ PutSkill(p)))
    /\ \A n \in Instances : SF_instanceVars(part = "instances" /\ Turn(n))
    /\ WF_instanceVars(part = "instances" /\ pass # Resting /\ PassStep)
    /\ WF_instanceVars(part = "instances" /\ BootStep)
    /\ WF_instanceVars(part = "instances" /\ ClusterStep)

PlatformSpec == PlatformInit /\ [][PlatformNext]_platformVars /\ PlatformFairness

\* PodFollows, SkillsFollow and InstancesSettle, each where its part runs.
PodRunFollows == <>[](part = "pod" /\ Resolvable => InStep)
SkillsRunFollow == <>[](part = "skills" /\ Servable => Rendered)
InstancesRunSettle == <>[](part = "instances" => Settled)
=============================================================================
