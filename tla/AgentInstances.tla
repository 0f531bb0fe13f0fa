--------------------------- MODULE AgentInstances ---------------------------
(***************************************************************************)
(* The instances of one user, the pod and the volume behind each, and the  *)
(* identity that the pods run under.                                       *)
(*                                                                         *)
(* Two controllers work on them, each on one thing at a time.  The         *)
(* instance controller brings volume, Service and pod of one instance into *)
(* being, heals the pod, and revokes the identity before it lets the       *)
(* owner's last instance go.  The bootstrap mints the identity of a user   *)
(* who has an instance and prunes that of a user who has none.  Nothing    *)
(* orders the two.  Kubernetes fills the tokens, runs the pods and         *)
(* collects what has lost its owner.                                       *)
(*                                                                         *)
(* The uid of an instance is a count; that of a pod, or a resource version,*)
(* is a number that nothing compared with it has: one that nothing refers  *)
(* to any more cannot be told from a new one.  A pass reads through a      *)
(* cache, so what it has read may be gone when it writes.  The Service is  *)
(* treated like the volume, and the template is taken to be there and      *)
(* supported.                                                              *)
(***************************************************************************)
EXTENDS Naturals, FiniteSets

CONSTANTS Instances,    \* the names of the user's instances
          Missing,
          MaxCreates,   \* instances that are ever created
          MaxMishaps    \* failed calls and pods, foreign pods

\* Of a failed one: whether the last pass got so far, or an error cut it short.
Phases == {"Creating", "Ready", "Failed", "Error"}

ASSUME InstanceAssumption ==
    /\ IsFiniteSet(Instances)
    /\ Missing \notin Nat
    /\ Missing \notin [uid : Nat, finalizer : BOOLEAN, terminating : BOOLEAN,
                       phase : Phases]
    /\ MaxCreates \in Nat /\ MaxMishaps \in Nat

VARIABLES inst,         \* the AgentInstances
          volume,       \* the uid of the owner of data-<instance>
          pods,         \* agent-<instance>
          account,      \* the ServiceAccount
          bindings,     \* its ClusterRoleBindings: whole, or altered (another role or subject)
          token,        \* the token Secret, for the account that it was filled for
          kubeconfig,   \* the kubeconfig Secret, and the token that is in it
          pass,         \* the pass of the instance controller
          queue,        \* the instances that wait for a pass
          boot,         \* the pass of the bootstrap
          created, mishaps

identity == <<account, bindings, token, kubeconfig>>
counters == <<created, mishaps>>
instanceVars == <<inst, volume, pods, identity, pass, queue, boot, counters>>

Foreign == 0
Resting == [step |-> "rest"]

Mishap == mishaps < MaxMishaps /\ mishaps' = mishaps + 1 /\ UNCHANGED created
Smooth == UNCHANGED counters

Alive == {n \in Instances : inst[n] # Missing /\ ~inst[n].terminating}

PassMoves(step) == pass' = [pass EXCEPT !.step = step]
PassEnds == pass' = Resting

\* The instance that the pass has read is still that one.
Same(n) == inst[n] # Missing /\ inst[n].uid = pass.uid
Phase(n, phase) == inst' = IF Same(n) THEN [inst EXCEPT ![n].phase = phase] ELSE inst

\* New numbers, for instances, pods, kubeconfigs, tokens and accounts.
Fresh(used) == CHOOSE x \in 1..(Cardinality(used) + 1) : x \notin used

Pods == {pods[n] : n \in Instances} \ {Missing}
Passes == {pass} \ {Resting}
Uids == {inst[n].uid : n \in {m \in Instances : inst[m] # Missing}}

NewUid == created + 1

\* A pod is compared with the one that a pass has looked at under its name.
NewPodUid == Fresh({p.pod : p \in Passes})
NewRev == Fresh({p.rev : p \in Pods \cup Passes})
NewToken == Fresh({s.token : s \in {kubeconfig} \ {Missing}})
NewAccount == Fresh({s.for : s \in {token} \ {Missing}})

-----------------------------------------------------------------------------
\* The work queue.  An event puts an instance into it: of itself (a status that is written
\* as it was is none), of the volume and the pod of its name while an instance owns them,
\* and of the kubeconfig.  A pass takes it out, and puts it back when it ends well or with
\* an error; one that reports a refusal or a failure in the status, and returns no error,
\* does not.  It is put back here as soon as there is nothing left to report: no other pass
\* begins before this one ends.  The resync of the cache is left out.

PodEvent(n) ==
    pods'[n] # pods[n] /\ \E p \in {pods[n], pods'[n]} \ {Missing} : p.owner # Foreign

Event(n) == \/ inst'[n] # inst[n] \/ volume'[n] # volume[n] \/ PodEvent(n)
            \/ kubeconfig' # kubeconfig

\* A pass on an instance that is gone does nothing.
Queued(taken, back) ==
    queue' = {n \in Instances : /\ inst'[n] # Missing
                                /\ Event(n) \/ n \in back \cup (queue \ taken)}

-----------------------------------------------------------------------------
\* What the user does.

CreateInstance(n) ==
    /\ inst[n] = Missing /\ created < MaxCreates
    /\ inst' = [inst EXCEPT ![n] = [uid |-> NewUid, finalizer |-> FALSE,
                                    terminating |-> FALSE, phase |-> "Creating"]]
    /\ created' = created + 1
    /\ UNCHANGED <<volume, pods, identity, pass, boot, mishaps>>

DeleteInstance(n) ==
    /\ n \in Alive
    /\ inst' = [inst EXCEPT ![n] = IF @.finalizer THEN [@ EXCEPT !.terminating = TRUE] ELSE Missing]
    /\ UNCHANGED <<volume, pods, identity, pass, boot, counters>>

-----------------------------------------------------------------------------
\* The instance controller.

\* A new instance gets the finalizer, and the pass ends.
AddFinalizer(n) ==
    /\ pass = Resting
    /\ n \in Alive /\ ~inst[n].finalizer
    /\ inst' = [inst EXCEPT ![n].finalizer = TRUE]
    /\ UNCHANGED <<volume, pods, identity, pass, boot, counters>>

\* One that is terminating takes the identity with it, unless another is alive.
BeginTeardown(n) ==
    /\ pass = Resting
    /\ inst[n] # Missing /\ inst[n].terminating
    /\ pass' = [step |-> IF Alive = {} THEN "account" ELSE "release",
                name |-> n, uid |-> inst[n].uid, rev |-> Missing, pod |-> Missing]
    /\ UNCHANGED <<inst, volume, pods, identity, boot, counters>>

\* No pod is made before there is a kubeconfig.
BeginProvision(n) ==
    /\ pass = Resting
    /\ n \in Alive /\ inst[n].finalizer
    /\ kubeconfig # Missing
    /\ pass' = [step |-> "volume", name |-> n, uid |-> inst[n].uid,
                rev |-> kubeconfig.rev, pod |-> Missing]
    /\ UNCHANGED <<inst, volume, pods, identity, boot, counters>>

\* revokeLastIdentity: one object after the other.  What is gone is fine.
Revoke ==
    /\ \/ /\ pass.step = "account" /\ account' = Missing /\ PassMoves("token")
          /\ UNCHANGED <<bindings, token, kubeconfig>>
       \/ /\ pass.step = "token" /\ token' = Missing /\ PassMoves("kubeconfig")
          /\ UNCHANGED <<account, bindings, kubeconfig>>
       \/ /\ pass.step = "kubeconfig" /\ kubeconfig' = Missing /\ PassMoves("bindings")
          /\ UNCHANGED <<account, bindings, token>>
       \/ /\ pass.step = "bindings" /\ bindings' = Missing /\ PassMoves("release")
          /\ UNCHANGED <<account, token, kubeconfig>>
    /\ UNCHANGED <<inst, volume, pods, boot, counters>>

Release ==
    /\ pass.step = "release"
    /\ inst' = IF Same(pass.name) THEN [inst EXCEPT ![pass.name] = Missing] ELSE inst
    /\ PassEnds
    /\ UNCHANGED <<volume, pods, identity, boot, counters>>

\* ensurePVC: what belongs to another instance, an earlier one of the name, is not adopted.
Named(n) == volume[n] # Missing
OwnVolume(n) == volume[n] = pass.uid

EnsureVolume ==
    /\ pass.step = "volume"
    /\ LET n == pass.name
       IN \/ /\ volume[n] = Missing
             /\ volume' = [volume EXCEPT ![n] = pass.uid] /\ PassMoves("pod")
             /\ UNCHANGED inst
          \/ /\ OwnVolume(n)
             /\ PassMoves("pod")
             /\ UNCHANGED <<inst, volume>>
          \/ /\ volume[n] # Missing /\ ~OwnVolume(n)
             /\ Phase(n, "Failed") /\ PassEnds
             /\ UNCHANGED volume
    /\ UNCHANGED <<pods, identity, boot, counters>>

\* ensurePod: what to do about the pod is decided by what it is now.
DriftedOrUnready(pod) == pod.rev # pass.rev \/ pod.health = "starting"
Drifted(pod) == pod.rev # pass.rev

ReadPod ==
    /\ pass.step = "pod"
    /\ LET n == pass.name
           pod == pods[n]
       IN \/ pod = Missing /\ PassMoves("create") /\ UNCHANGED inst
          \/ pod # Missing /\ pod.owner # pass.uid /\ Phase(n, "Failed") /\ PassEnds
          \/ /\ pod # Missing /\ pod.owner = pass.uid
             /\ UNCHANGED inst
             /\ pass' = IF pod.terminating THEN Resting
                        ELSE IF Drifted(pod) THEN [pass EXCEPT !.step = "replace", !.pod = pod.uid]
                        ELSE [pass EXCEPT !.step = "observe"]
    /\ UNCHANGED <<volume, pods, identity, boot, counters>>

NewPod(owner, rev) ==
    [uid |-> NewPodUid, owner |-> owner, rev |-> rev, health |-> "starting",
     failed |-> FALSE, terminating |-> FALSE]

CreatePod ==
    /\ pass.step = "create"
    /\ LET n == pass.name
       IN IF pods[n] = Missing
          THEN /\ pods' = [pods EXCEPT ![n] = NewPod(pass.uid, pass.rev)]
               /\ PassMoves("observe") /\ UNCHANGED inst
          ELSE Phase(n, "Failed") /\ PassEnds /\ UNCHANGED pods
    /\ UNCHANGED <<volume, identity, boot, counters>>

\* A delete is for the pod that was looked at (deletePrecondition).
Deletes(n, uid) == pods[n] # Missing /\ pods[n].uid = uid

ReplacePod ==
    /\ pass.step = "replace"
    /\ LET n == pass.name
       IN \/ /\ Deletes(n, pass.pod)
             /\ pods' = [pods EXCEPT ![n].terminating = TRUE] /\ UNCHANGED inst
          \/ /\ ~Deletes(n, pass.pod) /\ UNCHANGED pods
             /\ IF pods[n] = Missing THEN UNCHANGED inst ELSE Phase(n, "Failed")
    /\ PassEnds
    /\ UNCHANGED <<volume, identity, boot, counters>>

\* The status says what the pod is; a failed one is deleted, to be made anew.
Observe ==
    /\ pass.step = "observe"
    /\ LET n == pass.name
           is == IF pods[n] = Missing THEN "starting" ELSE pods[n].health
       IN /\ Phase(n, CASE is = "ready" -> "Ready" [] is = "failed" -> "Failed"
                        [] OTHER -> "Creating")
          /\ IF is = "failed" /\ Same(n) THEN PassMoves("heal") ELSE PassEnds
    /\ UNCHANGED <<volume, pods, identity, boot, counters>>

HealPod ==
    /\ pass.step = "heal"
    /\ LET n == pass.name
       IN pods' = IF pods[n] # Missing /\ pods[n].owner = pass.uid
                  THEN [pods EXCEPT ![n].terminating = TRUE] ELSE pods
    /\ PassEnds
    /\ UNCHANGED <<inst, volume, identity, boot, counters>>

\* An error is returned, or reported (and if that fails, returned).
Reporting == pass # Resting /\ pass.step \in {"volume", "pod", "create", "replace"}

PassFails ==
    /\ pass # Resting /\ Mishap
    /\ PassEnds
    /\ UNCHANGED <<volume, pods, identity, boot>>
    /\ \/ UNCHANGED inst /\ Queued({}, {pass.name})
       \/ /\ Reporting
          /\ Phase(pass.name, "Error")
          /\ Queued({}, {})

Turn(n) ==
    /\ n \in queue
    /\ AddFinalizer(n) \/ BeginTeardown(n) \/ BeginProvision(n)
    /\ Queued(IF Reporting' THEN {n} ELSE {}, {})

\* What is in the way belongs to another: the volume, the pod, or a pod that has come since.
Refuses ==
    LET n == pass.name
    IN \/ pass.step = "volume" /\ volume[n] # Missing /\ ~OwnVolume(n)
       \/ pass.step = "pod" /\ pods[n] # Missing /\ pods[n].owner # pass.uid
       \/ pass.step = "create" /\ pods[n] # Missing
       \/ pass.step = "replace" /\ pods[n] # Missing /\ ~Deletes(n, pass.pod)

WorkStep ==
    \/ Revoke \/ Release
    \/ EnsureVolume \/ ReadPod \/ CreatePod \/ ReplacePod \/ Observe \/ HealPod

PassStep ==
    \/ \E n \in Instances : Turn(n)
    \/ WorkStep /\ Queued({}, IF Reporting' \/ Refuses THEN {} ELSE {pass.name})

-----------------------------------------------------------------------------
\* The bootstrap.

BootMoves(step) == boot' = [step |-> step]
BootEnds == boot' = Resting

\* usersWithInstances: an instance that is terminating does not count.
Wanted == Alive # {}

ListUsers ==
    /\ boot = Resting
    /\ BootMoves(IF Wanted THEN "mintAccount" ELSE "pruneAccount")
    /\ UNCHANGED <<inst, volume, pods, identity, pass, counters>>

\* ensurePerUserKubeconfigAccess, in this order; createIfMissing leaves what is there.
IfMissing(object, new) == IF object = Missing THEN new ELSE object

MintAccount ==
    /\ boot.step = "mintAccount"
    /\ account' = IfMissing(account, NewAccount)
    /\ BootMoves("mintBindings")
    /\ UNCHANGED <<inst, volume, pods, bindings, token, kubeconfig, pass, counters>>

\* reconcilePerUserCRB: one for another subject is put right, one for another role is
\* replaced.
MintBindings ==
    /\ boot.step = "mintBindings"
    /\ \/ bindings = "altered" /\ bindings' = Missing /\ UNCHANGED boot
       \/ bindings' = "whole" /\ BootMoves("mintToken")
    /\ UNCHANGED <<inst, volume, pods, account, token, kubeconfig, pass, counters>>

MintToken ==
    /\ boot.step = "mintToken"
    /\ token' = IfMissing(token, [rev |-> NewToken, for |-> Missing])
    /\ BootMoves("readToken")
    /\ UNCHANGED <<inst, volume, pods, account, bindings, kubeconfig, pass, counters>>

\* A token that is not there yet ends the pass.
ReadToken ==
    /\ boot.step = "readToken"
    /\ boot' = IF token # Missing /\ token.for # Missing
               THEN [step |-> "mintKubeconfig", token |-> token.rev] ELSE Resting
    /\ UNCHANGED <<inst, volume, pods, identity, pass, counters>>

\* A kubeconfig with another token is rewritten (ensureSecretData).
Existing(secret) == secret # Missing
UpToDate(secret) == secret # Missing /\ secret.token = boot.token

MintKubeconfig ==
    /\ boot.step = "mintKubeconfig"
    /\ \/ /\ ~UpToDate(kubeconfig)
          /\ kubeconfig' = [rev |-> NewRev, token |-> boot.token]
       \/ UpToDate(kubeconfig) /\ UNCHANGED kubeconfig
    /\ BootEnds
    /\ UNCHANGED <<inst, volume, pods, account, bindings, token, pass, counters>>

\* prunePerUserIdentity lists and deletes one kind after the other.
Prune ==
    /\ \/ /\ boot.step = "pruneAccount" /\ account' = Missing /\ BootMoves("pruneSecrets")
          /\ UNCHANGED <<bindings, token, kubeconfig>>
       \/ /\ boot.step = "pruneSecrets" /\ token' = Missing /\ kubeconfig' = Missing
          /\ BootMoves("pruneBindings")
          /\ UNCHANGED <<account, bindings>>
       \/ /\ boot.step = "pruneBindings" /\ bindings' = Missing /\ BootEnds
          /\ UNCHANGED <<account, token, kubeconfig>>
    /\ UNCHANGED <<inst, volume, pods, pass, counters>>

BootFails ==
    /\ boot # Resting /\ Mishap
    /\ BootEnds
    /\ UNCHANGED <<inst, volume, pods, identity, pass>>

BootStep == /\ \/ ListUsers \/ MintAccount \/ MintBindings \/ MintToken
               \/ ReadToken \/ MintKubeconfig \/ Prune
            /\ Queued({}, {})

-----------------------------------------------------------------------------
\* Kubernetes.

\* The token controller fills a token for the account of its name, and removes one
\* whose account is gone.
FillToken ==
    /\ token # Missing /\ token.for = Missing /\ account # Missing
    /\ token' = [token EXCEPT !.for = account]
    /\ UNCHANGED <<inst, volume, pods, account, bindings, kubeconfig, pass, boot, counters>>

DropToken ==
    /\ token # Missing /\ token.for # account
    /\ token.for # Missing \/ account = Missing
    /\ token' = Missing
    /\ UNCHANGED <<inst, volume, pods, account, bindings, kubeconfig, pass, boot, counters>>

Orphan(uid) == uid \notin Uids \cup {Missing, Foreign}

Mounted(n) == pods[n] # Missing /\ pods[n].owner = volume[n]

Collect(n) ==
    /\ \/ /\ pods[n] # Missing /\ ~pods[n].terminating /\ Orphan(pods[n].owner)
          /\ pods' = [pods EXCEPT ![n].terminating = TRUE] /\ UNCHANGED volume
       \/ /\ Orphan(volume[n]) /\ ~Mounted(n)
          /\ volume' = [volume EXCEPT ![n] = Missing] /\ UNCHANGED pods
    /\ UNCHANGED <<inst, identity, pass, boot, counters>>

PodStops(n) ==
    /\ pods[n] # Missing /\ pods[n].terminating
    /\ pods' = [pods EXCEPT ![n] = Missing]
    /\ UNCHANGED <<inst, volume, identity, pass, boot, counters>>

PodStarts(n) ==
    /\ pods[n] # Missing /\ pods[n].health = "starting"
    /\ pods' = [pods EXCEPT ![n].health = "ready"]
    /\ UNCHANGED <<inst, volume, identity, pass, boot, counters>>

PodFails(n) ==
    /\ pods[n] # Missing /\ pods[n].health # "failed" /\ Mishap
    /\ pods' = [pods EXCEPT ![n].health = "failed", ![n].failed = TRUE]
    /\ UNCHANGED <<inst, volume, identity, pass, boot>>

PodRecovers(n) ==
    /\ pods[n] # Missing /\ pods[n].health = "failed"
    /\ pods' = [pods EXCEPT ![n].health = "ready"]
    /\ UNCHANGED <<inst, volume, identity, pass, boot, counters>>

\* Somebody makes a pod under this name.
ForeignPod(n) ==
    /\ pods[n] = Missing /\ Mishap
    /\ pods' = [pods EXCEPT ![n] = NewPod(Foreign, Missing)]
    /\ UNCHANGED <<inst, volume, identity, pass, boot>>

\* Somebody rewrites the bindings.
EditBindings ==
    /\ bindings = "whole" /\ Mishap
    /\ bindings' = "altered"
    /\ UNCHANGED <<inst, volume, pods, account, token, kubeconfig, pass, boot>>

ClusterStep == /\ \/ FillToken \/ DropToken
                  \/ \E n \in Instances : Collect(n) \/ PodStops(n) \/ PodStarts(n)
               /\ Queued({}, {})

-----------------------------------------------------------------------------
InstanceInit ==
    /\ inst = [n \in Instances |-> Missing]
    /\ volume = [n \in Instances |-> Missing] /\ pods = [n \in Instances |-> Missing]
    /\ account = Missing /\ bindings = Missing /\ token = Missing /\ kubeconfig = Missing
    /\ pass = Resting /\ queue = {} /\ boot = Resting
    /\ created = 0 /\ mishaps = 0

\* What others do, and what fails.
OtherStep ==
    /\ \/ \E n \in Instances : CreateInstance(n) \/ DeleteInstance(n)
       \/ BootFails \/ EditBindings
       \/ \E n \in Instances : PodFails(n) \/ PodRecovers(n) \/ ForeignPod(n)
    /\ Queued({}, {})

InstanceNext == PassStep \/ PassFails \/ BootStep \/ ClusterStep \/ OtherStep

InstanceSpec == InstanceInit /\ [][InstanceNext]_instanceVars

\* Each instance in the queue has its turn, a pass goes on, and the
\* bootstrap runs every five minutes.
InstanceFairness ==
    /\ \A n \in Instances : SF_instanceVars(Turn(n))
    /\ WF_instanceVars(pass # Resting /\ PassStep)
    /\ WF_instanceVars(BootStep)
    /\ WF_instanceVars(ClusterStep)

-----------------------------------------------------------------------------
\* A pod is only ended by the controller that it belongs to, when it had failed or
\* runs under a kubeconfig that is no longer the current one; a pod that has taken
\* the name of the one that was looked at is spared
\* (agentinstance_controller.go:435-455).
PodsSpared ==
    [][\A n \in Instances :
         pods[n] # Missing /\ ~pods[n].terminating /\ pass # Resting /\ pass' = Resting
         /\ pods'[n] # Missing /\ pods'[n].terminating =>
           /\ pods[n].owner = pass.uid
           /\ pods[n].failed \/ kubeconfig = Missing \/ pods[n].rev # kubeconfig.rev]_instanceVars

\* The pod of an instance runs on the volume of that instance, never on what an earlier
\* instance of the same name has left, and the volume is not taken from under it
\* (agentinstance_controller.go:540-543).
OwnData ==
    \A n \in Instances :
      pods[n] # Missing /\ pods[n].owner # Foreign => volume[n] = pods[n].owner

\* Once users and failures have stopped: a user with an instance has the whole
\* identity and each instance a pod that runs under it and says so; a user with none
\* has nothing left, whatever the two controllers did to each other's work.
Whole ==
    /\ account # Missing /\ bindings = "whole"
    /\ token # Missing /\ token.for = account
    /\ kubeconfig # Missing /\ kubeconfig.token = token.rev

Serves(n) ==
    /\ volume[n] = inst[n].uid /\ pods[n].owner = inst[n].uid
    /\ pods[n].rev = kubeconfig.rev /\ pods[n].health = "ready" /\ ~pods[n].terminating
    /\ inst[n].phase = "Ready"

Taken(n) == pods[n] # Missing /\ pods[n].owner = Foreign

Settled ==
    IF Alive = {}
    THEN /\ account = Missing /\ bindings = Missing /\ token = Missing /\ kubeconfig = Missing
         /\ \A n \in Instances : volume[n] = Missing /\ (pods[n] = Missing \/ Taken(n))
    ELSE Whole /\ \A n \in Alive : Taken(n) \/ (pods[n] # Missing /\ Serves(n))

InstancesSettle == <>[]Settled
=============================================================================
