----------------------------- MODULE ExecPolicy -----------------------------
(***************************************************************************)
(* How the policy that asks before a command runs gets from its two stores *)
(* to the gateway of one user, and the connection that it travels on.      *)
(*                                                                         *)
(* The policy is the mode of the instance and, under Allowlist, the rules  *)
(* that the user approved for good (grants, in a ConfigMap).  A turn       *)
(* resolves it, takes the user's connection (which it may have to dial,    *)
(* under a lock, while the pod's supervisor approves the device), writes   *)
(* the policy to the gateway unless the process remembers that the same    *)
(* revision was applied, and starts.                                       *)
(*                                                                         *)
(* A revision is a fingerprint of the policy, and is the policy itself     *)
(* here; the gateway's hash is its list.  Builtin, template and hand-      *)
(* written rules are left out: they are never learned nor revoked.         *)
(***************************************************************************)
EXTENDS Naturals, FiniteSets, Functions

CONSTANTS Turns,
          Rules,            \* what can be granted
          Times,            \* readings of the clock; it may go back, or stand
          Edits,            \* requests that change the policy
          MaxGrants,        \* grants.MaxGrants
          Attempts,         \* applyPolicyAttempts
          Retries,          \* rounds of retry.RetryOnConflict
          Absent,
          MaxBreaks         \* failed calls, lost connections, edits of the mode

Modes == {"None", "Allowlist", "AlwaysAsk"}

ASSUME ExecAssumption ==
    /\ MaxGrants \in Nat \ {0} /\ Attempts \in Nat \ {0} /\ Retries \in Nat \ {0}
    /\ MaxBreaks \in Nat /\ Times \subseteq Nat
    /\ Absent \notin Turns /\ Absent \notin [mode : Modes, allow : SUBSET Rules]

VARIABLES mode,         \* the effective approvalPolicy
          grants,       \* the ConfigMap's records: when each rule was granted
          grantsRev,    \* and its resource version
          edit,         \* the requests
          kept,         \* grants that an Add has reported as stored
          turn,         \* the turns: where, and with what policy and connection
          revPol,       \* the revision that was last applied, as this process knows
          lock,         \* who connects
          entry,        \* the pool's client
          live,         \* the clients whose connection is up
          device,       \* the platform's device at the gateway
          enforced,     \* the gateway's list for agent main
          applied,      \* every policy that it ever was written for
          breaks

storeVars == <<mode, grants, grantsRev, edit, kept>>
poolVars == <<lock, entry, live, device>>
pushVars == <<revPol, enforced, applied>>
execVars == <<storeVars, turn, poolVars, pushVars, breaks>>

Break == breaks < MaxBreaks /\ breaks' = breaks + 1

-----------------------------------------------------------------------------
\* The grants store.  Add and Remove read the ConfigMap, and write it back unless it
\* has changed since; then they start again.

NoGrants == [r \in {} |-> 0]

EditBecomes(e, value) == edit' = [edit EXCEPT ![e] = value]
EditAt(e, step) == edit[e].step = step

\* allowlistAlways records nothing unless the mode is Allowlist.
BeginAdd(e, rule, now) ==
    /\ EditAt(e, "idle") /\ mode = "Allowlist"
    /\ EditBecomes(e, [step |-> "read", op |-> "add", rule |-> rule, at |-> now,
                  left |-> Retries, seen |-> 0, data |-> NoGrants])
    /\ UNCHANGED <<mode, grants, grantsRev, kept, breaks>>

\* PUT /api/agent/approval saves the mode first, and revokes afterwards.
PutApproval(e, rule, m) ==
    /\ EditAt(e, "idle") /\ Break
    /\ mode' \in {mode, m}
    /\ EditBecomes(e, IF mode' = m /\ rule # Absent
                 THEN [step |-> "read", op |-> "remove", rule |-> rule, at |-> 0,
                       left |-> Retries, seen |-> 0, data |-> NoGrants]
                 ELSE [step |-> "done"])
    /\ UNCHANGED <<grants, grantsRev, kept>>

\* Nothing is written when the rule is there already, or gone already.
Present(rule) == rule \in DOMAIN grants

ReadGrants(e) ==
    /\ EditAt(e, "read")
    /\ LET moot == Present(edit[e].rule) = (edit[e].op = "add")
       IN /\ EditBecomes(e, IF moot THEN [step |-> "done"]
                       ELSE [edit[e] EXCEPT !.step = "write", !.seen = grantsRev,
                                            !.data = grants])
          /\ kept' = IF moot /\ edit[e].op = "add" THEN kept \cup {edit[e].rule} ELSE kept
    /\ UNCHANGED <<mode, grants, grantsRev, breaks>>

\* evict drops the oldest beyond the cap; one of them, when several are.
Oldest(list) == {r \in DOMAIN list : \A s \in DOMAIN list : list[r] <= list[s]}
Without(list, rule) == Restrict(list, DOMAIN list \ {rule})
Evicted(list) == IF Cardinality(DOMAIN list) <= MaxGrants THEN {list}
                 ELSE {Without(list, r) : r \in Oldest(list)}

With(list, rule, now) == [r \in DOMAIN list \cup {rule} |-> IF r = rule THEN now ELSE list[r]]

\* What the write may make of the list that was read.
Changed(e) == IF edit[e].op = "add" THEN Evicted(With(edit[e].data, edit[e].rule, edit[e].at))
              ELSE {Without(edit[e].data, edit[e].rule)}

Unconditional(e) == EditAt(e, "write")
Unchanged(e) == edit[e].seen = grantsRev

\* What the write takes out of the list that was read is no longer to be kept; what it
\* adds is, when its reply arrives.
CommitGrants(e, list, reported) ==
    /\ grants' = list /\ grantsRev' = grantsRev + 1
    /\ kept' = (kept \ (DOMAIN edit[e].data \ DOMAIN list)) \cup reported

\* An Add that began before the grants it would evict, and was held up since, is itself
\* the oldest: it fails, and writes nothing.
Displaced(e, list) == edit[e].op = "add" /\ edit[e].rule \notin DOMAIN list

WriteGrants(e) ==
    /\ EditAt(e, "write")
    /\ \E list \in Changed(e) :
       \/ /\ Displaced(e, list)
          /\ EditBecomes(e, [step |-> "done"])
          /\ UNCHANGED <<grants, grantsRev, kept, breaks>>
       \/ /\ ~Displaced(e, list) /\ Unchanged(e)
          /\ CommitGrants(e, list, IF edit[e].op = "add" THEN {edit[e].rule} ELSE {})
          /\ EditBecomes(e, [step |-> "done"])
          /\ UNCHANGED breaks
       \/ /\ ~Displaced(e, list) /\ ~Unchanged(e)
          /\ EditBecomes(e, IF edit[e].left = 1 THEN [step |-> "done"]
                       ELSE [edit[e] EXCEPT !.step = "read", !.left = @ - 1])
          /\ UNCHANGED <<grants, grantsRev, kept, breaks>>
       \/ /\ ~Displaced(e, list) /\ Break
          /\ EditBecomes(e, [step |-> "done"])
          /\ (Unchanged(e) /\ CommitGrants(e, list, {}))
             \/ UNCHANGED <<grants, grantsRev, kept>>
    /\ UNCHANGED mode

EditStep(e) ==
    /\ \/ \E rule \in Rules, now \in Times : BeginAdd(e, rule, now)
       \/ \E rule \in Rules \cup {Absent}, m \in Modes : PutApproval(e, rule, m)
       \/ ReadGrants(e)
       \/ WriteGrants(e)
    /\ UNCHANGED <<turn, poolVars, pushVars>>

-----------------------------------------------------------------------------
\* A turn.  Resolved policies are compared as a whole.

\* Effective, and what applyPolicyOnce writes for it: AlwaysAsk clears the list.
PolicyUnder(m) == [mode |-> m, allow |-> IF m = "AlwaysAsk" THEN {} ELSE DOMAIN grants]
Policy == PolicyUnder(mode)

TurnAt(t, step) == turn[t].step = step
Moves(t, step) == turn' = [turn EXCEPT ![t].step = step]
Ended == [step |-> "idle"]
Ends(t) == turn' = [turn EXCEPT ![t] = Ended]

\* The mode is read first and the grants afterwards.  PreTurn fails closed on a policy
\* that it cannot resolve; None gates nothing.
Resolve(t) ==
    /\ TurnAt(t, "idle")
    /\ mode # "None"
    /\ turn' = [turn EXCEPT ![t] = [step |-> "resolve", want |-> [mode |-> mode, allow |-> {}],
                                    client |-> 0, left |-> Attempts, hash |-> Absent]]
    /\ UNCHANGED <<storeVars, poolVars, pushVars, breaks>>

ListGrants(t) ==
    /\ TurnAt(t, "resolve")
    /\ \/ /\ turn' = [turn EXCEPT ![t].step = "conn", ![t].want = PolicyUnder(turn[t].want.mode)]
          /\ UNCHANGED breaks
       \/ Break /\ Ends(t)
    /\ UNCHANGED <<storeVars, poolVars, pushVars>>

Up == entry \in live

\* conn: an established connection is taken as it is.
Takes(t) == turn' = [turn EXCEPT ![t].step = "check", ![t].client = entry]

Reuse(t) ==
    /\ TurnAt(t, "conn") /\ Up
    /\ Takes(t)
    /\ UNCHANGED <<storeVars, poolVars, pushVars, breaks>>

Lock(t) ==
    /\ TurnAt(t, "conn") /\ ~Up
    /\ Moves(t, "wait")
    /\ UNCHANGED <<storeVars, poolVars, pushVars, breaks>>

\* Under the lock the first caller may have connected already; else a new client is made
\* and registered before it connects.
NoSecondLook == FALSE
Dialled == Up

Enter(t) ==
    /\ TurnAt(t, "wait") /\ lock = Absent
    /\ IF Dialled
       THEN Takes(t) /\ UNCHANGED <<lock, entry>>
       ELSE /\ lock' = t /\ entry' = entry + 1
            /\ turn' = [turn EXCEPT ![t].step = "dial", ![t].client = entry + 1]
    /\ UNCHANGED <<storeVars, live, device, pushVars, breaks>>

\* The caller's context ends before the lock is free.
LeaveQueue(t) ==
    /\ TurnAt(t, "wait") /\ lock # Absent /\ Break
    /\ Ends(t)
    /\ UNCHANGED <<storeVars, poolVars, pushVars>>

Connect(t) ==
    /\ TurnAt(t, "dial") /\ device = "paired"
    /\ live' = live \cup {turn[t].client} /\ lock' = Absent
    /\ Moves(t, "check")
    /\ UNCHANGED <<storeVars, entry, device, pushVars, breaks>>

\* NOT_PAIRED: the rejected connect leaves a pending request, and is tried again.
NotPaired(t) ==
    /\ TurnAt(t, "dial") /\ device = "unknown"
    /\ device' = "pending"
    /\ UNCHANGED <<storeVars, turn, lock, entry, live, pushVars, breaks>>

\* Another error, the end of the pairing budget or of the caller's context.
DialFailsLocked(t) ==
    /\ TurnAt(t, "dial") /\ Break
    /\ Ends(t)
    /\ UNCHANGED <<storeVars, poolVars, pushVars>>

DialFails(t) ==
    /\ TurnAt(t, "dial") /\ Break
    /\ lock' = Absent /\ Ends(t)
    /\ UNCHANGED <<storeVars, entry, live, device, pushVars>>

\* The policy is written once per revision.
Check(t) ==
    /\ TurnAt(t, "check")
    /\ Moves(t, IF revPol = turn[t].want THEN "run" ELSE "get")
    /\ UNCHANGED <<storeVars, poolVars, pushVars, breaks>>

Usable(t) == turn[t].client \in live

\* A round that fails is tried again, a bounded number of times.
RoundFailsOpen(t) ==
    turn' = [turn EXCEPT ![t] = IF turn[t].left = 1 THEN [@ EXCEPT !.step = "run"]
                                ELSE [@ EXCEPT !.step = "get", !.left = turn[t].left - 1]]

RoundFails(t) ==
    turn' = [turn EXCEPT ![t] = IF turn[t].left = 1 THEN Ended
                                ELSE [@ EXCEPT !.step = "get", !.left = turn[t].left - 1]]

GetPolicy(t) ==
    /\ TurnAt(t, "get")
    /\ \/ /\ Usable(t)
          /\ turn' = [turn EXCEPT ![t].step = "set", ![t].hash = enforced]
          /\ UNCHANGED breaks
       \/ ~Usable(t) /\ RoundFails(t) /\ UNCHANGED breaks
    /\ UNCHANGED <<storeVars, poolVars, pushVars>>

Enforce(t) == enforced' = turn[t].want.allow /\ applied' = applied \cup {turn[t].want}

\* The set is refused when the file is no longer the one that was read; and its reply
\* may be lost.
SetPolicy(t) ==
    /\ TurnAt(t, "set")
    /\ \/ /\ Usable(t) /\ turn[t].hash = enforced
          /\ Enforce(t) /\ Moves(t, "mark")
          /\ UNCHANGED breaks
       \/ /\ ~(Usable(t) /\ turn[t].hash = enforced)
          /\ RoundFails(t) /\ UNCHANGED <<enforced, applied, breaks>>
       \/ /\ Break /\ RoundFails(t)
          /\ \/ Usable(t) /\ turn[t].hash = enforced /\ Enforce(t)
             \/ UNCHANGED <<enforced, applied>>
    /\ UNCHANGED <<storeVars, poolVars, revPol>>

Mark(t) ==
    /\ TurnAt(t, "mark")
    /\ revPol' = turn[t].want
    /\ Moves(t, "run")
    /\ UNCHANGED <<storeVars, poolVars, enforced, applied, breaks>>

EndTurn(t) ==
    /\ TurnAt(t, "run")
    /\ Ends(t)
    /\ UNCHANGED <<storeVars, poolVars, pushVars, breaks>>

TurnStep(t) == \/ ListGrants(t) \/ Reuse(t) \/ Lock(t) \/ Enter(t) \/ Connect(t) \/ NotPaired(t)
               \/ Check(t) \/ GetPolicy(t) \/ SetPolicy(t) \/ Mark(t)

-----------------------------------------------------------------------------
\* The rest of the world.

\* The supervisor approves the device on its next poll.
Approve ==
    /\ device = "pending" /\ device' = "paired"
    /\ UNCHANGED <<storeVars, turn, lock, entry, live, pushVars, breaks>>

\* The confirm view probes the channel with a client of its own.
Probe ==
    /\ ~Up /\ device = "unknown" /\ device' = "pending"
    /\ UNCHANGED <<storeVars, turn, lock, entry, live, pushVars, breaks>>

LoseConnection(c) ==
    /\ Break
    /\ live' = live \ {c}
    /\ UNCHANGED <<storeVars, turn, lock, entry, device, pushVars>>

-----------------------------------------------------------------------------
ExecInit ==
    /\ mode = "Allowlist"
    /\ grants = NoGrants /\ grantsRev = 0 /\ kept = {}
    /\ edit = [e \in Edits |-> [step |-> "idle"]]
    /\ turn = [t \in Turns |-> Ended]
    /\ revPol = Absent
    /\ lock = Absent /\ entry = 0 /\ live = {}
    /\ device = "unknown"
    /\ enforced = Absent /\ applied = {}
    /\ breaks = 0

ExecNext ==
    \/ \E e \in Edits : EditStep(e)
    \/ \E t \in Turns : Resolve(t) \/ TurnStep(t) \/ EndTurn(t) \/ LeaveQueue(t) \/ DialFails(t)
    \/ Approve \/ Probe
    \/ \E c \in live : LoseConnection(c)

ExecSpec == ExecInit /\ [][ExecNext]_execVars

\* A turn that has begun goes on; waiting for the lock is served in some order.
ExecFairness ==
    /\ \A t \in Turns : WF_execVars(TurnStep(t)) /\ SF_execVars(Enter(t))
    /\ WF_execVars(Approve)

-----------------------------------------------------------------------------
\* Turns that start together share one client: two would each hand every event to
\* the server (gateway.go:229-231).
OneClient == \A c, d \in live : c = d

\* Only a policy that the gateway has accepted is remembered as applied, and none of
\* the turns runs on a policy that it never saw (approvals.go:571-574).
AppliedIsKnown ==
    /\ revPol # Absent => revPol \in applied
    /\ \A t \in Turns : TurnAt(t, "run") => turn[t].want \in applied

\* A grant that was reported as stored stays until it is revoked or evicted, whatever
\* other grants and revocations do meanwhile (grants.go:92-97).
GrantsKept == kept \subseteq DOMAIN grants /\ Cardinality(DOMAIN grants) <= MaxGrants

\* Requests that read, change and write back the whole list at the same time come to what
\* they would one at a time: each adds or takes out one rule, an Add of what is there
\* leaves it its place, and an eviction takes the oldest (grants.go:119-127, :149-156).
List == INSTANCE GrantList WITH stored <- grants
GrantsAtomic == List!Spec

\* A turn does not stay under way to the connection and the policy: again and again it
\* runs or has failed, so a dial that fails does not keep the lock and a policy that is
\* refused is not tried for ever (gateway.go:248-256, approvals.go:640-665).
TurnDecided == \A t \in Turns : []<>(TurnAt(t, "run") \/ TurnAt(t, "idle"))

\* The comment at approvals.go:630-632, "a removed entry really disappears": when every
\* turn runs or has ended, and the next one would not write the policy again, the
\* gateway's list has no rule that the policy has not.
RevokedIsGone ==
    (\A t \in Turns : TurnAt(t, "run") \/ TurnAt(t, "idle")) /\ revPol = Policy
        => enforced \subseteq Policy.allow
=============================================================================
