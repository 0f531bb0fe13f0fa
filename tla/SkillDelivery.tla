--------------------------- MODULE SkillDelivery ---------------------------
(***************************************************************************)
(* Skills, from the publish request to the directory in the pod.           *)
(*                                                                         *)
(* A publish (a user's upload, or the seed of the presets at every start   *)
(* of the API) picks a version of the repository, writes the tar there,    *)
(* and only then reads and updates the Skill resource that names version   *)
(* and digest.  A user switches skills on and off for the own instance.    *)
(* The supervisor syncs the workspace with what is resolved: it removes    *)
(* the directories that it had rendered and that are not wanted, and       *)
(* installs the others by two renames.  The agent shares the workspace.    *)
(*                                                                         *)
(* A tar is its content, and so is its digest.  Temporary directories are  *)
(* left out: nothing reads one.  MaxUpsets bounds, together, failed calls, *)
(* restarts, the user's switches and the agent's doings.                   *)
(***************************************************************************)
EXTENDS Naturals, Sequences, FiniteSetsExt

CONSTANTS Skills, Contents,
          Publishes,    \* publish requests
          Seed,         \* the one of them that is the seed at the API's start
          Shipped,      \* the preset skill
          Preset,       \* and its content
          Own,          \* content that the agent wrote
          Nothing,
          MaxUpsets

ASSUME SkillAssumption ==
    /\ Seed \in Publishes
    /\ Shipped \in Skills
    /\ Preset \in Contents
    /\ Own \notin Contents
    /\ Nothing \notin Contents \cup {Own}
    /\ MaxUpsets \in Nat

VARIABLES stored,       \* the repository: the tars of a skill, by version
          skillCR,      \* the Skill resource: version, digest and resource version
          publish,      \* the publish requests
          enabled,      \* spec.enabledSkills of the instance
          dirs,         \* workspace/skills/<name>
          backups,      \* workspace/skills/<name>.backup
          expected,     \* expectations, of this supervisor process
          sync,         \* the sync that is under way
          upsets

repoVars == <<stored, skillCR, publish>>
diskVars == <<dirs, backups, expected, sync>>
skillVars == <<repoVars, enabled, diskVars, upsets>>

Upset == upsets < MaxUpsets /\ upsets' = upsets + 1

-----------------------------------------------------------------------------
\* Publishing.

Waiting == [step |-> "idle"]
Over == [step |-> "done"]

\* The seed is tried again until it succeeds; a user's request just fails.
FailsUnnoticed(p) ==
    IF publish[p].step = "write" THEN [publish[p] EXCEPT !.step = "get"]
    ELSE IF p = Seed THEN Waiting ELSE Over
Failed(p) == IF p = Seed THEN Waiting ELSE Over

PublishBecomes(p, value) == publish' = [publish EXCEPT ![p] = value]
PublishMoves(p, step) == publish' = [publish EXCEPT ![p].step = step]

\* ResolveVersion: the first version that holds this content, or the next one.
VersionFor(s, c) ==
    LET same == {v \in DOMAIN stored[s] : stored[s][v] = c}
    IN IF same = {} THEN Len(stored[s]) + 1 ELSE Min(same)

ResolveVersion(p) ==
    /\ publish[p] = Waiting
    /\ \E s \in Skills, c \in Contents :
         /\ p = Seed => s = Shipped /\ c = Preset
         /\ PublishBecomes(p, [step |-> IF VersionFor(s, c) \in DOMAIN stored[s] THEN "get"
                                        ELSE "write",
                               skill |-> s, content |-> c, version |-> VersionFor(s, c),
                               read |-> 0])
    /\ UNCHANGED <<stored, skillCR, enabled, diskVars, upsets>>

\* WriteBytes renames over whatever the version holds by now.
Placed(tars, v, c) == IF v \in DOMAIN tars THEN [tars EXCEPT ![v] = c] ELSE Append(tars, c)

WriteBytes(p) ==
    /\ publish[p].step = "write"
    /\ LET b == publish[p]
       IN stored' = [stored EXCEPT ![b.skill] = Placed(@, b.version, b.content)]
    /\ PublishMoves(p, "get")
    /\ UNCHANGED <<skillCR, enabled, diskVars, upsets>>

Revision(s) == IF skillCR[s] = Nothing THEN 0 ELSE skillCR[s].resource

GetSkill(p) ==
    /\ publish[p].step = "get"
    /\ publish' = [publish EXCEPT ![p].step = "put", ![p].read = Revision(publish[p].skill)]
    /\ UNCHANGED <<stored, skillCR, enabled, diskVars, upsets>>

\* Update or Create, refused when the resource is no longer the one that was read.
Upsert(p) ==
    LET b == publish[p]
    IN skillCR' = [skillCR EXCEPT ![b.skill] =
                      [version |-> b.version, sha |-> b.content, resource |-> b.read + 1]]

PutSkill(p) ==
    /\ publish[p].step = "put"
    /\ IF publish[p].read = Revision(publish[p].skill)
       THEN Upsert(p) /\ PublishBecomes(p, Over)
       ELSE UNCHANGED skillCR /\ PublishBecomes(p, Failed(p))
    /\ UNCHANGED <<stored, enabled, diskVars, upsets>>

PublishFails(p) ==
    /\ publish[p].step \in {"write", "get", "put"} /\ Upset
    /\ \/ UNCHANGED skillCR
       \/ publish[p].step = "put" /\ publish[p].read = Revision(publish[p].skill) /\ Upsert(p)
    /\ PublishBecomes(p, Failed(p))
    /\ UNCHANGED <<stored, enabled, diskVars>>

\* The API restarts: requests are gone, the presets are seeded again.
ApiRestarts ==
    /\ Upset
    /\ publish' = [p \in Publishes |-> IF p = Seed THEN Waiting
                                       ELSE IF publish[p] = Waiting THEN Waiting ELSE Over]
    /\ UNCHANGED <<stored, skillCR, enabled, diskVars>>

-----------------------------------------------------------------------------
\* The user's switches.  The instance's Update is refused when another one came
\* between, so read and write are one step.  An empty list enables every skill.

Published == {s \in Skills : skillCR[s] # Nothing}

InstallSkill(s) ==
    /\ s \in Published /\ Upset
    /\ enabled' = IF enabled = {} THEN {} ELSE enabled \cup {s}
    /\ UNCHANGED <<repoVars, diskVars>>

UninstallSkill(s) ==
    /\ s \in Published /\ Upset
    /\ enabled' = (IF enabled = {} THEN Published ELSE enabled) \ {s}
    /\ UNCHANGED <<repoVars, diskVars>>

\* The skills of the resolved config: their version and digest.
Resolved ==
    [s \in Skills |->
        IF s \in Published /\ (enabled = {} \/ s \in enabled)
        THEN [version |-> skillCR[s].version, sha |-> skillCR[s].sha]
        ELSE Nothing]

-----------------------------------------------------------------------------
\* syncSkills.

AtRest == [step |-> "rest"]
Marked(dir) == dir # Nothing /\ dir.marked

\* A poll that succeeded; only directories with the marker are removed.  One that
\* cannot be removed ends the sync.
Pruned(kept, places) ==
    [s \in Skills |-> IF Marked(places[s]) /\ s \notin kept THEN Nothing ELSE places[s]]

BeginSync ==
    /\ sync = AtRest
    /\ LET wanted == {s \in Skills : Resolved[s] # Nothing}
       IN \/ /\ dirs' = Pruned(wanted, dirs) /\ backups' = Pruned({}, backups)
             /\ sync' = [step |-> "skills", want |-> Resolved, todo |-> wanted,
                         skill |-> Nothing, staged |-> Nothing]
             /\ UNCHANGED upsets
          \/ /\ Upset
             /\ \E left, leftBackups \in SUBSET Skills :
                  dirs' = Pruned(wanted \cup left, dirs) /\ backups' = Pruned(leftBackups, backups)
             /\ UNCHANGED sync
    /\ UNCHANGED <<repoVars, enabled, expected>>

VerifiedContent(s) ==
    /\ expected[s] # Nothing
    /\ expected[s].identity = sync.want[s]
    /\ dirs[s] # Nothing
    /\ dirs[s].content = expected[s].tree

Verified(s) ==
    /\ expected[s] # Nothing
    /\ expected[s].identity = sync.want[s]
    /\ dirs[s] # Nothing
    /\ dirs[s].content = expected[s].tree
    /\ dirs[s].marked

\* The tar that the API serves is that of the resource as it is now.
ServedTar(s) == stored[s][skillCR[s].version]
Unchecked(s) == skillCR[s] # Nothing
Genuine(s) == ServedTar(s) = sync.want[s].sha

Skip(s) ==
    /\ s \in sync.todo /\ Verified(s)
    /\ sync' = [sync EXCEPT !.todo = @ \ {s}]
    /\ UNCHANGED <<dirs, backups, expected, upsets>>

\* Fetch, check the digest, stage.  The first skill that fails ends the sync.
Stage(s) ==
    /\ s \in sync.todo /\ ~Verified(s)
    /\ \/ /\ Genuine(s)
          /\ sync' = [sync EXCEPT !.step = "aside", !.skill = s, !.staged = ServedTar(s)]
          /\ UNCHANGED upsets
       \/ ~Genuine(s) /\ sync' = AtRest /\ UNCHANGED upsets
       \/ Upset /\ sync' = AtRest
    /\ UNCHANGED <<dirs, backups, expected>>

SyncOne ==
    /\ sync.step = "skills"
    /\ \E s \in Skills : Skip(s) \/ Stage(s)
    /\ UNCHANGED <<repoVars, enabled>>

EndSync ==
    /\ sync.step = "skills" /\ sync.todo = {}
    /\ sync' = AtRest
    /\ UNCHANGED <<repoVars, enabled, dirs, backups, expected, upsets>>

\* What is left of an earlier backup has been cleared when the rename fails.
MoveAside ==
    /\ sync.step = "aside"
    /\ \/ /\ backups' = [backups EXCEPT ![sync.skill] = dirs[sync.skill]]
          /\ dirs' = [dirs EXCEPT ![sync.skill] = Nothing]
          /\ sync' = [sync EXCEPT !.step = "in"]
          /\ UNCHANGED upsets
       \/ /\ dirs[sync.skill] # Nothing /\ Upset
          /\ backups' = [backups EXCEPT ![sync.skill] = Nothing]
          /\ sync' = AtRest
          /\ UNCHANGED dirs
    /\ UNCHANGED <<repoVars, enabled, expected>>

\* A rename onto a directory that the agent made meanwhile fails, and so does the
\* restore; one that fails for another reason is followed by the restore.
MoveIn ==
    /\ sync.step = "in"
    /\ \/ /\ dirs[sync.skill] = Nothing
          /\ dirs' = [dirs EXCEPT ![sync.skill] = [content |-> sync.staged, marked |-> TRUE]]
          /\ sync' = [sync EXCEPT !.step = "drop"]
          /\ UNCHANGED <<backups, upsets>>
       \/ /\ dirs[sync.skill] # Nothing
          /\ sync' = AtRest
          /\ UNCHANGED <<dirs, backups, upsets>>
       \/ /\ dirs[sync.skill] = Nothing /\ Upset
          /\ dirs' = [dirs EXCEPT ![sync.skill] = backups[sync.skill]]
          /\ backups' = [backups EXCEPT ![sync.skill] = Nothing]
          /\ sync' = AtRest
    /\ UNCHANGED <<repoVars, enabled, expected>>

DropBackup ==
    /\ sync.step = "drop"
    /\ \/ /\ backups' = [backups EXCEPT ![sync.skill] = Nothing]
          /\ expected' = [expected EXCEPT ![sync.skill] =
                             [identity |-> sync.want[sync.skill], tree |-> sync.staged]]
          /\ sync' = [sync EXCEPT !.step = "skills", !.todo = @ \ {sync.skill}]
          /\ UNCHANGED upsets
       \/ Upset /\ sync' = AtRest /\ UNCHANGED <<backups, expected>>
    /\ UNCHANGED <<repoVars, enabled, dirs>>

SyncStep == BeginSync \/ SyncOne \/ EndSync \/ MoveAside \/ MoveIn \/ DropBackup

-----------------------------------------------------------------------------
\* The supervisor restarts, anywhere in a sync: its expectations are gone, the
\* workspace stays.
SupervisorRestarts ==
    /\ Upset
    /\ expected' = [s \in Skills |-> Nothing]
    /\ sync' = AtRest
    /\ UNCHANGED <<repoVars, enabled, dirs, backups>>

\* The agent edits, removes or makes a directory, or takes a marker away.
AgentActs(s) ==
    /\ Upset
    /\ LET made == {Nothing} \cup [content : {Own}, marked : BOOLEAN]
           bared == IF dirs[s] = Nothing THEN {} ELSE {[dirs[s] EXCEPT !.marked = FALSE]}
       IN \/ dirs' \in {[dirs EXCEPT ![s] = d] : d \in made \cup bared} /\ UNCHANGED backups
          \/ backups' \in {[backups EXCEPT ![s] = d] : d \in made} /\ UNCHANGED dirs
    /\ UNCHANGED <<repoVars, enabled, expected, sync>>

-----------------------------------------------------------------------------
SkillInit ==
    /\ stored = [s \in Skills |-> <<>>]
    /\ skillCR = [s \in Skills |-> Nothing]
    /\ publish = [p \in Publishes |-> Waiting]
    /\ enabled = {}
    /\ dirs = [s \in Skills |-> Nothing]
    /\ backups = [s \in Skills |-> Nothing]
    /\ expected = [s \in Skills |-> Nothing]
    /\ sync = AtRest
    /\ upsets = 0

PublishStep(p) == ResolveVersion(p) \/ WriteBytes(p) \/ GetSkill(p) \/ PutSkill(p)

SkillNext ==
    \/ \E p \in Publishes : PublishStep(p) \/ PublishFails(p)
    \/ ApiRestarts
    \/ \E s \in Skills : InstallSkill(s) \/ UninstallSkill(s) \/ AgentActs(s)
    \/ SyncStep
    \/ SupervisorRestarts

SkillSpec == SkillInit /\ [][SkillNext]_skillVars

\* The supervisor polls for ever, a request runs to its end.
SkillFairness ==
    /\ WF_skillVars(SyncStep)
    /\ \A p \in Publishes : WF_skillVars(WriteBytes(p) \/ GetSkill(p) \/ PutSkill(p))

-----------------------------------------------------------------------------
\* What the supervisor vouches for, and verifies the directory against, is content
\* with the digest of the resource that it was resolved from, although the tar of a
\* version may be replaced and the tar is that of a later resource
\* (supervisor.go:796-803).
VouchedContent ==
    \A s \in Skills : expected[s] # Nothing => expected[s].tree = expected[s].identity.sha

\* What a Skill resource names can be fetched: whatever publish fails or is cut off by a
\* restart at whatever point, and whoever has published the same skill meanwhile, the
\* resource never names a version that the repository does not have
\* (handlers_platform.go:533-534, 446-450).
Fetchable ==
    \A s \in Skills : skillCR[s] # Nothing => skillCR[s].version \in DOMAIN stored[s]

\* Once requests, users and failures have stopped, the workspace holds what is
\* resolved: drift, a lost marker, a lost directory and a crash between the two
\* renames are repaired, and what was switched off is gone.  This needs that every
\* resolved digest is that of the tar in the repository.
Servable == \A s \in Skills : Resolved[s] # Nothing => ServedTar(s) = Resolved[s].sha

Rendered ==
    \A s \in Skills :
        IF Resolved[s] = Nothing THEN ~Marked(dirs[s]) /\ ~Marked(backups[s])
        ELSE dirs[s] = [content |-> Resolved[s].sha, marked |-> TRUE]

SkillsFollow == <>[](Servable => Rendered)
=============================================================================
