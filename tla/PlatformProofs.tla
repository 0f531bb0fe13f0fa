--------------------------- MODULE PlatformProofs ---------------------------
(***************************************************************************)
(* Proofs about SkillDelivery and AgentInstances, for any skills, contents *)
(* and publishes, and for any finite number of instances.                  *)
(***************************************************************************)
EXTENDS SkillDelivery, AgentInstances, Integers, FiniteSetTheorems,
        WellFoundedInduction, TLAPS

-----------------------------------------------------------------------------
(* Skills: what the supervisor vouches for.                                *)

\* A sync has its five fields; nothing is known of what it wants.
SyncShape ==
    \/ sync = AtRest
    \/ /\ sync = [step |-> sync.step, want |-> sync.want, todo |-> sync.todo,
                  skill |-> sync.skill, staged |-> sync.staged]
       /\ sync.step \in {"skills", "aside", "in", "drop"}

\* From the staging on, what is staged has the digest that the sync wants.
Checked ==
    sync.step \in {"aside", "in", "drop"} =>
      sync.skill \in Skills /\ sync.staged = sync.want[sync.skill].sha

SkillInv ==
    /\ SyncShape /\ Checked
    /\ DOMAIN expected = Skills /\ expected = [s \in Skills |-> expected[s]]
    /\ VouchedContent

LEMMA SkillInvInit == SkillInit => SkillInv
  BY DEF SkillInit, SkillInv, SyncShape, Checked, VouchedContent, AtRest

LEMMA Rests ==
  ASSUME SkillInv, sync' = AtRest, UNCHANGED expected PROVE SkillInv'
  BY DEF SkillInv, SyncShape, Checked, VouchedContent, AtRest

LEMMA SyncSteps ==
  ASSUME SkillInv, BeginSync \/ SyncOne \/ EndSync \/ MoveAside \/ MoveIn \/ DropBackup
  PROVE  SkillInv'
  <1> USE DEF AtRest
  <1>1. CASE BeginSync /\ sync' # AtRest
    <2> DEFINE v == [step |-> "skills", want |-> Resolved,
                     todo |-> {s \in Skills : Resolved[s] # Nothing}, skill |-> Nothing,
                     staged |-> Nothing]
    <2>1. sync' = v /\ UNCHANGED expected
      BY <1>1 DEF BeginSync, Upset
    <2>2. v = [step |-> v.step, want |-> v.want, todo |-> v.todo, skill |-> v.skill,
               staged |-> v.staged] /\ v.step = "skills"
      OBVIOUS
    <2> HIDE DEF v
    <2> QED BY <2>1, <2>2 DEF SkillInv, SyncShape, Checked, VouchedContent
  <1>10. CASE (BeginSync \/ MoveAside) /\ sync' = AtRest
    <2>1. UNCHANGED expected
      BY <1>10 DEF BeginSync, MoveAside
    <2> QED BY <1>10, <2>1, Rests
  <1>2. ASSUME sync.step \in {"skills", "aside", "in", "drop"}
        PROVE  sync = [step |-> sync.step, want |-> sync.want, todo |-> sync.todo,
                       skill |-> sync.skill, staged |-> sync.staged]
    BY <1>2 DEF SkillInv, SyncShape
  <1>3. CASE SyncOne
    <2>1. PICK s \in Skills : Skip(s) \/ Stage(s)
      BY <1>3 DEF SyncOne
    <2>2. sync.step = "skills"
      BY <1>3 DEF SyncOne
    <2>3. CASE Skip(s)
      <3>1. sync' = [step |-> "skills", want |-> sync.want, todo |-> sync.todo \ {s},
                     skill |-> sync.skill, staged |-> sync.staged]
        BY <1>2, <2>2, <2>3 DEF Skip
      <3> QED BY <2>3, <3>1 DEF Skip, SkillInv, SyncShape, Checked, VouchedContent
    <2>4. CASE Stage(s) /\ sync' # AtRest
      <3>1. Genuine(s) /\ UNCHANGED expected
        BY <2>4 DEF Stage
      <3>2. sync' = [sync EXCEPT !.step = "aside", !.skill = s, !.staged = ServedTar(s)]
        BY <2>4 DEF Stage
      <3>3. sync' = [step |-> "aside", want |-> sync.want, todo |-> sync.todo,
                     skill |-> s, staged |-> ServedTar(s)]
        BY <1>2, <2>2, <3>2
      <3> QED BY <3>1, <3>3 DEF Genuine, SkillInv, SyncShape, Checked, VouchedContent
    <2>5. CASE Stage(s) /\ sync' = AtRest
      BY <2>5, Rests DEF Stage
    <2> QED BY <2>1, <2>3, <2>4, <2>5
  <1>4. CASE EndSync
    BY <1>4, Rests DEF EndSync
  <1>5. CASE MoveAside /\ sync' # AtRest
    <2>1. sync' = [step |-> "in", want |-> sync.want, todo |-> sync.todo,
                   skill |-> sync.skill, staged |-> sync.staged]
      BY <1>2, <1>5 DEF MoveAside
    <2> QED BY <1>5, <2>1 DEF MoveAside, SkillInv, SyncShape, Checked, VouchedContent
  <1>6. CASE MoveIn /\ sync' # AtRest
    <2>1. sync' = [step |-> "drop", want |-> sync.want, todo |-> sync.todo,
                   skill |-> sync.skill, staged |-> sync.staged]
      BY <1>2, <1>6 DEF MoveIn
    <2> QED BY <1>6, <2>1 DEF MoveIn, SkillInv, SyncShape, Checked, VouchedContent
  <1>7. CASE MoveIn /\ sync' = AtRest
    BY <1>7, Rests DEF MoveIn
  <1>8. CASE DropBackup /\ sync' # AtRest
    <2> DEFINE word == [identity |-> sync.want[sync.skill], tree |-> sync.staged]
    <2>1. /\ sync.step = "drop"
          /\ expected' = [expected EXCEPT ![sync.skill] = word]
          /\ sync' = [sync EXCEPT !.step = "skills", !.todo = @ \ {sync.skill}]
      BY <1>8 DEF DropBackup
    <2>2. sync' = [step |-> "skills", want |-> sync.want, todo |-> sync.todo \ {sync.skill},
                   skill |-> sync.skill, staged |-> sync.staged]
      BY <1>2, <2>1
    <2>3. word.tree = word.identity.sha
      BY <2>1 DEF SkillInv, Checked
    <2> HIDE DEF word
    <2>4. DOMAIN expected' = Skills /\ expected' = [s \in Skills |-> expected'[s]]
      BY <2>1 DEF SkillInv
    <2>5. ASSUME NEW s \in Skills, expected'[s] # Nothing
          PROVE  expected'[s].tree = expected'[s].identity.sha
      BY <2>1, <2>3, <2>5 DEF SkillInv, VouchedContent
    <2> QED BY <2>2, <2>4, <2>5 DEF SkillInv, SyncShape, Checked, VouchedContent
  <1>9. CASE DropBackup /\ sync' = AtRest
    <2>1. UNCHANGED expected \/ sync' # AtRest
      <3>1. CASE sync' = [sync EXCEPT !.step = "skills", !.todo = @ \ {sync.skill}]
        BY <1>2, <1>9, <3>1 DEF DropBackup
      <3> QED BY <1>9, <3>1 DEF DropBackup
    <2> QED BY <1>9, <2>1, Rests
  <1> QED BY <1>1, <1>3, <1>4, <1>5, <1>6, <1>7, <1>8, <1>9, <1>10

LEMMA SkillInvStep == ASSUME SkillInv, [SkillNext]_skillVars PROVE SkillInv'
  <1>1. CASE UNCHANGED <<expected, sync>>
    BY <1>1 DEF SkillInv, SyncShape, Checked, VouchedContent
  <1>2. CASE \E p \in Publishes : PublishStep(p) \/ PublishFails(p)
    BY <1>1, <1>2 DEF PublishStep, PublishFails, ResolveVersion, WriteBytes, GetSkill,
       PutSkill, diskVars
  <1>3. CASE ApiRestarts \/ \E s \in Skills : InstallSkill(s) \/ UninstallSkill(s) \/ AgentActs(s)
    BY <1>1, <1>3 DEF ApiRestarts, InstallSkill, UninstallSkill, AgentActs, diskVars
  <1>4. CASE SyncStep
    BY <1>4, SyncSteps DEF SyncStep
  <1>5. CASE SupervisorRestarts
    BY <1>5 DEF SupervisorRestarts, SkillInv, SyncShape, Checked, VouchedContent, AtRest
  <1>6. CASE UNCHANGED skillVars
    BY <1>1, <1>6 DEF skillVars, diskVars
  <1> QED BY <1>2, <1>3, <1>4, <1>5, <1>6 DEF SkillNext

\* VouchedContent, for any skills and publishes: whatever tar a version has by now, the
\* supervisor vouches for the content of the digest that it resolved.
THEOREM VouchedContentCorrect == SkillSpec => []VouchedContent
  <1>1. SkillInit => SkillInv
    BY SkillInvInit
  <1>2. SkillInv /\ [SkillNext]_skillVars => SkillInv'
    BY SkillInvStep
  <1>3. SkillInv => VouchedContent
    BY DEF SkillInv
  <1> QED BY <1>1, <1>2, <1>3, PTL DEF SkillSpec

-----------------------------------------------------------------------------
(* Skills: what a resource names can be fetched.                           *)

\* The smallest of a set of numbers is one of them.
LEMMA MinIsIn == ASSUME NEW T \in SUBSET Nat, T # {} PROVE Min(T) \in T
  <1> DEFINE R == {ss \in Nat \X Nat : ss[1] < ss[2]}
  <1>1. IsWellFoundedOn(R, Nat)
    BY NatLessThanWellFounded DEF OpToRel
  <1>2. PICK x \in T : \A y \in T : <<y, x>> \notin R
    BY <1>1, WFMin
  <1>3. ASSUME NEW y \in T PROVE x =< y
    <2>1. x \in Nat /\ y \in Nat
      OBVIOUS
    <2>2. ~(y < x)
      <3>1. SUFFICES ASSUME y < x PROVE <<y, x>> \in R
        BY <1>2
      <3>2. <<y, x>> \in Nat \X Nat /\ <<y, x>>[1] = y /\ <<y, x>>[2] = x
        BY <2>1
      <3> QED BY <3>1, <3>2, Zenon
    <2> QED BY <2>1, <2>2
  <1> QED BY <1>3 DEF Min

LEMMA VersionForType ==
  ASSUME NEW s \in Skills, stored[s] \in Seq(Contents), NEW c
  PROVE  VersionFor(s, c) \in DOMAIN stored[s] \/ VersionFor(s, c) = Len(stored[s]) + 1
  <1> DEFINE same == {v \in DOMAIN stored[s] : stored[s][v] = c}
  <1>1. CASE same = {}
    BY <1>1 DEF VersionFor
  <1>2. CASE same # {}
    <2>1. same \in SUBSET Nat
      OBVIOUS
    <2>2. Min(same) \in same
      BY <1>2, <2>1, MinIsIn
    <2>3. VersionFor(s, c) = Min(same)
      BY <1>2 DEF VersionFor
    <2> QED BY <2>2, <2>3
  <1> QED BY <1>1, <1>2

\* The repository only grows, by the version that is written.
LEMMA PlacedType ==
  ASSUME NEW tars \in Seq(Contents), NEW c \in Contents, NEW v \in 1..(Len(tars) + 1)
  PROVE  /\ Placed(tars, v, c) \in Seq(Contents)
         /\ Len(Placed(tars, v, c)) >= Len(tars) /\ v \in DOMAIN Placed(tars, v, c)
  <1>1. CASE v \in DOMAIN tars
    BY <1>1 DEF Placed
  <1>2. CASE v \notin DOMAIN tars
    <2>1. v = Len(tars) + 1
      BY <1>2
    <2>2. Placed(tars, v, c) = Append(tars, c)
      BY <1>2 DEF Placed
    <2> QED BY <2>1, <2>2
  <1> QED BY <1>1, <1>2

\* A publish that is under way.
PublishState == [step : {"write", "get", "put"}, skill : Skills, content : Contents,
                 version : Nat, read : Nat]

\* The version that a publish is to write is in the repository or the next one, and the
\* one that it is to name is there.
InReach(b, has) ==
    b.version \in 1..(IF b.step = "write" THEN has + 1 ELSE has)

RepoInv ==
    /\ stored \in [Skills -> Seq(Contents)]
    /\ skillCR = [s \in Skills |-> skillCR[s]]
    /\ \A s \in Skills : skillCR[s] # Nothing => skillCR[s].resource \in Nat
    /\ publish \in [Publishes -> PublishState \cup {Waiting, Over}]
    /\ \A p \in Publishes :
         publish[p] \in PublishState => InReach(publish[p], Len(stored[publish[p].skill]))
    /\ Fetchable

LEMMA RepoInvInit == SkillInit => RepoInv
  <1> SUFFICES ASSUME SkillInit PROVE RepoInv
    OBVIOUS
  <1>1. Waiting \notin PublishState
    BY DEF Waiting, PublishState
  <1>2. <<>> \in Seq(Contents)
    OBVIOUS
  <1> QED BY <1>1, <1>2 DEF SkillInit, RepoInv, Fetchable

\* A publish is under way, is waiting or is over, and it is told by its step.
LEMMA UnderWayShape ==
  ASSUME RepoInv, NEW p \in Publishes, publish[p].step \in {"write", "get", "put"}
  PROVE  publish[p] \in PublishState /\ InReach(publish[p], Len(stored[publish[p].skill]))
  BY DEF RepoInv, Waiting, Over

LEMMA NotUnderWay == Waiting \notin PublishState /\ Over \notin PublishState
  BY DEF Waiting, Over, PublishState

\* While the repository grows, what is in reach stays in reach.
LEMMA RepoGrows ==
  ASSUME RepoInv, stored' \in [Skills -> Seq(Contents)],
         \A s \in Skills : Len(stored'[s]) >= Len(stored[s]),
         NEW p \in Publishes, NEW v \in PublishState \cup {Waiting, Over},
         v \in PublishState => InReach(v, Len(stored'[v.skill])),
         publish' = [publish EXCEPT ![p] = v],
         skillCR' = [s \in Skills |-> skillCR'[s]],
         \A s \in Skills :
           skillCR'[s] = skillCR[s]
           \/ (skillCR'[s].resource \in Nat /\ skillCR'[s].version \in DOMAIN stored'[s])
  PROVE  RepoInv'
  <1>1. /\ publish' \in [Publishes -> PublishState \cup {Waiting, Over}] /\ publish'[p] = v
        /\ \A q \in Publishes : q # p => publish'[q] = publish[q]
    BY DEF RepoInv
  <1>2. ASSUME NEW s \in Skills, NEW i \in DOMAIN stored[s] PROVE i \in DOMAIN stored'[s]
    <2>1. stored[s] \in Seq(Contents) /\ stored'[s] \in Seq(Contents)
      BY DEF RepoInv
    <2>2. Len(stored'[s]) >= Len(stored[s])
      OBVIOUS
    <2> QED BY <2>1, <2>2
  <1>3. ASSUME NEW q \in Publishes, publish'[q] \in PublishState
        PROVE  InReach(publish'[q], Len(stored'[publish'[q].skill]))
    <2>1. CASE q = p
      BY <1>1, <1>3, <2>1
    <2>2. CASE q # p
      <3> DEFINE b == publish[q]
      <3>1. b \in PublishState /\ publish'[q] = b /\ InReach(b, Len(stored[b.skill]))
        BY <1>1, <1>3, <2>2 DEF RepoInv
      <3>2. b.skill \in Skills /\ b.version \in Nat
        BY <3>1 DEF PublishState
      <3>3. Len(stored'[b.skill]) >= Len(stored[b.skill])
            /\ Len(stored'[b.skill]) \in Nat /\ Len(stored[b.skill]) \in Nat
        BY <3>2 DEF RepoInv
      <3> HIDE DEF b
      <3>4. InReach(b, Len(stored'[b.skill]))
        BY <3>1, <3>2, <3>3 DEF InReach
      <3> QED BY <3>1, <3>4
    <2> QED BY <2>1, <2>2
  <1>4. Fetchable'
    BY <1>2 DEF RepoInv, Fetchable
  <1>5. \A s \in Skills : skillCR'[s] # Nothing => skillCR'[s].resource \in Nat
    BY DEF RepoInv
  <1> QED BY <1>1, <1>3, <1>4, <1>5 DEF RepoInv

LEMMA ResolveStep ==
  ASSUME RepoInv, NEW p \in Publishes, ResolveVersion(p) PROVE RepoInv'
  <1>1. PICK s \in Skills, c \in Contents :
          publish' = [publish EXCEPT ![p] =
                        [step |-> IF VersionFor(s, c) \in DOMAIN stored[s] THEN "get"
                                  ELSE "write",
                         skill |-> s, content |-> c, version |-> VersionFor(s, c),
                         read |-> 0]]
    BY DEF ResolveVersion, PublishBecomes
  <1> DEFINE v == [step |-> IF VersionFor(s, c) \in DOMAIN stored[s] THEN "get" ELSE "write",
                   skill |-> s, content |-> c, version |-> VersionFor(s, c), read |-> 0]
  <1>2. stored[s] \in Seq(Contents) /\ Len(stored[s]) \in Nat
        /\ DOMAIN stored[s] = 1..Len(stored[s])
    BY DEF RepoInv
  <1>3. VersionFor(s, c) \in DOMAIN stored[s] \/ VersionFor(s, c) = Len(stored[s]) + 1
    BY <1>2, VersionForType
  <1>4. v \in PublishState /\ v.skill = s /\ v.version = VersionFor(s, c)
        /\ v.step = IF VersionFor(s, c) \in DOMAIN stored[s] THEN "get" ELSE "write"
    BY <1>2, <1>3 DEF PublishState
  <1>5. UNCHANGED <<stored, skillCR>>
    BY DEF ResolveVersion
  <1> HIDE DEF v
  <1>6. InReach(v, Len(stored'[v.skill]))
    BY <1>2, <1>3, <1>4, <1>5 DEF InReach
  <1>7. publish' = [publish EXCEPT ![p] = v]
    BY <1>1 DEF v
  <1>8. \A s1 \in Skills : Len(stored'[s1]) >= Len(stored[s1])
    BY <1>5 DEF RepoInv
  <1> QED BY <1>4, <1>5, <1>6, <1>7, <1>8, RepoGrows DEF RepoInv

LEMMA WriteStep ==
  ASSUME RepoInv, NEW p \in Publishes, WriteBytes(p) PROVE RepoInv'
  <1> DEFINE b == publish[p]
             v == [b EXCEPT !.step = "get"]
             tars == stored[b.skill]
             grown == Placed(tars, b.version, b.content)
  <1>1. b \in PublishState /\ b.step = "write" /\ InReach(b, Len(tars))
    BY UnderWayShape DEF WriteBytes
  <1>2. b.skill \in Skills /\ b.content \in Contents /\ b.version \in 1..(Len(tars) + 1)
        /\ tars \in Seq(Contents)
    BY <1>1 DEF PublishState, InReach, RepoInv
  <1>3. grown \in Seq(Contents) /\ Len(grown) >= Len(tars) /\ b.version \in DOMAIN grown
    BY <1>2, PlacedType
  <1>4. /\ stored' = [stored EXCEPT ![b.skill] = grown] /\ UNCHANGED skillCR
        /\ publish' = [publish EXCEPT ![p] = v]
    BY DEF WriteBytes, PublishMoves, RepoInv
  <1>5. v \in PublishState /\ v.step = "get" /\ v.skill = b.skill /\ v.version = b.version
    BY <1>1 DEF PublishState
  <1> HIDE DEF v, grown
  <1>6. /\ stored' \in [Skills -> Seq(Contents)] /\ stored'[b.skill] = grown
        /\ \A s \in Skills : s # b.skill => stored'[s] = stored[s]
    BY <1>2, <1>3, <1>4 DEF RepoInv
  <1>7. ASSUME NEW s \in Skills PROVE Len(stored'[s]) >= Len(stored[s])
    <2>1. CASE s = b.skill
      BY <1>3, <1>6, <2>1
    <2>2. CASE s # b.skill
      <3>1. stored'[s] = stored[s] /\ Len(stored[s]) \in Nat
        BY <1>6, <2>2 DEF RepoInv
      <3> QED BY <3>1
    <2> QED BY <2>1, <2>2
  <1>8. InReach(v, Len(stored'[v.skill]))
    BY <1>3, <1>5, <1>6 DEF InReach
  <1> QED BY <1>4, <1>5, <1>6, <1>7, <1>8, RepoGrows DEF RepoInv

\* What leaves the repository alone.
LEMMA RepoStays ==
  ASSUME RepoInv, UNCHANGED stored
  PROVE  stored' \in [Skills -> Seq(Contents)] /\ \A s \in Skills : Len(stored'[s]) >= Len(stored[s])
  <1>1. \A s \in Skills : Len(stored[s]) \in Nat
    BY DEF RepoInv
  <1> QED BY <1>1 DEF RepoInv

LEMMA GetStep ==
  ASSUME RepoInv, NEW p \in Publishes, GetSkill(p) PROVE RepoInv'
  <1> DEFINE b == publish[p]
             v == [b EXCEPT !.step = "put", !.read = Revision(b.skill)]
  <1>1. b \in PublishState /\ b.step = "get" /\ InReach(b, Len(stored[b.skill]))
    BY UnderWayShape DEF GetSkill
  <1>2. Revision(b.skill) \in Nat
    BY <1>1 DEF PublishState, Revision, RepoInv
  <1>3. v \in PublishState /\ v.step = "put" /\ v.skill = b.skill /\ v.version = b.version
    BY <1>1, <1>2 DEF PublishState
  <1>4. publish' = [publish EXCEPT ![p] = v] /\ UNCHANGED <<stored, skillCR>>
    BY DEF GetSkill, RepoInv
  <1> HIDE DEF v
  <1>5. InReach(v, Len(stored'[v.skill]))
    BY <1>1, <1>3, <1>4 DEF InReach
  <1> QED BY <1>3, <1>4, <1>5, RepoStays, RepoGrows DEF RepoInv

\* The resource is named, or refused, by a publish that has seen to the version.
LEMMA EndsStep ==
  ASSUME RepoInv, NEW p \in Publishes, publish[p].step \in {"write", "get", "put"},
         NEW v \in {Waiting, Over}, PublishBecomes(p, v), UNCHANGED stored,
         UNCHANGED skillCR \/ (publish[p].step = "put" /\ Upsert(p))
  PROVE  RepoInv'
  <1> DEFINE b == publish[p]
             new == [version |-> b.version, sha |-> b.content, resource |-> b.read + 1]
  <1>1. publish' = [publish EXCEPT ![p] = v] /\ v \notin PublishState
    BY NotUnderWay DEF PublishBecomes
  <1>2. CASE UNCHANGED skillCR
    BY <1>1, <1>2, RepoStays, RepoGrows DEF RepoInv
  <1>3. CASE b.step = "put" /\ Upsert(p)
    <2>1. b \in PublishState /\ InReach(b, Len(stored[b.skill])) /\ stored[b.skill] \in Seq(Contents)
      BY UnderWayShape DEF RepoInv, PublishState
    <2>2. b.skill \in Skills /\ b.version \in DOMAIN stored[b.skill] /\ b.read + 1 \in Nat
      BY <1>3, <2>1 DEF PublishState, InReach
    <2>3. skillCR' = [skillCR EXCEPT ![b.skill] = new]
      BY <1>3 DEF Upsert
    <2>4. new.version = b.version /\ new.resource = b.read + 1
      OBVIOUS
    <2> HIDE DEF new
    <2>5. /\ skillCR' = [s \in Skills |-> skillCR'[s]] /\ skillCR'[b.skill] = new
          /\ \A s \in Skills : s # b.skill => skillCR'[s] = skillCR[s]
      BY <2>2, <2>3 DEF RepoInv
    <2>6. \A s \in Skills :
            skillCR'[s] = skillCR[s]
            \/ (skillCR'[s].resource \in Nat /\ skillCR'[s].version \in DOMAIN stored'[s])
      BY <2>2, <2>4, <2>5
    <2> QED BY <1>1, <2>5, <2>6, RepoStays, RepoGrows
  <1> QED BY <1>2, <1>3

LEMMA RepoInvStep == ASSUME RepoInv, [SkillNext]_skillVars PROVE RepoInv'
  <1>1. CASE UNCHANGED repoVars
    BY <1>1 DEF repoVars, RepoInv, Fetchable
  <1>2. ASSUME NEW p \in Publishes, PutSkill(p) \/ PublishFails(p) PROVE RepoInv'
    <2>1. \E v \in {Waiting, Over} : PublishBecomes(p, v)
      BY <1>2 DEF PutSkill, PublishFails, Failed
    <2>2. publish[p].step \in {"write", "get", "put"} /\ UNCHANGED stored
          /\ (UNCHANGED skillCR \/ (publish[p].step = "put" /\ Upsert(p)))
      BY <1>2 DEF PutSkill, PublishFails
    <2> QED BY <2>1, <2>2, EndsStep
  <1>3. CASE \E p \in Publishes : PublishStep(p) \/ PublishFails(p)
    BY <1>2, <1>3, ResolveStep, WriteStep, GetStep DEF PublishStep
  <1>4. CASE ApiRestarts
    <2>1. publish' \in [Publishes -> {Waiting, Over}] /\ UNCHANGED <<stored, skillCR>>
      BY <1>4 DEF ApiRestarts
    <2>2. \A p \in Publishes : publish'[p] \notin PublishState
      BY <2>1, NotUnderWay
    <2> QED BY <2>1, <2>2 DEF RepoInv, Fetchable
  <1>5. CASE \E s \in Skills : InstallSkill(s) \/ UninstallSkill(s) \/ AgentActs(s)
    BY <1>1, <1>5 DEF InstallSkill, UninstallSkill, AgentActs
  <1>6. CASE SyncStep \/ SupervisorRestarts
    BY <1>1, <1>6 DEF SyncStep, BeginSync, SyncOne, EndSync, MoveAside, MoveIn, DropBackup,
       SupervisorRestarts
  <1>7. CASE UNCHANGED skillVars
    BY <1>1, <1>7 DEF skillVars
  <1> QED BY <1>3, <1>4, <1>5, <1>6, <1>7 DEF SkillNext

\* Fetchable, for any skills, contents and publishes: the tar is written before it is
\* named, and the repository only grows (publishSkill, ResolveVersion).
THEOREM FetchableCorrect == SkillSpec => []Fetchable
  <1>1. SkillInit => RepoInv
    BY RepoInvInit
  <1>2. RepoInv /\ [SkillNext]_skillVars => RepoInv'
    BY RepoInvStep
  <1>3. RepoInv => Fetchable
    BY DEF RepoInv
  <1> QED BY <1>1, <1>2, <1>3, PTL DEF SkillSpec

-----------------------------------------------------------------------------
(* Instances: fresh numbers.                                               *)

LEMMA FreshIsNew ==
  ASSUME NEW used, IsFiniteSet(used)
  PROVE  Fresh(used) \in Nat \ {0} /\ Fresh(used) \notin used
  <1> DEFINE c == Cardinality(used)
  <1>1. c \in Nat
    BY FS_CardinalityType
  <1>2. IsFiniteSet(1..(c + 1)) /\ Cardinality(1..(c + 1)) = c + 1
    BY <1>1, FS_Interval
  <1>3. \E x \in 1..(c + 1) : x \notin used
    <2>1. SUFFICES ASSUME 1..(c + 1) \subseteq used PROVE FALSE
      OBVIOUS
    <2>2. Cardinality(1..(c + 1)) <= c
      BY <2>1, FS_Subset
    <2> QED BY <1>1, <1>2, <2>2
  <1>4. Fresh(used) \in 1..(c + 1) /\ Fresh(used) \notin used
    BY <1>3 DEF Fresh
  <1> QED BY <1>1, <1>4

LEMMA FiniteImage ==
  ASSUME NEW S, IsFiniteSet(S), NEW f, f = [x \in S |-> f[x]]
  PROVE  IsFiniteSet({f[x] : x \in S})
  <1> DEFINE T == {f[x] : x \in S}
  <1>1. f \in [S -> T]
    OBVIOUS
  <1>2. f \in Surjection(S, T)
    BY <1>1 DEF Surjection
  <1> QED BY <1>2, FS_Surjection

LEMMA FinitePods == IsFiniteSet(Pods) /\ IsFiniteSet(Passes)
  <1> DEFINE f == [n \in Instances |-> pods[n]]
  <1>1. IsFiniteSet({f[n] : n \in Instances})
    BY FiniteImage, InstanceAssumption
  <1>2. {f[n] : n \in Instances} = {pods[n] : n \in Instances}
    OBVIOUS
  <1>3. IsFiniteSet({pods[n] : n \in Instances}) /\ IsFiniteSet({pass})
    BY <1>1, <1>2, FS_Singleton
  <1> QED BY <1>3, FS_Difference DEF Pods, Passes

LEMMA NewPodUidIsNew ==
  /\ NewPodUid \in Nat \ {0}
  /\ \A p \in Passes : NewPodUid # p.pod
  <1> DEFINE g == [p \in Passes |-> p.pod]
  <1>1. IsFiniteSet({g[p] : p \in Passes})
    BY FinitePods, FiniteImage
  <1>2. {g[p] : p \in Passes} = {p.pod : p \in Passes}
    OBVIOUS
  <1> QED BY <1>1, <1>2, FreshIsNew DEF NewPodUid

LEMMA NewRevIsNew ==
  /\ NewRev \in Nat
  /\ \A p \in Pods \cup Passes : NewRev # p.rev
  <1> DEFINE all == Pods \cup Passes
             f == [p \in all |-> p.rev]
  <1>1. IsFiniteSet({f[p] : p \in all})
    BY FinitePods, FS_Union, FiniteImage
  <1>2. {f[p] : p \in all} = {p.rev : p \in all}
    OBVIOUS
  <1> QED BY <1>1, <1>2, FreshIsNew DEF NewRev

-----------------------------------------------------------------------------
(* Instances: the inductive invariant of PodsSpared.                       *)

InstanceState == [uid : Nat \ {0}, finalizer : BOOLEAN, terminating : BOOLEAN,
                  phase : Phases]

PodState == [uid : Nat, owner : Nat, rev : Nat \cup {Missing},
             health : {"starting", "ready", "failed"}, failed : BOOLEAN, terminating : BOOLEAN]

Revoking == {"account", "token", "kubeconfig", "bindings", "release"}
Provisioning == {"volume", "pod", "create", "replace", "observe", "heal"}

PassState == [step : Revoking \cup Provisioning, name : Instances, uid : Nat \ {0},
              rev : Nat \cup {Missing}, pod : Nat \cup {Missing}]

InstanceType == inst \in [Instances -> {Missing} \cup InstanceState] /\ created \in Nat

PodTypes ==
    /\ pods \in [Instances -> {Missing} \cup PodState]
    /\ pass \in {Resting} \cup PassState
    /\ kubeconfig # Missing => kubeconfig.rev \in Nat

\* A pod that runs under the current kubeconfig.
Current(n) == pods[n] # Missing /\ kubeconfig # Missing /\ pods[n].rev = kubeconfig.rev

\* A pass that is on its way to the pod has the current kubeconfig, or the current one
\* came after it, and no pod has that.
Outdated ==
    pass.step \in {"volume", "pod", "create"} /\ kubeconfig # Missing =>
      pass.rev = kubeconfig.rev \/ \A n \in Instances : ~Current(n)

\* The pod that is to be replaced belongs to the pass and is not current.
ToReplace ==
    LET pod == pods[pass.name] IN
      pass.step = "replace" /\ pod # Missing /\ pod.uid = pass.pod =>
        pod.owner = pass.uid /\ ~Current(pass.name)

\* And the one that is to be healed, if it belongs to the pass, had failed.
ToHeal ==
    LET pod == pods[pass.name] IN
      pass.step = "heal" /\ pod # Missing /\ pod.owner = pass.uid => pod.failed

FailedHas == \A n \in Instances : pods[n] # Missing /\ pods[n].health = "failed" => pods[n].failed

PodsInv == PodTypes /\ Outdated /\ ToReplace /\ ToHeal /\ FailedHas
InstanceInv == InstanceType /\ PodsInv

LEMMA InstanceInvInit == InstanceInit => InstanceInv
  BY DEF InstanceInit, InstanceInv, InstanceType, PodsInv, PodTypes, Outdated, ToReplace,
     ToHeal, FailedHas, Resting

-----------------------------------------------------------------------------
(* The instances.                                                          *)

LEMMA PhaseType ==
  ASSUME InstanceType, NEW n \in Instances, NEW p \in Phases, Phase(n, p), created' \in Nat
  PROVE  InstanceType'
  <1>1. CASE Same(n)
    <2>1. inst[n] \in InstanceState
      BY <1>1 DEF Same, InstanceType
    <2>2. [inst[n] EXCEPT !.phase = p] \in InstanceState
      BY <2>1 DEF InstanceState
    <2>3. inst' = [inst EXCEPT ![n] = [inst[n] EXCEPT !.phase = p]]
      BY <1>1 DEF Phase, InstanceType
    <2> HIDE DEF InstanceState
    <2> QED BY <2>2, <2>3 DEF InstanceType
  <1>2. CASE ~Same(n)
    BY <1>2 DEF Phase, InstanceType
  <1> QED BY <1>1, <1>2

LEMMA NextCounts == [InstanceNext]_instanceVars => created' \in {created, created + 1}
  <1>1. CASE Smooth
    BY <1>1 DEF Smooth, counters
  <1>2. CASE Mishap
    BY <1>2 DEF Mishap
  <1>3. CASE \E n \in Instances : CreateInstance(n)
    BY <1>3 DEF CreateInstance
  <1>4. ASSUME NEW n \in Instances,
               \/ DeleteInstance(n) \/ AddFinalizer(n) \/ BeginTeardown(n) \/ BeginProvision(n)
               \/ Collect(n) \/ PodStops(n) \/ PodStarts(n) \/ PodRecovers(n)
        PROVE  Smooth
    BY <1>4 DEF DeleteInstance, AddFinalizer, BeginTeardown, BeginProvision, Collect, PodStops,
       PodStarts, PodRecovers, Smooth
  <1>5. CASE WorkStep
    <2>1. Smooth
      BY <1>5 DEF WorkStep, Revoke, Release, EnsureVolume, ReadPod, CreatePod, ReplacePod,
         Observe, HealPod, Smooth
    <2> QED BY <1>1, <2>1
  <1>6. CASE BootStep \/ FillToken \/ DropToken
    <2>1. Smooth
      BY <1>6 DEF BootStep, ListUsers, MintAccount, MintBindings, MintToken, ReadToken,
         MintKubeconfig, Prune, FillToken, DropToken, Smooth
    <2> QED BY <1>1, <2>1
  <1>7. CASE \/ PassFails \/ BootFails \/ EditBindings
             \/ \E n \in Instances : PodFails(n) \/ ForeignPod(n)
    <2>1. Mishap
      BY <1>7 DEF PassFails, BootFails, EditBindings, PodFails, ForeignPod
    <2> QED BY <1>2, <2>1
  <1>8. CASE UNCHANGED instanceVars
    BY <1>8 DEF instanceVars, counters
  <1> QED BY <1>1, <1>3, <1>4, <1>5, <1>6, <1>7, <1>8
          DEF InstanceNext, PassStep, Turn, ClusterStep, OtherStep

LEMMA InstanceTypeStep == ASSUME InstanceInv, [InstanceNext]_instanceVars PROVE InstanceType'
  <1>0. created' \in Nat
    BY NextCounts DEF InstanceInv, InstanceType
  <1>1. CASE UNCHANGED inst
    BY <1>0, <1>1 DEF InstanceInv, InstanceType
  <1>2. ASSUME NEW n \in Instances, CreateInstance(n) PROVE InstanceType'
    <2>1. [uid |-> NewUid, finalizer |-> FALSE, terminating |-> FALSE, phase |-> "Creating"]
            \in InstanceState
      BY DEF NewUid, Phases, InstanceState, InstanceInv, InstanceType
    <2> QED BY <1>0, <1>2, <2>1 DEF CreateInstance, InstanceInv, InstanceType
  <1>3. ASSUME NEW n \in Instances, DeleteInstance(n) \/ AddFinalizer(n) PROVE InstanceType'
    <2>1. inst[n] \in InstanceState
      BY <1>3 DEF DeleteInstance, AddFinalizer, Alive, InstanceInv, InstanceType
    <2>2. /\ [inst[n] EXCEPT !.terminating = TRUE] \in InstanceState
          /\ [inst[n] EXCEPT !.finalizer = TRUE] \in InstanceState
      BY <2>1 DEF InstanceState
    <2>3. inst' \in {[inst EXCEPT ![n] = [inst[n] EXCEPT !.terminating = TRUE]],
                     [inst EXCEPT ![n] = Missing],
                     [inst EXCEPT ![n] = [inst[n] EXCEPT !.finalizer = TRUE]]}
      BY <1>3 DEF DeleteInstance, AddFinalizer, InstanceInv, InstanceType
    <2> QED BY <1>0, <2>2, <2>3 DEF InstanceInv, InstanceType
  <1>4. ASSUME pass # Resting PROVE pass.name \in Instances
    BY <1>4 DEF InstanceInv, PodsInv, PodTypes, PassState
  <1>5. CASE Release
    BY <1>0, <1>4, <1>5 DEF Release, InstanceInv, InstanceType
  <1>6. ASSUME pass # Resting, NEW p \in Phases, Phase(pass.name, p) PROVE InstanceType'
    BY <1>0, <1>4, <1>6, PhaseType DEF InstanceInv
  <1>7. pass.step # "rest" => pass # Resting
    BY DEF Resting
  <1>8. CASE EnsureVolume \/ ReadPod \/ CreatePod \/ ReplacePod
    BY <1>1, <1>6, <1>7, <1>8 DEF EnsureVolume, ReadPod, CreatePod, ReplacePod, Phases
  <1>9. CASE Observe
    <2>1. \E p \in Phases : Phase(pass.name, p)
      <3> DEFINE is == IF pods[pass.name] = Missing THEN "starting" ELSE pods[pass.name].health
      <3>1. Phase(pass.name, CASE is = "ready" -> "Ready" [] is = "failed" -> "Failed"
                               [] OTHER -> "Creating")
        BY <1>9 DEF Observe
      <3> QED BY <3>1 DEF Phases
    <2>2. pass # Resting
      BY <1>7, <1>9 DEF Observe
    <2> QED BY <1>6, <2>1, <2>2
  <1>10. CASE PassFails
    BY <1>1, <1>6, <1>10 DEF PassFails, Phases
  <1>11. CASE HealPod \/ Revoke \/ \E n \in Instances : BeginTeardown(n) \/ BeginProvision(n)
    BY <1>1, <1>11 DEF HealPod, Revoke, BeginTeardown, BeginProvision
  <1>12. CASE BootStep \/ BootFails \/ ClusterStep \/ EditBindings
    BY <1>1, <1>12 DEF BootStep, ListUsers, MintAccount, MintBindings, MintToken, ReadToken,
       MintKubeconfig, Prune, BootFails, ClusterStep, FillToken, DropToken, Collect,
       PodStops, PodStarts, EditBindings
  <1>13. CASE \E n \in Instances : PodFails(n) \/ PodRecovers(n) \/ ForeignPod(n)
    BY <1>1, <1>13 DEF PodFails, PodRecovers, ForeignPod
  <1>14. CASE UNCHANGED instanceVars
    BY <1>1, <1>14 DEF instanceVars
  <1> QED BY <1>2, <1>3, <1>5, <1>8, <1>9, <1>10, <1>11, <1>12, <1>13, <1>14
          DEF InstanceNext, PassStep, Turn, WorkStep, OtherStep

-----------------------------------------------------------------------------
(* The pods.                                                               *)

LEMMA Quiet == ASSUME PodsInv, UNCHANGED <<pods, pass, kubeconfig>> PROVE PodsInv'
  BY DEF PodsInv, PodTypes, Outdated, Current, ToReplace, ToHeal, FailedHas

LEMMA AtWork == ASSUME PodsInv, pass.step # "rest" PROVE pass \in PassState
  BY DEF PodsInv, PodTypes, Resting

LEMMA Moved ==
  ASSUME PodsInv, pass.step # "rest", NEW s \in Revoking \cup Provisioning, PassMoves(s)
  PROVE  /\ pass' \in PassState /\ pass'.step = s /\ pass'.name = pass.name
         /\ pass'.uid = pass.uid /\ pass'.rev = pass.rev /\ pass'.pod = pass.pod
  BY AtWork DEF PassState, PassMoves

\* A pass that ends leaves nothing to be shown but the pods.
LEMMA PassOver ==
  ASSUME PodsInv, PassEnds, UNCHANGED kubeconfig,
         pods' \in [Instances -> {Missing} \cup PodState], FailedHas'
  PROVE  PodsInv'
  BY DEF PassEnds, Resting, PodsInv, PodTypes, Outdated, ToReplace, ToHeal

LEMMA PassOverOnly ==
  ASSUME PodsInv, PassEnds, UNCHANGED <<pods, kubeconfig>> PROVE PodsInv'
  BY PassOver DEF PodsInv, PodTypes, FailedHas

\* A pod that changes stays the pod it was; a failure is remembered.
LEMMA PodChanges ==
  ASSUME PodsInv, NEW n \in Instances, pods[n] # Missing, NEW v \in PodState,
         v.uid = pods[n].uid, v.owner = pods[n].owner, v.rev = pods[n].rev,
         pods[n].failed => v.failed, v.health = "failed" => v.failed,
         pods' = [pods EXCEPT ![n] = v], UNCHANGED kubeconfig, UNCHANGED pass \/ PassEnds
  PROVE  PodsInv'
  <1>1. pods' \in [Instances -> {Missing} \cup PodState] /\ pods'[n] = v
        /\ \A m \in Instances \ {n} : pods'[m] = pods[m]
    BY DEF PodsInv, PodTypes
  <1>2. FailedHas'
    BY <1>1 DEF PodsInv, FailedHas
  <1>3. CASE PassEnds
    BY <1>1, <1>2, <1>3, PassOver
  <1>4. CASE UNCHANGED pass
    <2>1. \A m \in Instances : Current(m)' => Current(m)
      BY <1>1 DEF Current
    <2>2. Outdated'
      BY <1>4, <2>1 DEF PodsInv, Outdated
    <2>3. ToReplace' /\ ToHeal'
      <3>1. CASE pass.step \notin {"replace", "heal"}
        BY <1>4, <3>1 DEF ToReplace, ToHeal
      <3>2. CASE pass.step \in {"replace", "heal"}
        <4>1. pass.name \in Instances
          BY <3>2, AtWork DEF PassState
        <4> QED BY <1>1, <1>4, <2>1, <4>1 DEF PodsInv, ToReplace, ToHeal
      <3> QED BY <3>1, <3>2
    <2> QED BY <1>1, <1>2, <1>4, <2>2, <2>3 DEF PodsInv, PodTypes
  <1> QED BY <1>3, <1>4

LEMMA PodFlags ==
  ASSUME PodsInv, NEW n \in Instances, pods[n] # Missing, UNCHANGED kubeconfig,
         \/ /\ UNCHANGED pass \/ PassEnds
            /\ pods' = [pods EXCEPT ![n].terminating = TRUE]
         \/ /\ UNCHANGED pass
            /\ \/ pods' = [pods EXCEPT ![n].health = "ready"]
               \/ pods' = [pods EXCEPT ![n].health = "failed", ![n].failed = TRUE]
  PROVE  PodsInv'
  <1>1. pods[n] \in PodState
    BY DEF PodsInv, PodTypes
  <1>2. pods[n].health = "failed" => pods[n].failed
    BY DEF PodsInv, FailedHas
  <1>3. CASE pods' = [pods EXCEPT ![n].terminating = TRUE]
    <2> DEFINE v == [pods[n] EXCEPT !.terminating = TRUE]
    <2>1. /\ v \in PodState /\ v.uid = pods[n].uid /\ v.owner = pods[n].owner
          /\ v.rev = pods[n].rev /\ v.failed = pods[n].failed /\ v.health = pods[n].health
      BY <1>1 DEF PodState
    <2>2. pods' = [pods EXCEPT ![n] = v]
      BY <1>3 DEF PodsInv, PodTypes
    <2> HIDE DEF v
    <2> QED BY <1>2, <2>1, <2>2, PodChanges
  <1>4. CASE UNCHANGED pass /\ pods' = [pods EXCEPT ![n].health = "ready"]
    <2> DEFINE v == [pods[n] EXCEPT !.health = "ready"]
    <2>1. /\ v \in PodState /\ v.uid = pods[n].uid /\ v.owner = pods[n].owner
          /\ v.rev = pods[n].rev /\ v.failed = pods[n].failed /\ v.health = "ready"
      BY <1>1 DEF PodState
    <2>2. pods' = [pods EXCEPT ![n] = v]
      BY <1>4 DEF PodsInv, PodTypes
    <2> HIDE DEF v
    <2> QED BY <1>4, <2>1, <2>2, PodChanges
  <1>5. CASE UNCHANGED pass /\ pods' = [pods EXCEPT ![n].health = "failed", ![n].failed = TRUE]
    <2> DEFINE v == [pods[n] EXCEPT !.health = "failed", !.failed = TRUE]
    <2>1. /\ v \in PodState /\ v.uid = pods[n].uid /\ v.owner = pods[n].owner
          /\ v.rev = pods[n].rev /\ v.failed = TRUE
      BY <1>1 DEF PodState
    <2>2. pods' = [pods EXCEPT ![n] = v]
      BY <1>5 DEF PodsInv, PodTypes
    <2> HIDE DEF v
    <2> QED BY <1>5, <2>1, <2>2, PodChanges
  <1> QED BY <1>3, <1>4, <1>5

LEMMA PodGone ==
  ASSUME PodsInv, NEW n \in Instances, pods' = [pods EXCEPT ![n] = Missing],
         UNCHANGED <<pass, kubeconfig>>
  PROVE  PodsInv'
  <1>1. pods' \in [Instances -> {Missing} \cup PodState] /\ pods'[n] = Missing
        /\ \A m \in Instances \ {n} : pods'[m] = pods[m]
    BY DEF PodsInv, PodTypes
  <1>2. \A m \in Instances : Current(m)' => Current(m)
    BY <1>1 DEF Current
  <1>3. ToReplace' /\ ToHeal'
    <2>1. CASE pass.step \notin {"replace", "heal"}
      BY <2>1 DEF ToReplace, ToHeal
    <2>2. CASE pass.step \in {"replace", "heal"}
      <3>1. pass.name \in Instances
        BY <2>2, AtWork DEF PassState
      <3> QED BY <1>1, <1>2, <3>1 DEF PodsInv, ToReplace, ToHeal
    <2> QED BY <2>1, <2>2
  <1> QED BY <1>1, <1>2, <1>3 DEF PodsInv, PodTypes, Outdated, FailedHas

LEMMA NewPodType ==
  ASSUME NEW owner \in Nat, NEW rev \in Nat \cup {Missing}
  PROVE  /\ NewPod(owner, rev) \in PodState /\ NewPod(owner, rev).health = "starting"
         /\ NewPod(owner, rev).uid = NewPodUid /\ NewPod(owner, rev).owner = owner
         /\ NewPod(owner, rev).rev = rev
  BY NewPodUidIsNew DEF NewPod, PodState

\* A foreign pod is not the one that was looked at, nor the pass's own.
LEMMA ForeignPodStep ==
  ASSUME PodsInv, NEW n \in Instances, ForeignPod(n) PROVE PodsInv'
  <1> DEFINE v == NewPod(Foreign, Missing)
  <1>1. /\ v \in PodState /\ v.health = "starting" /\ v.uid = NewPodUid /\ v.owner = 0
        /\ v.rev = Missing
    <2>1. Foreign = 0 /\ Foreign \in Nat /\ Missing \in Nat \cup {Missing}
      BY DEF Foreign
    <2> QED BY <2>1, NewPodType
  <1>2. pods' = [pods EXCEPT ![n] = v] /\ UNCHANGED <<pass, kubeconfig>>
    BY DEF ForeignPod, identity
  <1> HIDE DEF v
  <1>3. pods' \in [Instances -> {Missing} \cup PodState] /\ pods'[n] = v
        /\ \A m \in Instances \ {n} : pods'[m] = pods[m]
    BY <1>1, <1>2 DEF PodsInv, PodTypes
  <1>4. \A m \in Instances : Current(m)' => Current(m)
    BY <1>1, <1>2, <1>3, InstanceAssumption DEF PodsInv, PodTypes, Current
  <1>5. ToReplace' /\ ToHeal'
    <2>1. CASE pass.step \notin {"replace", "heal"}
      BY <1>2, <2>1 DEF ToReplace, ToHeal
    <2>2. CASE pass.step \in {"replace", "heal"}
      <3>1. pass \in PassState /\ pass \in Passes
        BY <2>2, AtWork DEF Passes, Resting
      <3>2. v.uid # pass.pod /\ v.owner # pass.uid /\ pass.name \in Instances
        BY <1>1, <3>1, NewPodUidIsNew DEF PassState
      <3> QED BY <1>2, <1>3, <1>4, <3>2 DEF PodsInv, ToReplace, ToHeal
    <2> QED BY <2>1, <2>2
  <1>6. FailedHas'
    BY <1>1, <1>3 DEF PodsInv, FailedHas
  <1> QED BY <1>2, <1>3, <1>4, <1>5, <1>6 DEF PodsInv, PodTypes, Outdated

\* A kubeconfig that is written is new to every pod and to the pass.
LEMMA KubeconfigStep ==
  ASSUME PodsInv, UNCHANGED <<pods, pass>>,
         kubeconfig' = Missing \/ \E t : kubeconfig' = [rev |-> NewRev, token |-> t]
  PROVE  PodsInv'
  <1>1. CASE kubeconfig' = Missing
    BY <1>1 DEF PodsInv, PodTypes, Outdated, Current, ToReplace, ToHeal, FailedHas
  <1>2. CASE \E t : kubeconfig' = [rev |-> NewRev, token |-> t]
    <2>1. kubeconfig'.rev = NewRev /\ NewRev \in Nat
      BY <1>2, NewRevIsNew
    <2>2. ASSUME NEW m \in Instances PROVE ~Current(m)'
      <3>1. pods[m] # Missing => pods[m] \in Pods
        BY DEF Pods
      <3> QED BY <2>1, <3>1, NewRevIsNew DEF Current
    <2>3. ToReplace'
      <3>1. CASE pass.step # "replace"
        BY <3>1 DEF ToReplace
      <3>2. CASE pass.step = "replace"
        <4>1. pass.name \in Instances
          BY <3>2, AtWork DEF PassState
        <4> QED BY <2>2, <4>1 DEF PodsInv, ToReplace
      <3> QED BY <3>1, <3>2
    <2> QED BY <2>1, <2>2, <2>3 DEF PodsInv, PodTypes, Outdated, ToHeal, FailedHas
  <1> QED BY <1>1, <1>2

-----------------------------------------------------------------------------
(* The passes.                                                             *)

LEMMA BeginSteps ==
  ASSUME InstanceInv, NEW n \in Instances, BeginTeardown(n) \/ BeginProvision(n)
  PROVE  PodsInv'
  <1>1. UNCHANGED <<pods, kubeconfig>>
    BY DEF BeginTeardown, BeginProvision, identity
  <1>2. inst[n].uid \in Nat \ {0}
    BY DEF BeginTeardown, BeginProvision, Alive, InstanceInv, InstanceType, InstanceState
  <1>3. CASE BeginTeardown(n)
    <2>1. pass' \in PassState /\ pass'.step \in Revoking
      BY <1>2, <1>3 DEF BeginTeardown, PassState, Revoking
    <2> QED BY <1>1, <2>1 DEF InstanceInv, PodsInv, PodTypes, Outdated, ToReplace, ToHeal,
               FailedHas, Revoking
  <1>4. CASE BeginProvision(n)
    <2>1. kubeconfig.rev \in Nat
      BY <1>4 DEF BeginProvision, InstanceInv, PodsInv, PodTypes
    <2>2. pass' \in PassState /\ pass'.step = "volume" /\ pass'.rev = kubeconfig.rev
      BY <1>2, <1>4, <2>1 DEF BeginProvision, PassState, Provisioning
    <2> QED BY <1>1, <2>2 DEF InstanceInv, PodsInv, PodTypes, Outdated, ToReplace, ToHeal,
               FailedHas
  <1> QED BY <1>3, <1>4

LEMMA RevokeStep == ASSUME PodsInv, Revoke PROVE PodsInv'
  <1>1. /\ UNCHANGED pods /\ kubeconfig' \in {kubeconfig, Missing}
        /\ pass.step # "rest" /\ \E s \in Revoking : PassMoves(s)
    BY DEF Revoke, Revoking
  <1>2. pass' \in PassState /\ pass'.step \in Revoking
    BY <1>1, Moved
  <1> QED BY <1>1, <1>2 DEF PodsInv, PodTypes, Outdated, ToReplace, ToHeal, FailedHas, Revoking

LEMMA EarlySteps == ASSUME PodsInv, EnsureVolume \/ Release PROVE PodsInv'
  <1>1. UNCHANGED <<pods, kubeconfig>>
    BY DEF EnsureVolume, Release, identity
  <1>2. CASE PassEnds
    BY <1>1, <1>2, PassOverOnly
  <1>3. CASE EnsureVolume /\ PassMoves("pod")
    <2>1. pass.step = "volume"
      BY <1>3 DEF EnsureVolume
    <2>2. pass' \in PassState /\ pass'.step = "pod" /\ pass'.rev = pass.rev
      BY <1>3, <2>1, Moved DEF Provisioning
    <2> QED BY <1>1, <2>1, <2>2 DEF PodsInv, PodTypes, Outdated, Current, ToReplace, ToHeal,
               FailedHas
  <1> QED BY <1>2, <1>3 DEF EnsureVolume, Release

LEMMA ReadPodStep == ASSUME PodsInv, ReadPod PROVE PodsInv'
  <1> DEFINE pod == pods[pass.name]
  <1>1. UNCHANGED <<pods, kubeconfig>> /\ pass.step = "pod"
    BY DEF ReadPod, identity
  <1>2. pass \in PassState /\ pass.name \in Instances
    BY <1>1, AtWork DEF PassState
  <1>3. CASE PassEnds
    BY <1>1, <1>3, PassOverOnly
  <1>4. ASSUME NEW s \in {"create", "observe"}, PassMoves(s) PROVE PodsInv'
    <2>1. pass' \in PassState /\ pass'.step = s /\ pass'.rev = pass.rev
      BY <1>1, <1>4, Moved DEF Provisioning
    <2> QED BY <1>1, <2>1 DEF PodsInv, PodTypes, Outdated, Current, ToReplace, ToHeal, FailedHas
  <1>5. CASE /\ pod # Missing /\ pod.owner = pass.uid /\ Drifted(pod)
             /\ pass' = [pass EXCEPT !.step = "replace", !.pod = pod.uid]
    <2>1. pod.uid \in Nat
      BY <1>2, <1>5 DEF PodsInv, PodTypes, PodState
    <2>2. /\ pass' \in PassState /\ pass'.step = "replace" /\ pass'.name = pass.name
          /\ pass'.uid = pass.uid
      BY <1>2, <1>5, <2>1 DEF PassState, Provisioning
    <2>3. ~Current(pass.name)
      BY <1>1, <1>2, <1>5 DEF Drifted, PodsInv, Outdated, Current
    <2>4. ToReplace'
      BY <1>1, <1>5, <2>2, <2>3 DEF ToReplace, Current
    <2> QED BY <1>1, <2>2, <2>4 DEF PodsInv, PodTypes, Outdated, ToHeal, FailedHas
  <1>6. PassEnds \/ PassMoves("create") \/ PassMoves("observe") \/
        (/\ pod # Missing /\ pod.owner = pass.uid /\ Drifted(pod)
         /\ pass' = [pass EXCEPT !.step = "replace", !.pod = pod.uid])
    BY DEF ReadPod, PassEnds, PassMoves
  <1> QED BY <1>3, <1>4, <1>5, <1>6

LEMMA CreatePodStep == ASSUME PodsInv, CreatePod PROVE PodsInv'
  <1> DEFINE n == pass.name
             v == NewPod(pass.uid, pass.rev)
  <1>1. pass.step = "create" /\ UNCHANGED kubeconfig
    BY DEF CreatePod, identity
  <1>2. pass \in PassState /\ n \in Instances /\ pass.uid \in Nat /\ pass.rev \in Nat \cup {Missing}
    BY <1>1, AtWork DEF PassState
  <1>3. CASE UNCHANGED pods /\ PassEnds
    BY <1>1, <1>3, PassOverOnly
  <1>4. CASE pods' = [pods EXCEPT ![n] = v] /\ PassMoves("observe")
    <2>1. pass' \in PassState /\ pass'.step = "observe"
      BY <1>1, <1>4, Moved DEF Provisioning
    <2>2. v \in PodState /\ v.health = "starting"
      BY <1>2, NewPodType
    <2> HIDE DEF v
    <2>3. pods' \in [Instances -> {Missing} \cup PodState] /\ FailedHas'
      BY <1>2, <1>4, <2>2 DEF PodsInv, PodTypes, FailedHas
    <2> QED BY <1>1, <2>1, <2>3 DEF PodsInv, PodTypes, Outdated, ToReplace, ToHeal
  <1> QED BY <1>3, <1>4 DEF CreatePod

LEMMA LateSteps == ASSUME PodsInv, ReplacePod \/ Observe \/ HealPod PROVE PodsInv'
  <1>1. UNCHANGED kubeconfig /\ pass.step \in {"replace", "observe", "heal"}
    BY DEF ReplacePod, Observe, HealPod, identity
  <1>2. pass.name \in Instances
    BY <1>1, AtWork DEF PassState
  <1>3. CASE PassEnds /\ UNCHANGED pods
    BY <1>1, <1>3, PassOverOnly
  <1>4. CASE /\ PassEnds /\ pods[pass.name] # Missing
             /\ pods' = [pods EXCEPT ![pass.name].terminating = TRUE]
    BY <1>1, <1>2, <1>4, PodFlags
  <1>5. CASE Observe /\ PassMoves("heal")
    <2>1. UNCHANGED pods /\ pass.step = "observe"
      BY <1>5 DEF Observe
    <2>2. /\ pass' \in PassState /\ pass'.step = "heal" /\ pass'.name = pass.name
      BY <1>5, <2>1, Moved DEF Provisioning
    <2>3. CASE pods[pass.name] # Missing /\ pods[pass.name].health = "failed"
      <3>1. pods[pass.name].failed
        BY <1>2, <2>3 DEF PodsInv, FailedHas
      <3>2. ToHeal'
        BY <2>1, <2>2, <3>1 DEF ToHeal
      <3> QED BY <1>1, <2>1, <2>2, <3>2 DEF PodsInv, PodTypes, Outdated, ToReplace, FailedHas
    <2>4. CASE ~(pods[pass.name] # Missing /\ pods[pass.name].health = "failed")
      <3>1. PassEnds
        BY <2>4, <1>5 DEF Observe
      <3> QED BY <1>3, <2>1, <3>1
    <2> QED BY <2>3, <2>4
  <1>6. CASE ReplacePod
    BY <1>3, <1>4, <1>6 DEF ReplacePod, Deletes
  <1>7. CASE Observe
    BY <1>3, <1>5, <1>7 DEF Observe
  <1>8. CASE HealPod
    BY <1>3, <1>4, <1>8 DEF HealPod
  <1> QED BY <1>6, <1>7, <1>8

LEMMA PodsInvStep == ASSUME InstanceInv, [InstanceNext]_instanceVars PROVE PodsInv'
  <1>1. PodsInv
    BY DEF InstanceInv
  <1>2. CASE UNCHANGED <<pods, pass, kubeconfig>>
    BY <1>1, <1>2, Quiet
  <1>3. ASSUME NEW n \in Instances,
               CreateInstance(n) \/ DeleteInstance(n) \/ AddFinalizer(n)
        PROVE  PodsInv'
    BY <1>2, <1>3 DEF CreateInstance, DeleteInstance, AddFinalizer, identity
  <1>4. CASE PassStep
    BY <1>1, <1>3, <1>4, BeginSteps, RevokeStep, EarlySteps, ReadPodStep, CreatePodStep,
       LateSteps DEF PassStep, Turn, WorkStep
  <1>5. CASE PassFails
    BY <1>1, <1>5, PassOverOnly DEF PassFails, identity
  <1>6. CASE BootStep
    <2>1. CASE MintKubeconfig
      <3>1. UNCHANGED <<pods, pass>>
        BY <2>1 DEF MintKubeconfig
      <3>2. CASE UNCHANGED kubeconfig
        BY <1>2, <3>1, <3>2
      <3>3. CASE kubeconfig' = [rev |-> NewRev, token |-> boot.token]
        BY <1>1, <3>1, <3>3, KubeconfigStep
      <3> QED BY <2>1, <3>2, <3>3 DEF MintKubeconfig
    <2>2. CASE Prune
      <3>1. UNCHANGED <<pods, pass>> /\ kubeconfig' \in {kubeconfig, Missing}
        BY <2>2 DEF Prune
      <3> QED BY <1>1, <1>2, <3>1, KubeconfigStep
    <2>3. CASE ListUsers \/ MintAccount \/ MintBindings \/ MintToken \/ ReadToken
      BY <1>2, <2>3 DEF ListUsers, MintAccount, MintBindings, MintToken, ReadToken, identity
    <2> QED BY <1>6, <2>1, <2>2, <2>3 DEF BootStep
  <1>7. CASE BootFails \/ EditBindings \/ FillToken \/ DropToken
    BY <1>2, <1>7 DEF BootFails, EditBindings, FillToken, DropToken, identity
  <1>8. ASSUME NEW n \in Instances,
               Collect(n) \/ PodStops(n) \/ PodStarts(n) \/ PodFails(n) \/ PodRecovers(n)
        PROVE  PodsInv'
    <2>1. UNCHANGED <<pass, kubeconfig>>
      BY <1>8 DEF Collect, PodStops, PodStarts, PodFails, PodRecovers, identity
    <2>2. CASE PodStops(n)
      BY <1>1, <2>1, <2>2, PodGone DEF PodStops
    <2>3. CASE Collect(n)
      BY <1>1, <1>2, <2>1, <2>3, PodFlags DEF Collect
    <2>4. CASE PodStarts(n) \/ PodFails(n) \/ PodRecovers(n)
      BY <1>1, <2>1, <2>4, PodFlags DEF PodStarts, PodFails, PodRecovers
    <2> QED BY <1>8, <2>2, <2>3, <2>4
  <1>9. CASE \E n \in Instances : ForeignPod(n)
    BY <1>1, <1>9, ForeignPodStep
  <1>10. CASE UNCHANGED instanceVars
    BY <1>2, <1>10 DEF instanceVars, identity
  <1> QED BY <1>3, <1>4, <1>5, <1>6, <1>7, <1>8, <1>9, <1>10
          DEF InstanceNext, ClusterStep, OtherStep

-----------------------------------------------------------------------------
(* The theorem.                                                            *)

Spared(n) ==
    pods[n] # Missing /\ ~pods[n].terminating /\ pass # Resting /\ pass' = Resting
    /\ pods'[n] # Missing /\ pods'[n].terminating =>
      /\ pods[n].owner = pass.uid
      /\ pods[n].failed \/ kubeconfig = Missing \/ pods[n].rev # kubeconfig.rev

LEMMA SparedStep ==
  ASSUME InstanceInv, InstanceNext, NEW n \in Instances PROVE Spared(n)
  <1>1. CASE pods'[n] = pods[n]
    BY <1>1 DEF Spared
  <1>2. CASE pass' = pass
    BY <1>2 DEF Spared
  <1>3. CASE CreatePod
    <2>1. pass.step = "create"
      BY <1>3 DEF CreatePod
    <2>2. CASE UNCHANGED pods
      BY <1>1, <2>2
    <2>3. CASE PassMoves("observe")
      <3>1. pass'.step = "observe"
        BY <2>1, <2>3, Moved DEF InstanceInv, Provisioning
      <3> QED BY <3>1 DEF Spared, Resting
    <2> QED BY <1>3, <2>2, <2>3 DEF CreatePod
  <1>4. pods \in [Instances -> {Missing} \cup PodState]
    BY DEF InstanceInv, PodsInv, PodTypes
  <1>5. CASE ReplacePod
    <2>1. pass.step = "replace"
      BY <1>5 DEF ReplacePod
    <2>2. CASE UNCHANGED pods
      BY <1>1, <2>2
    <2>3. CASE /\ Deletes(pass.name, pass.pod)
               /\ pods' = [pods EXCEPT ![pass.name].terminating = TRUE]
      <3>1. CASE n # pass.name
        BY <1>1, <1>4, <2>3, <3>1
      <3>2. CASE n = pass.name
        <4>1. pods[n].owner = pass.uid /\ ~Current(n)
          BY <2>1, <2>3, <3>2 DEF Deletes, InstanceInv, PodsInv, ToReplace
        <4> QED BY <4>1 DEF Spared, Current
      <3> QED BY <3>1, <3>2
    <2> QED BY <1>5, <2>2, <2>3 DEF ReplacePod
  <1>6. CASE HealPod
    <2>1. pass.step = "heal"
      BY <1>6 DEF HealPod
    <2>2. CASE UNCHANGED pods
      BY <1>1, <2>2
    <2>3. CASE /\ pods[pass.name] # Missing /\ pods[pass.name].owner = pass.uid
               /\ pods' = [pods EXCEPT ![pass.name].terminating = TRUE]
      <3>1. CASE n # pass.name
        BY <1>1, <1>4, <2>3, <3>1
      <3>2. CASE n = pass.name
        <4>1. pods[n].owner = pass.uid /\ pods[n].failed
          BY <2>1, <2>3, <3>2 DEF InstanceInv, PodsInv, ToHeal
        <4> QED BY <4>1 DEF Spared
      <3> QED BY <3>1, <3>2
    <2> QED BY <1>6, <2>2, <2>3 DEF HealPod
  <1>7. CASE \E m \in Instances :
               CreateInstance(m) \/ DeleteInstance(m) \/ AddFinalizer(m)
               \/ BeginTeardown(m) \/ BeginProvision(m)
    BY <1>1, <1>7 DEF CreateInstance, DeleteInstance, AddFinalizer, BeginTeardown, BeginProvision
  <1>8. CASE Revoke \/ Release \/ EnsureVolume \/ ReadPod \/ Observe \/ PassFails
    BY <1>1, <1>8 DEF Revoke, Release, EnsureVolume, ReadPod, Observe, PassFails
  <1>9. CASE BootStep \/ BootFails \/ EditBindings
    BY <1>1, <1>9 DEF BootStep, ListUsers, MintAccount, MintBindings, MintToken, ReadToken,
       MintKubeconfig, Prune, BootFails, EditBindings
  <1>10. CASE ClusterStep
    BY <1>2, <1>10 DEF ClusterStep, FillToken, DropToken, Collect, PodStops, PodStarts
  <1>11. CASE \E m \in Instances : PodFails(m) \/ PodRecovers(m) \/ ForeignPod(m)
    BY <1>2, <1>11 DEF PodFails, PodRecovers, ForeignPod
  <1> QED BY <1>3, <1>5, <1>6, <1>7, <1>8, <1>9, <1>10, <1>11
          DEF InstanceNext, PassStep, Turn, WorkStep, OtherStep

\* PodsSpared, for any finite number of instances: the controller ends no pod but its
\* own, and that only when it had failed or runs under an outdated kubeconfig.
THEOREM PodsSparedCorrect == InstanceSpec => PodsSpared
  <1>1. InstanceInit => InstanceInv
    BY InstanceInvInit
  <1>2. InstanceInv /\ [InstanceNext]_instanceVars => InstanceInv'
    BY InstanceTypeStep, PodsInvStep DEF InstanceInv
  <1>3. InstanceInv /\ [InstanceNext]_instanceVars =>
          [\A n \in Instances :
             pods[n] # Missing /\ ~pods[n].terminating /\ pass # Resting /\ pass' = Resting
             /\ pods'[n] # Missing /\ pods'[n].terminating =>
               /\ pods[n].owner = pass.uid
               /\ pods[n].failed \/ kubeconfig = Missing \/ pods[n].rev # kubeconfig.rev
          ]_instanceVars
    BY SparedStep DEF Spared
  <1> QED BY <1>1, <1>2, <1>3, PTL DEF InstanceSpec, PodsSpared

-----------------------------------------------------------------------------
(* The volume under the pod.                                               *)

\* While an instance is being provisioned it is still the one that was read, and it is
\* held: the finalizer keeps it there, and only a teardown takes that off.
Held == Same(pass.name) /\ inst[pass.name].finalizer
Tended == pass.step \in Provisioning => Held

\* A pass that is on its way to the pod has seen to the volume.
Backed == pass.step \in {"pod", "create"} => volume[pass.name] = pass.uid

DataInv ==
    /\ volume = [n \in Instances |-> volume[n]]
    /\ Tended /\ Backed /\ OwnData

LEMMA DataInvInit == InstanceInit => DataInv
  BY DEF InstanceInit, DataInv, Tended, Backed, OwnData, Resting, Provisioning

\* What is there is not Missing.
LEMMA IsThere == ASSUME NEW i \in InstanceState PROVE i # Missing
  BY InstanceAssumption DEF InstanceState

LEMMA NotProvisioning == ASSUME pass'.step \notin Provisioning PROVE Tended' /\ Backed'
  BY DEF Tended, Backed, Provisioning

LEMMA PassEnded == ASSUME PassEnds PROVE Tended' /\ Backed'
  BY NotProvisioning DEF PassEnds, Resting, Provisioning

LEMMA StillHeld ==
  ASSUME InstanceInv, Tended, pass.step \in Provisioning,
         pass'.name = pass.name, pass'.uid = pass.uid,
         UNCHANGED inst \/ \E p \in Phases : Phase(pass.name, p)
  PROVE  Tended'
  <1>1. pass.name \in Instances
    BY AtWork DEF InstanceInv, PassState, Provisioning
  <1>2. Held
    BY DEF Tended
  <1>3. CASE UNCHANGED inst
    BY <1>2, <1>3 DEF Tended, Held, Same
  <1>4. ASSUME NEW p \in Phases, Phase(pass.name, p) PROVE Tended'
    <2> DEFINE was == inst[pass.name]
               is == [was EXCEPT !.phase = p]
    <2>1. was \in InstanceState /\ inst' = [inst EXCEPT ![pass.name] = is]
      BY <1>1, <1>2, <1>4 DEF Held, Same, Phase, InstanceInv, InstanceType
    <2>2. is \in InstanceState /\ is.uid = was.uid /\ is.finalizer = was.finalizer
      BY <2>1 DEF InstanceState
    <2>3. inst'[pass.name] = is
      BY <1>1, <2>1 DEF InstanceInv, InstanceType
    <2>4. inst'[pass.name] # Missing
      BY <2>2, <2>3, IsThere
    <2> HIDE DEF is
    <2> QED BY <1>2, <2>2, <2>3, <2>4 DEF Tended, Held, Same
  <1> QED BY <1>3, <1>4

\* What the user does: only an instance without the finalizer goes at once.
LEMMA UserHolds ==
  ASSUME InstanceInv, Tended, NEW n \in Instances,
         CreateInstance(n) \/ DeleteInstance(n) \/ AddFinalizer(n)
  PROVE  Tended'
  <1>1. CASE pass.step \notin Provisioning
    BY <1>1 DEF CreateInstance, DeleteInstance, AddFinalizer, Tended
  <1>2. CASE pass.step \in Provisioning
    <2>1. pass.name \in Instances /\ Held /\ UNCHANGED pass /\ pass # Resting
      BY <1>2, AtWork DEF InstanceInv, PassState, Provisioning, Tended, CreateInstance,
         DeleteInstance, AddFinalizer, Resting
    <2>2. CASE inst'[pass.name] = inst[pass.name]
      BY <2>1, <2>2 DEF Tended, Held, Same
    <2>3. CASE CreateInstance(n)
      <3>1. n # pass.name
        BY <2>1, <2>3 DEF CreateInstance, Held, Same
      <3> QED BY <2>1, <2>2, <2>3, <3>1 DEF CreateInstance, InstanceInv, InstanceType
    <2>4. CASE DeleteInstance(n)
      <3>1. CASE n # pass.name
        BY <2>1, <2>2, <2>4, <3>1 DEF DeleteInstance, InstanceInv, InstanceType
      <3>2. CASE n = pass.name
        <4> DEFINE is == [inst[n] EXCEPT !.terminating = TRUE]
        <4>1. inst[n] \in InstanceState /\ inst'[n] = is
          BY <2>1, <2>4, <3>2 DEF DeleteInstance, Held, Same, InstanceInv, InstanceType
        <4>2. is \in InstanceState /\ is.uid = inst[n].uid /\ is.finalizer = inst[n].finalizer
          BY <4>1 DEF InstanceState
        <4>3. inst'[n] # Missing
          BY <4>1, <4>2, IsThere
        <4> HIDE DEF is
        <4> QED BY <2>1, <3>2, <4>1, <4>2, <4>3 DEF Tended, Held, Same
      <3> QED BY <3>1, <3>2
    <2>5. CASE AddFinalizer(n)
      BY <2>1, <2>5 DEF AddFinalizer
    <2> QED BY <2>3, <2>4, <2>5
  <1> QED BY <1>1, <1>2

LEMMA Stays ==
  ASSUME DataInv, UNCHANGED <<inst, volume, pods, pass>> PROVE DataInv'
  BY DEF DataInv, Tended, Held, Same, Backed, OwnData

\* A pod that stays, changes without changing hands, or goes.
LEMMA SamePods ==
  ASSUME OwnData, UNCHANGED volume,
         \A n \in Instances : pods'[n] # Missing =>
           pods[n] # Missing /\ pods'[n].owner = pods[n].owner
  PROVE  OwnData'
  BY DEF OwnData

LEMMA PodKeepsOwner ==
  ASSUME InstanceInv, NEW n \in Instances, pods[n] # Missing,
         \/ pods' = [pods EXCEPT ![n].terminating = TRUE]
         \/ pods' = [pods EXCEPT ![n].health = "ready"]
         \/ pods' = [pods EXCEPT ![n].health = "failed", ![n].failed = TRUE]
  PROVE  \A m \in Instances : pods'[m] # Missing =>
           pods[m] # Missing /\ pods'[m].owner = pods[m].owner
  <1>1. pods[n] \in PodState
    BY DEF InstanceInv, PodsInv, PodTypes
  <1>2. pods'[n].owner = pods[n].owner /\ \A m \in Instances \ {n} : pods'[m] = pods[m]
    BY <1>1 DEF InstanceInv, PodsInv, PodTypes, PodState
  <1> QED BY <1>2

\* A provisioning pass begins with an instance that is held.
LEMMA BeginData ==
  ASSUME InstanceInv, DataInv, NEW n \in Instances, BeginTeardown(n) \/ BeginProvision(n)
  PROVE  DataInv'
  <1>1. UNCHANGED <<inst, volume, pods>> /\ OwnData'
    BY DEF BeginTeardown, BeginProvision, DataInv, OwnData
  <1>2. CASE BeginTeardown(n)
    <2>1. pass'.step \in {"account", "release"}
      BY <1>2 DEF BeginTeardown
    <2> QED BY <1>1, <2>1, NotProvisioning DEF DataInv, Provisioning
  <1>3. CASE BeginProvision(n)
    <2>1. pass'.step = "volume" /\ pass'.name = n /\ pass'.uid = inst[n].uid
      BY <1>3 DEF BeginProvision
    <2>2. inst[n] # Missing /\ inst[n].finalizer
      BY <1>3 DEF BeginProvision, Alive
    <2> QED BY <1>1, <2>1, <2>2 DEF DataInv, Tended, Held, Same, Backed
  <1> QED BY <1>2, <1>3

LEMMA TeardownData ==
  ASSUME InstanceInv, DataInv, Revoke \/ Release PROVE DataInv'
  <1>1. UNCHANGED <<volume, pods>> /\ OwnData'
    BY DEF Revoke, Release, DataInv, OwnData
  <1>2. CASE Release
    BY <1>1, <1>2, PassEnded DEF Release, DataInv
  <1>3. CASE Revoke
    <2>1. pass.step # "rest" /\ \E s \in Revoking : PassMoves(s)
      BY <1>3 DEF Revoke, Revoking
    <2>2. pass'.step \in Revoking
      BY <2>1, Moved DEF InstanceInv
    <2> QED BY <1>1, <2>2, NotProvisioning DEF DataInv, Provisioning, Revoking
  <1> QED BY <1>2, <1>3

\* No pod of an instance is there while the volume is not.
LEMMA VolumeData ==
  ASSUME InstanceInv, DataInv, EnsureVolume PROVE DataInv'
  <1> DEFINE n == pass.name
  <1>1. pass.step = "volume" /\ n \in Instances /\ pass.step \in Provisioning /\ UNCHANGED pods
    BY AtWork DEF EnsureVolume, InstanceInv, PassState, Provisioning
  <1>2. CASE PassEnds /\ UNCHANGED volume
    BY <1>1, <1>2, PassEnded DEF DataInv, OwnData
  <1>3. CASE PassMoves("pod") /\ UNCHANGED inst
    <2>1. pass'.step = "pod" /\ pass'.name = n /\ pass'.uid = pass.uid
      BY <1>1, <1>3, Moved DEF InstanceInv, Provisioning
    <2>2. Tended'
      BY <1>1, <1>3, <2>1, StillHeld DEF DataInv
    <2>3. CASE volume[n] = Missing /\ volume' = [volume EXCEPT ![n] = pass.uid]
      <3>1. /\ volume' = [m \in Instances |-> volume'[m]] /\ volume'[n] = pass.uid
            /\ \A m \in Instances \ {n} : volume'[m] = volume[m]
        BY <1>1, <2>3 DEF DataInv
      <3>2. pods[n] = Missing \/ pods[n].owner = Foreign
        <4>1. pods[n] # Missing => pods[n].owner \in Nat
          BY <1>1 DEF InstanceInv, PodsInv, PodTypes, PodState
        <4> QED BY <1>1, <2>3, <4>1, InstanceAssumption DEF DataInv, OwnData
      <3>3. OwnData'
        BY <1>1, <3>1, <3>2 DEF DataInv, OwnData
      <3> QED BY <2>1, <2>2, <3>1, <3>3 DEF DataInv, Backed
    <2>4. CASE OwnVolume(n) /\ UNCHANGED volume
      BY <1>1, <2>1, <2>2, <2>4 DEF DataInv, Backed, OwnVolume, OwnData
    <2> QED BY <1>3, <2>3, <2>4, <1>2 DEF EnsureVolume
  <1> QED BY <1>2, <1>3 DEF EnsureVolume

LEMMA ReadData == ASSUME InstanceInv, DataInv, ReadPod PROVE DataInv'
  <1>1. pass.step = "pod" /\ pass.step \in Provisioning /\ UNCHANGED <<volume, pods>>
    BY DEF ReadPod, Provisioning
  <1>2. pass \in PassState
    BY <1>1, AtWork DEF InstanceInv
  <1>3. OwnData'
    BY <1>1 DEF DataInv, OwnData
  <1>4. CASE PassEnds
    BY <1>1, <1>3, <1>4, PassEnded DEF DataInv
  <1>5. CASE ~PassEnds
    <2>1. UNCHANGED inst /\ pass'.name = pass.name /\ pass'.uid = pass.uid
      BY <1>2, <1>5 DEF ReadPod, PassEnds, PassMoves, PassState
    <2>2. Tended'
      BY <1>1, <2>1, StillHeld DEF DataInv
    <2>3. Backed'
      BY <1>1, <2>1 DEF DataInv, Backed
    <2> QED BY <1>1, <1>3, <2>2, <2>3 DEF DataInv
  <1> QED BY <1>4, <1>5

LEMMA CreateData == ASSUME InstanceInv, DataInv, CreatePod PROVE DataInv'
  <1> DEFINE n == pass.name
  <1>1. pass.step = "create" /\ pass.step \in Provisioning /\ UNCHANGED volume
    BY DEF CreatePod, Provisioning
  <1>2. n \in Instances /\ pass.uid \in Nat /\ pass.rev \in Nat \cup {Missing}
    BY <1>1, AtWork DEF InstanceInv, PassState
  <1>3. CASE PassEnds /\ UNCHANGED pods
    BY <1>1, <1>3, PassEnded DEF DataInv, OwnData
  <1>4. CASE /\ pods' = [pods EXCEPT ![n] = NewPod(pass.uid, pass.rev)]
             /\ PassMoves("observe") /\ UNCHANGED inst
    <2>1. pass'.step = "observe" /\ pass'.name = n /\ pass'.uid = pass.uid
      BY <1>1, <1>4, Moved DEF InstanceInv, Provisioning
    <2>2. Tended' /\ Backed'
      BY <1>1, <1>4, <2>1, StillHeld DEF DataInv, Backed
    <2>3. pods'[n].owner = volume[n] /\ \A m \in Instances \ {n} : pods'[m] = pods[m]
      BY <1>1, <1>2, <1>4, NewPodType DEF DataInv, Backed, InstanceInv, PodsInv, PodTypes
    <2>4. OwnData'
      BY <1>1, <2>3 DEF DataInv, OwnData
    <2> QED BY <1>1, <2>2, <2>4 DEF DataInv
  <1> QED BY <1>3, <1>4 DEF CreatePod

LEMMA LateData ==
  ASSUME InstanceInv, DataInv, ReplacePod \/ Observe \/ HealPod PROVE DataInv'
  <1>1. pass.step \in Provisioning /\ UNCHANGED volume
    BY DEF ReplacePod, Observe, HealPod, Provisioning
  <1>2. pass.name \in Instances
    BY <1>1, AtWork DEF InstanceInv, PassState, Provisioning
  <1>3. UNCHANGED pods \/ (/\ pods[pass.name] # Missing
                           /\ pods' = [pods EXCEPT ![pass.name].terminating = TRUE])
    BY DEF ReplacePod, Observe, HealPod, Deletes
  <1>4. OwnData'
    BY <1>1, <1>2, <1>3, PodKeepsOwner, SamePods DEF DataInv
  <1>5. CASE PassEnds
    BY <1>1, <1>4, <1>5, PassEnded DEF DataInv
  <1>6. CASE Observe /\ PassMoves("heal")
    <2>1. pass'.step = "heal" /\ pass'.name = pass.name /\ pass'.uid = pass.uid
      BY <1>1, <1>6, Moved DEF InstanceInv, Provisioning
    <2>2. \E p \in Phases : Phase(pass.name, p)
      <3> DEFINE is == IF pods[pass.name] = Missing THEN "starting" ELSE pods[pass.name].health
      <3>1. Phase(pass.name, CASE is = "ready" -> "Ready" [] is = "failed" -> "Failed"
                               [] OTHER -> "Creating")
        BY <1>6 DEF Observe
      <3> QED BY <3>1 DEF Phases
    <2> QED BY <1>1, <1>4, <2>1, <2>2, StillHeld DEF DataInv, Backed
  <1> QED BY <1>5, <1>6 DEF ReplacePod, Observe, HealPod

\* What Kubernetes collects has lost its owner, and is not in use.
LEMMA CollectData ==
  ASSUME InstanceInv, DataInv, NEW n \in Instances, Collect(n) PROVE DataInv'
  <1>1. UNCHANGED <<inst, pass>>
    BY DEF Collect
  <1>2. Tended'
    BY <1>1 DEF DataInv, Tended, Held, Same
  <1>3. CASE /\ pods[n] # Missing /\ UNCHANGED volume
             /\ pods' = [pods EXCEPT ![n].terminating = TRUE]
    <2>1. OwnData'
      BY <1>3, PodKeepsOwner, SamePods DEF DataInv
    <2> QED BY <1>1, <1>2, <1>3, <2>1 DEF DataInv, Backed
  <1>4. CASE /\ Orphan(volume[n]) /\ ~Mounted(n) /\ UNCHANGED pods
             /\ volume' = [volume EXCEPT ![n] = Missing]
    <2>1. /\ volume' = [m \in Instances |-> volume'[m]]
          /\ \A m \in Instances \ {n} : volume'[m] = volume[m]
      BY <1>4 DEF DataInv
    <2>2. OwnData'
      BY <1>4, <2>1 DEF DataInv, OwnData, Mounted
    <2>3. Backed'
      <3>1. CASE pass.step \in {"pod", "create"}
        <4>1. pass.name \in Instances
          BY <3>1, AtWork DEF InstanceInv, PassState
        <4>2. Held /\ volume[pass.name] = pass.uid
          BY <3>1 DEF DataInv, Tended, Backed, Provisioning
        <4>3. volume[pass.name] \in Uids
          BY <4>1, <4>2 DEF Held, Same, Uids
        <4>4. n # pass.name
          BY <1>4, <4>3 DEF Orphan
        <4> QED BY <1>1, <2>1, <4>1, <4>2, <4>4 DEF Backed
      <3>2. CASE pass.step \notin {"pod", "create"}
        BY <1>1, <3>2 DEF Backed
      <3> QED BY <3>1, <3>2
    <2> QED BY <1>2, <2>1, <2>2, <2>3 DEF DataInv
  <1> QED BY <1>3, <1>4 DEF Collect

LEMMA PodData ==
  ASSUME InstanceInv, DataInv, NEW n \in Instances,
         PodStops(n) \/ PodStarts(n) \/ PodFails(n) \/ PodRecovers(n) \/ ForeignPod(n)
  PROVE  DataInv'
  <1>1. UNCHANGED <<inst, volume, pass>>
    BY DEF PodStops, PodStarts, PodFails, PodRecovers, ForeignPod
  <1>2. OwnData'
    <2>1. CASE PodStarts(n) \/ PodFails(n) \/ PodRecovers(n)
      BY <1>1, <2>1, PodKeepsOwner, SamePods DEF PodStarts, PodFails, PodRecovers, DataInv
    <2>2. CASE PodStops(n)
      <3>1. \A m \in Instances : pods'[m] # Missing => pods'[m] = pods[m]
        BY <2>2 DEF PodStops, InstanceInv, PodsInv, PodTypes
      <3> QED BY <1>1, <3>1, SamePods DEF DataInv
    <2>3. CASE ForeignPod(n)
      <3>1. Foreign \in Nat /\ Missing \in Nat \cup {Missing}
        BY DEF Foreign
      <3>2. pods'[n].owner = Foreign /\ \A m \in Instances \ {n} : pods'[m] = pods[m]
        BY <2>3, <3>1, NewPodType DEF ForeignPod, InstanceInv, PodsInv, PodTypes
      <3> QED BY <1>1, <3>2 DEF DataInv, OwnData
    <2> QED BY <2>1, <2>2, <2>3
  <1> QED BY <1>1, <1>2 DEF DataInv, Tended, Held, Same, Backed

LEMMA DataInvStep ==
  ASSUME InstanceInv, DataInv, [InstanceNext]_instanceVars PROVE DataInv'
  <1>1. ASSUME NEW n \in Instances,
               CreateInstance(n) \/ DeleteInstance(n) \/ AddFinalizer(n)
        PROVE  DataInv'
    <2>1. Tended'
      BY <1>1, UserHolds DEF DataInv
    <2>2. UNCHANGED <<volume, pods, pass>>
      BY <1>1 DEF CreateInstance, DeleteInstance, AddFinalizer
    <2> QED BY <2>1, <2>2 DEF DataInv, Backed, OwnData
  <1>2. CASE PassStep
    BY <1>1, <1>2, BeginData, TeardownData, VolumeData, ReadData, CreateData, LateData
       DEF PassStep, Turn, WorkStep
  <1>3. CASE PassFails
    BY <1>3, PassEnded DEF PassFails, DataInv, OwnData
  <1>4. CASE BootStep \/ BootFails \/ EditBindings \/ FillToken \/ DropToken
    BY <1>4, Stays DEF BootStep, ListUsers, MintAccount, MintBindings, MintToken, ReadToken,
       MintKubeconfig, Prune, BootFails, EditBindings, FillToken, DropToken
  <1>5. ASSUME NEW n \in Instances,
               \/ Collect(n) \/ PodStops(n) \/ PodStarts(n)
               \/ PodFails(n) \/ PodRecovers(n) \/ ForeignPod(n)
        PROVE  DataInv'
    BY <1>5, CollectData, PodData
  <1>6. CASE UNCHANGED instanceVars
    BY <1>6, Stays DEF instanceVars
  <1> QED BY <1>1, <1>2, <1>3, <1>4, <1>5, <1>6
          DEF InstanceNext, ClusterStep, OtherStep

\* OwnData, for any finite number of instances and any number of re-creations under one
\* name: no pod of an instance runs on a volume of another one.
THEOREM OwnDataCorrect == InstanceSpec => []OwnData
  <1>1. InstanceInit => InstanceInv /\ DataInv
    BY InstanceInvInit, DataInvInit
  <1>2. InstanceInv /\ DataInv /\ [InstanceNext]_instanceVars => (InstanceInv /\ DataInv)'
    BY InstanceTypeStep, PodsInvStep, DataInvStep DEF InstanceInv
  <1>3. DataInv => OwnData
    BY DEF DataInv
  <1> QED BY <1>1, <1>2, <1>3, PTL DEF InstanceSpec
=============================================================================
