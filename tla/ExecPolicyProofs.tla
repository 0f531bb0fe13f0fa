-------------------------- MODULE ExecPolicyProofs --------------------------
(***************************************************************************)
(* Proofs about ExecPolicy, for any turns, rules and requests: one client, *)
(* nothing runs on a policy that was never applied, and no grant is lost.  *)
(***************************************************************************)
EXTENDS ExecPolicy, Integers, FiniteSetTheorems, TLAPS

-----------------------------------------------------------------------------
(* The grants.                                                             *)

Lists == {l \in UNION {[S -> Nat] : S \in SUBSET Rules} :
              IsFiniteSet(DOMAIN l) /\ Cardinality(DOMAIN l) <= MaxGrants}

LEMMA ListType ==
  ASSUME NEW l
  PROVE  l \in Lists <=> /\ l \in [DOMAIN l -> Nat] /\ DOMAIN l \subseteq Rules
                         /\ IsFiniteSet(DOMAIN l) /\ Cardinality(DOMAIN l) <= MaxGrants
  <1>1. ASSUME NEW S \in SUBSET Rules, l \in [S -> Nat]
        PROVE  l \in [DOMAIN l -> Nat] /\ DOMAIN l \subseteq Rules
    BY <1>1
  <1> QED BY <1>1 DEF Lists

LEMMA NoGrantsType == NoGrants \in Lists /\ DOMAIN NoGrants = {}
  <1>1. NoGrants \in [{} -> Nat] /\ DOMAIN NoGrants = {}
    BY DEF NoGrants
  <1>2. IsFiniteSet({}) /\ Cardinality({}) <= MaxGrants
    BY FS_EmptySet, ExecAssumption
  <1> QED BY <1>1, <1>2, ListType

LEMMA ListRemove ==
  ASSUME NEW l \in Lists, NEW r
  PROVE  /\ Without(l, r) \in Lists /\ DOMAIN Without(l, r) = DOMAIN l \ {r}
         /\ \A s \in DOMAIN l \ {r} : Without(l, r)[s] = l[s]
  <1> DEFINE w == Without(l, r)
  <1>1. /\ l \in [DOMAIN l -> Nat] /\ DOMAIN l \subseteq Rules
        /\ IsFiniteSet(DOMAIN l) /\ Cardinality(DOMAIN l) <= MaxGrants
    BY ListType
  <1>2. /\ DOMAIN w = DOMAIN l \ {r} /\ w \in [DOMAIN l \ {r} -> Nat]
        /\ \A s \in DOMAIN l \ {r} : w[s] = l[s]
    BY <1>1 DEF Without, Restrict
  <1>3. Cardinality(DOMAIN l) \in Nat /\ IsFiniteSet(DOMAIN w)
        /\ Cardinality(DOMAIN w) <= Cardinality(DOMAIN l)
        /\ Cardinality(DOMAIN w) \in Nat
    BY <1>1, <1>2, FS_Subset, FS_CardinalityType
  <1> HIDE DEF w
  <1>4. w \in Lists
    BY <1>1, <1>2, <1>3, ListType, ExecAssumption
  <1> QED BY <1>2, <1>4 DEF w

LEMMA ListWith ==
  ASSUME NEW l \in Lists, NEW r \in Rules, r \notin DOMAIN l, NEW now \in Nat
  PROVE  LET w == With(l, r, now) IN
         /\ w \in [DOMAIN w -> Nat] /\ DOMAIN w = DOMAIN l \cup {r}
         /\ DOMAIN w \subseteq Rules
         /\ w[r] = now /\ \A s \in DOMAIN l : w[s] = l[s]
         /\ IsFiniteSet(DOMAIN w) /\ Cardinality(DOMAIN w) = Cardinality(DOMAIN l) + 1
  <1> DEFINE w == With(l, r, now)
  <1>1. /\ l \in [DOMAIN l -> Nat] /\ DOMAIN l \subseteq Rules /\ IsFiniteSet(DOMAIN l)
    BY ListType
  <1>2. /\ w \in [DOMAIN l \cup {r} -> Nat] /\ DOMAIN w = DOMAIN l \cup {r}
        /\ w[r] = now /\ \A s \in DOMAIN l : w[s] = l[s]
    BY <1>1 DEF With
  <1>3. IsFiniteSet(DOMAIN w) /\ Cardinality(DOMAIN w) = Cardinality(DOMAIN l) + 1
    BY <1>1, <1>2, FS_AddElement
  <1> QED BY <1>1, <1>2, <1>3

\* What evict leaves of a list with one rule more: nothing is dropped unless the cap is
\* reached, and then the oldest.
LEMMA ListAdd ==
  ASSUME NEW l \in Lists, NEW r \in Rules, r \notin DOMAIN l, NEW now \in Nat,
         NEW new \in Evicted(With(l, r, now))
  PROVE  /\ new \in Lists /\ DOMAIN new \subseteq DOMAIN l \cup {r}
         /\ r \in DOMAIN new => new[r] = now
         /\ \A s \in DOMAIN new \cap DOMAIN l : new[s] = l[s]
         /\ DOMAIN l \ DOMAIN new # {} => Cardinality(DOMAIN new) = MaxGrants
         /\ \A s \in DOMAIN l \ DOMAIN new, k \in DOMAIN new : l[s] <= new[k]
  <1> DEFINE w == With(l, r, now)
  <1>1. /\ Cardinality(DOMAIN l) \in Nat /\ Cardinality(DOMAIN l) <= MaxGrants
        /\ MaxGrants \in Nat
    BY ListType, FS_CardinalityType, ExecAssumption
  <1>2. /\ w \in [DOMAIN w -> Nat] /\ DOMAIN w = DOMAIN l \cup {r}
        /\ DOMAIN w \subseteq Rules
        /\ w[r] = now /\ \A s \in DOMAIN l : w[s] = l[s]
        /\ IsFiniteSet(DOMAIN w) /\ Cardinality(DOMAIN w) = Cardinality(DOMAIN l) + 1
    BY ListWith
  <1>3. new \in Evicted(w)
    OBVIOUS
  <1> HIDE DEF w
  <1>4. CASE Cardinality(DOMAIN w) <= MaxGrants
    <2>1. new = w
      BY <1>3, <1>4 DEF Evicted
    <2>2. new \in Lists
      BY <1>2, <1>4, <2>1, ListType
    <2> QED BY <1>2, <2>1, <2>2
  <1>5. CASE ~(Cardinality(DOMAIN w) <= MaxGrants)
    <2>1. PICK o \in Oldest(w) : new = Without(w, o)
      BY <1>3, <1>5 DEF Evicted
    <2>2. o \in DOMAIN w /\ \A s \in DOMAIN w : w[o] <= w[s]
      BY <2>1 DEF Oldest
    <2>3. /\ DOMAIN new = DOMAIN w \ {o} /\ new \in [DOMAIN w \ {o} -> Nat]
          /\ \A s \in DOMAIN w \ {o} : new[s] = w[s]
      BY <1>2, <2>1 DEF Without, Restrict
    <2>4. Cardinality(DOMAIN w) = MaxGrants + 1
      BY <1>1, <1>2, <1>5
    <2>5. IsFiniteSet(DOMAIN new) /\ Cardinality(DOMAIN new) = MaxGrants
      <3>1. IsFiniteSet(DOMAIN w \ {o}) /\ Cardinality(DOMAIN w \ {o}) = Cardinality(DOMAIN w) - 1
        BY <1>2, <2>2, FS_RemoveElement
      <3> QED BY <1>1, <2>3, <2>4, <3>1
    <2>6. new \in Lists
      BY <1>1, <1>2, <2>3, <2>5, ListType
    <2>7. \A s \in DOMAIN l \ DOMAIN new, k \in DOMAIN new : l[s] <= new[k]
      BY <1>2, <2>2, <2>3
    <2> QED BY <1>2, <2>3, <2>5, <2>6, <2>7
  <1> QED BY <1>4, <1>5

Busy == [step : {"read", "write"}, op : {"add", "remove"}, rule : Rules, at : Nat,
         left : Int, seen : Nat, data : Lists]

EditState == [step : {"idle", "done"}] \cup Busy

\* What a request has read is the list still, unless the resource version has moved on;
\* and the rule is not there yet, or still there.
Snapshot(e) ==
    EditAt(e, "write") =>
      /\ edit[e].seen <= grantsRev
      /\ edit[e].seen = grantsRev => edit[e].data = grants
      /\ (edit[e].op = "remove") = (edit[e].rule \in DOMAIN edit[e].data)

\* The time of an Add is one that the clock showed.
Stamped(e) == EditAt(e, "read") \/ EditAt(e, "write") =>
                  (edit[e].op = "add" => edit[e].at \in Times)

StoreInv ==
    /\ mode \in Modes /\ grants \in Lists /\ grantsRev \in Nat
    /\ edit \in [Edits -> EditState]
    /\ kept \subseteq DOMAIN grants
    /\ \A e \in Edits : Snapshot(e) /\ Stamped(e)

LEMMA StoreInit == ExecInit => StoreInv
  <1> SUFFICES ASSUME ExecInit PROVE StoreInv
    OBVIOUS
  <1>1. edit \in [Edits -> EditState]
    BY DEF ExecInit, EditState
  <1>2. \A e \in Edits : Snapshot(e) /\ Stamped(e)
    BY DEF ExecInit, Snapshot, Stamped, EditAt
  <1> QED BY <1>1, <1>2, NoGrantsType DEF ExecInit, StoreInv, Modes

\* A request that takes a step leaves the snapshots of the others alone, while the list is.
LEMMA OwnEdit ==
  ASSUME StoreInv, NEW e \in Edits, NEW v \in EditState, EditBecomes(e, v),
         mode' \in Modes, UNCHANGED <<grants, grantsRev>>, kept' \subseteq DOMAIN grants,
         v.step = "write" => /\ v.seen = grantsRev /\ v.data = grants
                             /\ (v.op = "remove") = (v.rule \in DOMAIN grants),
         v.step \in {"read", "write"} => (v.op = "add" => v.at \in Times)
  PROVE  StoreInv'
  <1>1. edit' \in [Edits -> EditState] /\ edit'[e] = v
    BY DEF StoreInv, EditBecomes
  <1>2. ASSUME NEW f \in Edits PROVE (Snapshot(f) /\ Stamped(f))'
    <2>1. CASE f = e
      BY <1>1, <2>1 DEF StoreInv, Snapshot, Stamped, EditAt
    <2>2. CASE f # e
      <3>1. edit'[f] = edit[f]
        BY <2>2 DEF StoreInv, EditBecomes
      <3> QED BY <3>1 DEF StoreInv, Snapshot, Stamped, EditAt
    <2> QED BY <2>1, <2>2
  <1> QED BY <1>1, <1>2 DEF StoreInv

LEMMA Idle == [step |-> "done"] \in EditState
  BY DEF EditState

LEMMA Working ==
  ASSUME StoreInv, NEW e \in Edits, EditAt(e, "read") \/ EditAt(e, "write")
  PROVE  edit[e] \in Busy
  BY DEF StoreInv, EditState, EditAt

LEMMA BeginAddStep ==
  ASSUME StoreInv, NEW e \in Edits, NEW r \in Rules, NEW now \in Times, BeginAdd(e, r, now)
  PROVE  StoreInv'
  <1> DEFINE v == [step |-> "read", op |-> "add", rule |-> r, at |-> now,
                   left |-> Retries, seen |-> 0, data |-> NoGrants]
  <1>1. v \in EditState /\ v.step # "write" /\ v.at \in Times
    BY NoGrantsType, ExecAssumption DEF EditState, Busy
  <1> QED BY <1>1, OwnEdit DEF BeginAdd, StoreInv

LEMMA PutApprovalStep ==
  ASSUME StoreInv, NEW e \in Edits, NEW r \in Rules \cup {Absent}, NEW m \in Modes,
         PutApproval(e, r, m)
  PROVE  StoreInv'
  <1> DEFINE v == [step |-> "read", op |-> "remove", rule |-> r, at |-> 0,
                   left |-> Retries, seen |-> 0, data |-> NoGrants]
  <1>1. r # Absent => v \in EditState /\ v.step # "write" /\ v.op # "add"
    BY NoGrantsType, ExecAssumption DEF EditState, Busy
  <1>2. mode' \in Modes
    BY DEF PutApproval, StoreInv
  <1>3. CASE mode' = m /\ r # Absent
    <2>1. EditBecomes(e, v)
      BY <1>3 DEF PutApproval
    <2> HIDE DEF v
    <2> QED BY <1>1, <1>2, <1>3, <2>1, OwnEdit DEF PutApproval, StoreInv
  <1>4. CASE ~(mode' = m /\ r # Absent)
    <2>1. EditBecomes(e, [step |-> "done"])
      BY <1>4 DEF PutApproval
    <2> QED BY Idle, <1>2, <2>1, OwnEdit DEF PutApproval, StoreInv
  <1> QED BY <1>3, <1>4

LEMMA ReadGrantsStep == ASSUME StoreInv, NEW e \in Edits, ReadGrants(e) PROVE StoreInv'
  <1> DEFINE v == [edit[e] EXCEPT !.step = "write", !.seen = grantsRev, !.data = grants]
             there == Present(edit[e].rule)
             adds == edit[e].op = "add"
  <1>1. edit[e] \in Busy
    BY Working DEF ReadGrants
  <1>2. there \in BOOLEAN /\ adds \in BOOLEAN /\ (adds => edit[e].at \in Times)
    BY DEF Present, ReadGrants, StoreInv, Stamped
  <1>3. CASE there = adds
    <2>1. EditBecomes(e, [step |-> "done"])
      BY <1>3 DEF ReadGrants
    <2>2. kept' \subseteq DOMAIN grants
      <3>1. CASE adds
        BY <1>2, <1>3, <3>1 DEF ReadGrants, StoreInv, Present
      <3>2. CASE ~adds
        BY <3>2 DEF ReadGrants, StoreInv
      <3> QED BY <3>1, <3>2
    <2> QED BY Idle, <2>1, <2>2, OwnEdit DEF ReadGrants, StoreInv
  <1>4. CASE ~(there = adds)
    <2>1. EditBecomes(e, v) /\ kept' = kept
      BY <1>4 DEF ReadGrants
    <2>2. v \in EditState
      BY <1>1 DEF EditState, StoreInv, Busy
    <2>3. /\ v.seen = grantsRev /\ v.data = grants /\ v.op = edit[e].op
          /\ v.rule = edit[e].rule /\ v.at = edit[e].at
      BY <1>1 DEF Busy
    <2>4. (edit[e].op = "remove") = (edit[e].rule \in DOMAIN grants)
      <3>1. (edit[e].op = "remove") = ~adds
        BY <1>1 DEF Busy
      <3>2. there = (edit[e].rule \in DOMAIN grants)
        BY DEF Present
      <3> QED BY <1>2, <1>4, <3>1, <3>2
    <2> HIDE DEF v
    <2> QED BY <1>2, <2>1, <2>2, <2>3, <2>4, OwnEdit DEF ReadGrants, StoreInv
  <1> QED BY <1>3, <1>4

\* What a write makes of the list that it read.
LEMMA ChangedList ==
  ASSUME StoreInv, NEW e \in Edits, EditAt(e, "write"), NEW list \in Changed(e)
  PROVE  LET old == edit[e].data  rule == edit[e].rule IN
         /\ list \in Lists
         /\ \A s \in DOMAIN list \cap DOMAIN old : list[s] = old[s]
         /\ edit[e].op = "add" =>
              /\ rule \notin DOMAIN old /\ DOMAIN list \subseteq DOMAIN old \cup {rule}
              /\ rule \in DOMAIN list => list[rule] = edit[e].at
              /\ DOMAIN old \ DOMAIN list # {} => Cardinality(DOMAIN list) = MaxGrants
              /\ \A s \in DOMAIN old \ DOMAIN list, k \in DOMAIN list : old[s] <= list[k]
         /\ edit[e].op # "add" => /\ rule \in DOMAIN old
                                  /\ DOMAIN list = DOMAIN old \ {rule}
  <1> DEFINE old == edit[e].data
             rule == edit[e].rule
  <1>1. edit[e] \in Busy
    BY Working
  <1>2. old \in Lists /\ rule \in Rules /\ edit[e].op \in {"add", "remove"}
        /\ edit[e].at \in Nat
    BY <1>1 DEF Busy
  <1>3. (edit[e].op = "remove") = (rule \in DOMAIN old)
    BY DEF StoreInv, Snapshot
  <1>4. CASE edit[e].op = "add"
    <2>1. list \in Evicted(With(old, rule, edit[e].at)) /\ rule \notin DOMAIN old
      BY <1>3, <1>4 DEF Changed
    <2> HIDE DEF old, rule
    <2>2. /\ list \in Lists /\ DOMAIN list \subseteq DOMAIN old \cup {rule}
          /\ rule \in DOMAIN list => list[rule] = edit[e].at
          /\ \A s \in DOMAIN list \cap DOMAIN old : list[s] = old[s]
          /\ DOMAIN old \ DOMAIN list # {} => Cardinality(DOMAIN list) = MaxGrants
          /\ \A s \in DOMAIN old \ DOMAIN list, k \in DOMAIN list : old[s] <= list[k]
      BY <1>2, <2>1, ListAdd
    <2> QED BY <1>4, <2>1, <2>2 DEF old, rule
  <1>5. CASE edit[e].op = "remove"
    <2>1. list = Without(old, rule) /\ rule \in DOMAIN old
      BY <1>3, <1>5 DEF Changed
    <2> HIDE DEF old, rule
    <2>2. /\ list \in Lists /\ DOMAIN list = DOMAIN old \ {rule}
          /\ \A s \in DOMAIN old \ {rule} : list[s] = old[s]
      BY <1>2, <2>1, ListRemove
    <2> QED BY <1>5, <2>1, <2>2 DEF old, rule
  <1> QED BY <1>2, <1>4, <1>5

\* A write that meets the list it has read: the other snapshots are out of date.
LEMMA CommitStep ==
  ASSUME StoreInv, NEW e \in Edits, EditAt(e, "write"), Unchanged(e),
         NEW list \in Changed(e), NEW reported, reported \subseteq DOMAIN list,
         CommitGrants(e, list, reported), EditBecomes(e, [step |-> "done"]), UNCHANGED mode
  PROVE  StoreInv'
  <1>1. edit[e].data = grants
    BY DEF StoreInv, Snapshot, Unchanged
  <1>2. list \in Lists
    BY ChangedList
  <1>3. /\ grants' \in Lists /\ grantsRev' = grantsRev + 1 /\ grantsRev' \in Nat
        /\ mode' \in Modes
    BY <1>2 DEF CommitGrants, StoreInv
  <1>4. kept' \subseteq DOMAIN grants'
    BY <1>1 DEF CommitGrants, StoreInv
  <1>5. edit' \in [Edits -> EditState] /\ edit'[e].step = "done"
    BY Idle DEF StoreInv, EditBecomes
  <1>6. ASSUME NEW f \in Edits PROVE (Snapshot(f) /\ Stamped(f))'
    <2>1. CASE f = e
      BY <1>5, <2>1 DEF Snapshot, Stamped, EditAt
    <2>2. CASE f # e
      <3>1. edit'[f] = edit[f]
        BY <2>2 DEF StoreInv, EditBecomes
      <3>2. ASSUME EditAt(f, "write")
            PROVE  /\ edit[f].seen <= grantsRev' /\ edit[f].seen # grantsRev'
                   /\ (edit[f].op = "remove") = (edit[f].rule \in DOMAIN edit[f].data)
        <4>1. edit[f].seen \in Nat
          BY <3>2, Working DEF Busy
        <4> QED BY <1>3, <3>2, <4>1 DEF StoreInv, Snapshot
      <3> QED BY <3>1, <3>2 DEF StoreInv, Snapshot, Stamped, EditAt
    <2> QED BY <2>1, <2>2
  <1> QED BY <1>3, <1>4, <1>5, <1>6 DEF StoreInv

LEMMA WriteGrantsStep == ASSUME StoreInv, NEW e \in Edits, WriteGrants(e) PROVE StoreInv'
  <1>1. EditAt(e, "write") /\ UNCHANGED mode
    BY DEF WriteGrants
  <1>2. edit[e] \in Busy /\ (edit[e].op = "add" => edit[e].at \in Times)
    BY <1>1, Working DEF StoreInv, Stamped
  <1>3. ASSUME NEW list \in Changed(e), ~Displaced(e, list), Unchanged(e),
               CommitGrants(e, list, IF edit[e].op = "add" THEN {edit[e].rule} ELSE {}),
               EditBecomes(e, [step |-> "done"])
        PROVE  StoreInv'
    BY <1>1, <1>3, CommitStep DEF Displaced
  <1>4. CASE /\ EditBecomes(e, IF edit[e].left = 1 THEN [step |-> "done"]
                               ELSE [edit[e] EXCEPT !.step = "read", !.left = @ - 1])
             /\ UNCHANGED <<grants, grantsRev, kept, breaks>>
    <2> DEFINE v == IF edit[e].left = 1 THEN [step |-> "done"]
                    ELSE [edit[e] EXCEPT !.step = "read", !.left = @ - 1]
    <2>1. /\ v \in EditState /\ v.step # "write"
          /\ v.step = "read" => (v.op = "add" => v.at \in Times)
      <3>1. CASE edit[e].left = 1
        BY <3>1, Idle
      <3>2. CASE edit[e].left # 1
        <4> DEFINE n == edit[e].left - 1
                   w == [edit[e] EXCEPT !.step = "read", !.left = n]
        <4>0. n \in Int
          BY <1>2 DEF Busy
        <4> HIDE DEF n
        <4>1. w \in Busy /\ w.step = "read" /\ w.op = edit[e].op /\ w.at = edit[e].at
          BY <1>2, <4>0 DEF Busy
        <4>2. v = w
          BY <3>2 DEF n
        <4> QED BY <1>2, <4>1, <4>2 DEF EditState
      <3> QED BY <3>1, <3>2
    <2>2. EditBecomes(e, v)
      BY <1>4
    <2> HIDE DEF v
    <2> QED BY <1>1, <1>4, <2>1, <2>2, OwnEdit DEF StoreInv
  <1>5. CASE /\ EditBecomes(e, [step |-> "done"])
             /\ UNCHANGED <<grants, grantsRev, kept>>
    BY <1>1, <1>5, Idle, OwnEdit DEF StoreInv
  <1>6. ASSUME NEW list \in Changed(e), Unchanged(e), CommitGrants(e, list, {}),
               EditBecomes(e, [step |-> "done"])
        PROVE  StoreInv'
    BY <1>1, <1>6, CommitStep
  <1> QED BY <1>3, <1>4, <1>5, <1>6 DEF WriteGrants

LEMMA OthersLeaveStore ==
  ASSUME NEW t \in Turns,
         Resolve(t) \/ TurnStep(t) \/ EndTurn(t) \/ LeaveQueue(t) \/ DialFails(t)
  PROVE  UNCHANGED storeVars
  BY DEF Resolve, ListGrants, TurnStep, EndTurn, LeaveQueue, DialFails, Reuse, Lock, Enter,
         Connect, NotPaired, Check, GetPolicy, SetPolicy, Mark

\* Only requests change the store.
LEMMA StoreSteps ==
  ASSUME [ExecNext]_execVars PROVE UNCHANGED storeVars \/ \E e \in Edits : EditStep(e)
  <1>1. CASE \E t \in Turns :
                 Resolve(t) \/ TurnStep(t) \/ EndTurn(t) \/ LeaveQueue(t) \/ DialFails(t)
    BY <1>1, OthersLeaveStore
  <1>2. CASE Approve \/ Probe
    BY <1>2 DEF Approve, Probe
  <1>3. CASE \E c \in live : LoseConnection(c)
    BY <1>3 DEF LoseConnection
  <1>4. CASE UNCHANGED execVars
    BY <1>4 DEF execVars
  <1> QED BY <1>1, <1>2, <1>3, <1>4 DEF ExecNext

LEMMA StoreInvStep == ASSUME StoreInv, [ExecNext]_execVars PROVE StoreInv'
  <1>1. CASE UNCHANGED storeVars
    BY <1>1 DEF storeVars, StoreInv, Snapshot, Stamped, EditAt
  <1>2. ASSUME NEW e \in Edits, EditStep(e) PROVE StoreInv'
    BY <1>2, BeginAddStep, PutApprovalStep, ReadGrantsStep, WriteGrantsStep DEF EditStep
  <1> QED BY <1>1, <1>2, StoreSteps

\* GrantsKept, for any requests, rules, times and cap: a rule that an Add has reported as
\* stored is not lost to a write that read the list before it.
THEOREM GrantsKeptCorrect == ExecSpec => []GrantsKept
  <1>1. ExecInit => StoreInv
    BY StoreInit
  <1>2. StoreInv /\ [ExecNext]_execVars => StoreInv'
    BY StoreInvStep
  <1>3. StoreInv => GrantsKept
    BY ListType DEF StoreInv, GrantsKept
  <1> QED BY <1>1, <1>2, <1>3, PTL DEF ExecSpec

-----------------------------------------------------------------------------
(* The store implements GrantList.                                         *)

\* The set sizes that GrantList counts are the same.
LEMMA SameSize == ASSUME NEW S PROVE List!Cardinality(S) = Cardinality(S)
  BY DEF List!Cardinality, Cardinality, List!IsFiniteSet, IsFiniteSet

\* The write that finds the list as it was read is the one step in which it changes.
LEMMA CommitIsAtomic ==
  ASSUME StoreInv, NEW e \in Edits, EditAt(e, "write"), Unchanged(e),
         NEW list \in Changed(e), ~Displaced(e, list),
         NEW reported \in {{}, {edit[e].rule}}, edit[e].op # "add" => reported = {},
         CommitGrants(e, list, reported)
  PROVE  List!Next
  <1> DEFINE rule == edit[e].rule
  <1>1. /\ edit[e].data = grants /\ edit[e] \in Busy
        /\ edit[e].op = "add" => edit[e].at \in Times
    BY Working DEF StoreInv, Snapshot, Stamped, Unchanged
  <1>2. grants' = list /\ list \in Lists /\ rule \in Rules
    BY <1>1, ChangedList DEF CommitGrants, Busy
  <1>3. List!SameAge
    BY <1>1, <1>2, ChangedList DEF List!SameAge
  <1>4. List!Tells(reported)
    BY <1>1, <1>2 DEF CommitGrants, StoreInv, List!Tells
  <1>5. CASE edit[e].op = "add"
    <2>1. /\ rule \notin DOMAIN grants /\ DOMAIN list \subseteq DOMAIN grants \cup {rule}
          /\ rule \in DOMAIN list => list[rule] = edit[e].at
          /\ DOMAIN grants \ DOMAIN list # {} => Cardinality(DOMAIN list) = MaxGrants
          /\ \A s \in DOMAIN grants \ DOMAIN list, k \in DOMAIN list : grants[s] <= list[k]
      BY <1>1, <1>5, ChangedList
    <2>2. rule \in DOMAIN list
      BY <1>5 DEF Displaced
    <2>3. Cardinality(DOMAIN list) <= MaxGrants
      BY <1>2, ListType
    <2>4. List!Tells({}) \/ List!Tells({rule})
      BY <1>4
    <2> HIDE DEF rule
    <2>5. List!Grant(rule, edit[e].at)
      BY <1>2, <1>3, <2>1, <2>2, <2>3, <2>4, SameSize DEF List!Grant
    <2> QED BY <1>1, <1>2, <1>5, <2>5 DEF List!Next
  <1>6. CASE edit[e].op # "add"
    <2>1. rule \in DOMAIN grants /\ DOMAIN list = DOMAIN grants \ {rule}
      BY <1>1, <1>6, ChangedList
    <2> HIDE DEF rule
    <2>2. List!Revoke(rule)
      BY <1>2, <1>3, <1>4, <1>6, <2>1 DEF List!Revoke
    <2> QED BY <1>2, <2>2 DEF List!Next
  <1> QED BY <1>5, <1>6

LEMMA EditIsAtomic ==
  ASSUME StoreInv, NEW e \in Edits, EditStep(e) PROVE [List!Next]_<<grants, kept>>
  <1>1. CASE UNCHANGED <<grants, kept>>
    BY <1>1
  <1>2. CASE \E rule \in Rules, now \in Times : BeginAdd(e, rule, now)
    BY <1>2 DEF BeginAdd
  <1>3. CASE \E rule \in Rules \cup {Absent}, m \in Modes : PutApproval(e, rule, m)
    BY <1>3 DEF PutApproval
  <1>4. CASE ReadGrants(e)
    <2>1. edit[e].rule \in Rules
      BY <1>4, Working DEF ReadGrants, Busy
    <2>2. CASE Present(edit[e].rule) /\ edit[e].op = "add"
      <3>1. kept' = kept \cup {edit[e].rule} /\ grants' = grants
        BY <1>4, <2>2 DEF ReadGrants, Present
      <3>2. List!Confirm(edit[e].rule)
        BY <2>2, <3>1 DEF List!Confirm, List!Tells, StoreInv, Present
      <3> QED BY <2>1, <3>2 DEF List!Next
    <2>3. CASE ~(Present(edit[e].rule) /\ edit[e].op = "add")
      <3>1. UNCHANGED <<grants, kept>>
        BY <1>4, <2>3 DEF ReadGrants, Present
      <3> QED BY <3>1
    <2> QED BY <2>2, <2>3
  <1>5. CASE WriteGrants(e)
    <2>1. EditAt(e, "write")
      BY <1>5 DEF WriteGrants
    <2>2. ASSUME NEW list \in Changed(e), ~Displaced(e, list), Unchanged(e),
                 CommitGrants(e, list, IF edit[e].op = "add" THEN {edit[e].rule} ELSE {})
          PROVE  List!Next
      BY <2>1, <2>2, CommitIsAtomic
    <2>3. ASSUME NEW list \in Changed(e), ~Displaced(e, list), Unchanged(e),
                 CommitGrants(e, list, {})
          PROVE  List!Next
      BY <2>1, <2>3, CommitIsAtomic
    <2> QED BY <1>5, <2>2, <2>3 DEF WriteGrants
  <1> QED BY <1>2, <1>3, <1>4, <1>5 DEF EditStep

\* GrantsAtomic, for any requests, rules, times and cap: the optimistic read, change and
\* write of Add and Remove implements a store that changes its list in one step.
THEOREM GrantsAtomicCorrect == ExecSpec => GrantsAtomic
  <1>1. ExecInit => StoreInv /\ List!Init
    BY StoreInit, NoGrantsType DEF ExecInit, List!Init
  <1>2. StoreInv /\ [ExecNext]_execVars => StoreInv'
    BY StoreInvStep
  <1>3. StoreInv /\ [ExecNext]_execVars => [List!Next]_<<grants, kept>>
    <2> SUFFICES ASSUME StoreInv, [ExecNext]_execVars PROVE [List!Next]_<<grants, kept>>
      OBVIOUS
    <2>1. CASE UNCHANGED storeVars
      BY <2>1 DEF storeVars
    <2> QED BY <2>1, StoreSteps, EditIsAtomic
  <1> QED BY <1>1, <1>2, <1>3, PTL DEF ExecSpec, GrantsAtomic, List!Spec

-----------------------------------------------------------------------------
(* What was applied.                                                       *)

Policies == [mode : Modes, allow : SUBSET Rules]

TurnState ==
    [step : {"resolve", "conn", "wait", "dial", "check", "get", "set", "mark", "run"},
     want : Policies, client : Nat, left : Int, hash : (SUBSET Rules) \cup {Absent}]

\* A turn that is past the set, and so remembers its policy or runs on it.
Past(t) == TurnAt(t, "mark") \/ TurnAt(t, "run")

AppliedInv ==
    /\ turn \in [Turns -> {Ended} \cup TurnState]
    /\ entry \in Nat /\ enforced \in (SUBSET Rules) \cup {Absent}
    /\ revPol # Absent => revPol \in applied
    /\ \A t \in Turns : Past(t) => turn[t].want \in applied

LEMMA AppliedInit == ExecInit => AppliedInv
  BY DEF ExecInit, AppliedInv, Past, TurnAt, Ended

LEMMA Started ==
  ASSUME AppliedInv, NEW t \in Turns, ~TurnAt(t, "idle") PROVE turn[t] \in TurnState
  BY DEF AppliedInv, TurnAt, Ended

LEMMA PolicyType == ASSUME StoreInv, NEW m \in Modes PROVE PolicyUnder(m) \in Policies
  <1>1. DOMAIN grants \subseteq Rules
    BY ListType DEF StoreInv
  <1> QED BY <1>1 DEF PolicyUnder, Policies

\* With the grants read, a turn has its policy.
Knows(t) == turn' = [turn EXCEPT ![t] = [turn[t] EXCEPT !.step = "conn",
                                                        !.want = PolicyUnder(turn[t].want.mode)]]

\* A step of one turn: what was applied stays so, and the turn gets past the set only
\* with a policy that was.
LEMMA OwnTurn ==
  ASSUME AppliedInv, NEW t \in Turns, NEW v \in {Ended} \cup TurnState,
         turn' = [turn EXCEPT ![t] = v],
         v.step \in {"mark", "run"} => v.want \in applied',
         applied \subseteq applied', revPol' # Absent => revPol' \in applied',
         entry' \in Nat, enforced' \in (SUBSET Rules) \cup {Absent}
  PROVE  AppliedInv'
  <1>1. turn' \in [Turns -> {Ended} \cup TurnState] /\ turn'[t] = v
    BY DEF AppliedInv
  <1>2. ASSUME NEW u \in Turns, Past(u)' PROVE turn'[u].want \in applied'
    <2>1. CASE u = t
      BY <1>1, <1>2, <2>1 DEF Past, TurnAt
    <2>2. CASE u # t
      <3>1. turn'[u] = turn[u]
        BY <2>2 DEF AppliedInv
      <3> QED BY <1>2, <3>1 DEF AppliedInv, Past, TurnAt
    <2> QED BY <2>1, <2>2
  <1> QED BY <1>1, <1>2 DEF AppliedInv

LEMMA EndsStep ==
  ASSUME AppliedInv, NEW t \in Turns, Ends(t), UNCHANGED <<entry, pushVars>>
  PROVE  AppliedInv'
  <1>1. Ended.step = "idle"
    BY DEF Ended
  <1> QED BY <1>1, OwnTurn DEF Ends, pushVars, AppliedInv

\* Before the set, a turn that goes on has nothing to show.
LEMMA EarlyStep ==
  ASSUME AppliedInv, NEW t \in Turns, NEW v \in TurnState, v.step \notin {"mark", "run"},
         turn' = [turn EXCEPT ![t] = v], entry' \in Nat, UNCHANGED pushVars
  PROVE  AppliedInv'
  BY OwnTurn DEF pushVars, AppliedInv

\* Before it checks the policy, a turn waits, dials or takes a client.
Connects(t, s, c) == turn' = [turn EXCEPT ![t] = [turn[t] EXCEPT !.step = s, !.client = c]]

LEMMA ConnectsStep ==
  ASSUME AppliedInv, NEW t \in Turns, ~TurnAt(t, "idle"),
         NEW s \in {"check", "wait", "dial"}, NEW c \in Nat, Connects(t, s, c),
         entry' \in Nat, UNCHANGED pushVars
  PROVE  AppliedInv'
  <1> DEFINE v == [turn[t] EXCEPT !.step = s, !.client = c]
  <1>1. turn[t] \in TurnState
    BY Started
  <1>2. v \in TurnState /\ v.step = s
    BY <1>1 DEF TurnState
  <1>3. turn' = [turn EXCEPT ![t] = v]
    BY DEF Connects
  <1> HIDE DEF v
  <1> QED BY <1>2, <1>3, EarlyStep

LEMMA ConnectsForms ==
  ASSUME AppliedInv, NEW t \in Turns, ~TurnAt(t, "idle")
  PROVE  /\ turn[t].client \in Nat
         /\ \A s \in {"wait", "check"} : Moves(t, s) => Connects(t, s, turn[t].client)
         /\ Takes(t) => Connects(t, "check", entry)
  <1>1. turn[t] \in TurnState
    BY Started
  <1>2. turn[t].client \in Nat
    BY <1>1 DEF TurnState
  <1>3. ASSUME NEW s \in {"wait", "check"}, Moves(t, s)
        PROVE  Connects(t, s, turn[t].client)
    <2>1. [turn[t] EXCEPT !.step = s]
            = [turn[t] EXCEPT !.step = s, !.client = turn[t].client]
      BY <1>1 DEF TurnState
    <2> QED BY <1>3, <2>1 DEF Moves, Connects, AppliedInv
  <1>4. ASSUME Takes(t) PROVE Connects(t, "check", entry)
    BY <1>4 DEF Takes, Connects, AppliedInv
  <1> QED BY <1>2, <1>3, <1>4

LEMMA ConnectionSteps ==
  ASSUME AppliedInv, StoreInv, NEW t \in Turns,
         Resolve(t) \/ ListGrants(t) \/ Reuse(t) \/ Lock(t) \/ Enter(t) \/ Connect(t)
  PROVE  AppliedInv'
  <1>1. CASE Resolve(t)
    <2> DEFINE v == [step |-> "resolve", want |-> [mode |-> mode, allow |-> {}], client |-> 0,
                     left |-> Attempts, hash |-> Absent]
    <2>1. v \in TurnState /\ v.step = "resolve"
      BY ExecAssumption DEF TurnState, Policies, StoreInv
    <2>2. turn' = [turn EXCEPT ![t] = v] /\ UNCHANGED <<entry, pushVars>>
      BY <1>1 DEF Resolve, poolVars
    <2> HIDE DEF v
    <2> QED BY <2>1, <2>2, EarlyStep DEF AppliedInv
  <1>3. CASE ListGrants(t)
    <2>1. UNCHANGED <<entry, pushVars>> /\ (Knows(t) \/ Ends(t))
      BY <1>3 DEF ListGrants, Knows, poolVars, AppliedInv
    <2>2. CASE Knows(t)
      <3> DEFINE v == [turn[t] EXCEPT !.step = "conn", !.want = PolicyUnder(turn[t].want.mode)]
      <3>1. turn[t] \in TurnState
        BY <1>3, Started DEF ListGrants, TurnAt
      <3>2. turn[t].want.mode \in Modes
        BY <3>1 DEF TurnState, Policies
      <3>3. v \in TurnState /\ v.step = "conn"
        BY <3>1, <3>2, PolicyType DEF TurnState
      <3>4. turn' = [turn EXCEPT ![t] = v]
        BY <2>2 DEF Knows
      <3> HIDE DEF v
      <3> QED BY <2>1, <3>3, <3>4, EarlyStep DEF AppliedInv
    <2> QED BY <2>1, <2>2, EndsStep
  <1>2. CASE Reuse(t) \/ Lock(t) \/ Enter(t) \/ Connect(t)
    <2>1. ~TurnAt(t, "idle") /\ UNCHANGED pushVars /\ entry \in Nat
      BY <1>2 DEF Reuse, Lock, Enter, Connect, TurnAt, AppliedInv
    <2>2. \/ entry' = entry /\ (Moves(t, "wait") \/ Moves(t, "check") \/ Takes(t))
          \/ entry' = entry + 1 /\ Connects(t, "dial", entry + 1)
      <3>1. CASE Reuse(t) \/ Lock(t) \/ Connect(t)
        BY <3>1 DEF Reuse, Lock, Connect, poolVars
      <3>2. CASE Enter(t) /\ Dialled
        BY <3>2 DEF Enter
      <3>3. CASE Enter(t) /\ ~Dialled
        BY <3>3 DEF Enter, Connects, AppliedInv
      <3> QED BY <1>2, <3>1, <3>2, <3>3
    <2>3. entry' \in Nat /\ entry + 1 \in Nat
      BY <2>1, <2>2
    <2>4. CASE Connects(t, "dial", entry + 1)
      BY <2>1, <2>3, <2>4, ConnectsStep
    <2>5. CASE Moves(t, "wait") \/ Moves(t, "check") \/ Takes(t)
      BY <2>1, <2>3, <2>5, ConnectsStep, ConnectsForms
    <2> QED BY <2>2, <2>4, <2>5
  <1> QED BY <1>1, <1>2, <1>3

LEMMA RoundFailsStep ==
  ASSUME AppliedInv, NEW t \in Turns, TurnAt(t, "get") \/ TurnAt(t, "set"), RoundFails(t),
         applied \subseteq applied', enforced' \in (SUBSET Rules) \cup {Absent},
         UNCHANGED <<entry, revPol>>
  PROVE  AppliedInv'
  <1> DEFINE v == IF turn[t].left = 1 THEN Ended
                  ELSE [turn[t] EXCEPT !.step = "get", !.left = @ - 1]
  <1>1. turn[t] \in TurnState
    BY Started DEF TurnAt
  <1>2. v \in {Ended} \cup TurnState /\ v.step \notin {"mark", "run"}
    <2>1. CASE turn[t].left = 1
      BY <2>1 DEF Ended
    <2>2. CASE turn[t].left # 1
      <3> DEFINE n == turn[t].left - 1
      <3>1. n \in Int
        BY <1>1 DEF TurnState
      <3>2. v = [turn[t] EXCEPT !.step = "get", !.left = n]
        BY <2>2
      <3> HIDE DEF n, v
      <3>3. [turn[t] EXCEPT !.step = "get", !.left = n] \in TurnState
        BY <1>1, <3>1 DEF TurnState
      <3>4. [turn[t] EXCEPT !.step = "get", !.left = n].step = "get"
        BY <1>1 DEF TurnState
      <3> QED BY <3>2, <3>3, <3>4
    <2> QED BY <2>1, <2>2
  <1>3. turn' = [turn EXCEPT ![t] = v]
    <2>1. t \in DOMAIN turn
      BY DEF AppliedInv
    <2>2. CASE turn[t].left = 1
      BY <2>1, <2>2 DEF RoundFails
    <2>3. CASE turn[t].left # 1
      BY <2>1, <2>3 DEF RoundFails
    <2> QED BY <2>2, <2>3
  <1> HIDE DEF v
  <1> QED BY <1>2, <1>3, OwnTurn DEF AppliedInv

LEMMA PushSteps ==
  ASSUME AppliedInv, NEW t \in Turns,
         Check(t) \/ GetPolicy(t) \/ SetPolicy(t) \/ Mark(t)
  PROVE  AppliedInv'
  <1>1. turn[t] \in TurnState
    BY Started DEF Check, GetPolicy, SetPolicy, Mark, TurnAt
  <1>2. turn[t].want.allow \in SUBSET Rules /\ entry \in Nat
    BY <1>1 DEF TurnState, Policies, AppliedInv
  <1>3. ASSUME NEW s \in {"get", "mark", "run"}, Moves(t, s)
        PROVE  /\ [turn[t] EXCEPT !.step = s] \in TurnState
               /\ [turn[t] EXCEPT !.step = s].step = s
               /\ [turn[t] EXCEPT !.step = s].want = turn[t].want
               /\ turn' = [turn EXCEPT ![t] = [turn[t] EXCEPT !.step = s]]
    BY <1>1, <1>3 DEF TurnState, Moves, AppliedInv
  <1>4. CASE Check(t)
    <2>1. turn[t].want # Absent
      BY <1>1, ExecAssumption DEF TurnState, Policies
    <2>2. CASE revPol = turn[t].want
      <3>1. Moves(t, "run") /\ turn[t].want \in applied
        BY <1>4, <2>1, <2>2 DEF Check, AppliedInv
      <3> DEFINE v == [turn[t] EXCEPT !.step = "run"]
      <3>2. /\ v \in TurnState /\ v.want = turn[t].want
            /\ turn' = [turn EXCEPT ![t] = v]
        BY <1>3, <3>1
      <3> HIDE DEF v
      <3> QED BY <1>4, <3>1, <3>2, OwnTurn DEF Check, poolVars, pushVars, AppliedInv
    <2>3. CASE revPol # turn[t].want
      <3>1. Moves(t, "get")
        BY <1>4, <2>3 DEF Check
      <3> QED BY <1>3, <1>4, <3>1, EarlyStep, <1>2 DEF Check, poolVars
    <2> QED BY <2>2, <2>3
  <1>5. CASE GetPolicy(t)
    <2>1. CASE turn' = [turn EXCEPT ![t].step = "set", ![t].hash = enforced]
      <3> DEFINE v == [turn[t] EXCEPT !.step = "set", !.hash = enforced]
      <3>1. v \in TurnState /\ v.step = "set"
        BY <1>1 DEF TurnState, AppliedInv
      <3>2. turn' = [turn EXCEPT ![t] = v]
        BY <2>1 DEF AppliedInv
      <3> HIDE DEF v
      <3> QED BY <1>2, <1>5, <3>1, <3>2, EarlyStep DEF GetPolicy, poolVars
    <2>2. CASE RoundFails(t)
      BY <1>5, <2>2, RoundFailsStep DEF GetPolicy, poolVars, pushVars, AppliedInv
    <2> QED BY <1>5, <2>1, <2>2 DEF GetPolicy
  <1>6. CASE SetPolicy(t)
    <2>1. UNCHANGED <<entry, revPol>>
      BY <1>6 DEF SetPolicy, poolVars
    <2>2. Enforce(t) => /\ applied \subseteq applied' /\ turn[t].want \in applied'
                        /\ enforced' \in (SUBSET Rules) \cup {Absent}
      BY <1>2 DEF Enforce
    <2>3. UNCHANGED <<enforced, applied>> => /\ applied \subseteq applied'
                                             /\ enforced' \in (SUBSET Rules) \cup {Absent}
      BY DEF AppliedInv
    <2>4. CASE Enforce(t) /\ Moves(t, "mark")
      BY <1>2, <1>3, <2>1, <2>2, <2>4, OwnTurn DEF AppliedInv
    <2>5. CASE RoundFails(t) /\ (Enforce(t) \/ UNCHANGED <<enforced, applied>>)
      BY <1>6, <2>1, <2>2, <2>3, <2>5, RoundFailsStep DEF SetPolicy
    <2> QED BY <1>6, <2>4, <2>5 DEF SetPolicy
  <1>7. CASE Mark(t)
    <2>1. turn[t].want \in applied
      BY <1>7 DEF Mark, AppliedInv, Past
    <2> DEFINE v == [turn[t] EXCEPT !.step = "run"]
    <2>2. /\ v \in TurnState /\ v.want = turn[t].want
          /\ turn' = [turn EXCEPT ![t] = v]
      BY <1>3, <1>7 DEF Mark
    <2> HIDE DEF v
    <2> QED BY <1>2, <1>7, <2>1, <2>2, OwnTurn DEF Mark, poolVars, AppliedInv
  <1> QED BY <1>4, <1>5, <1>6, <1>7

LEMMA AppliedStep ==
  ASSUME AppliedInv, StoreInv, [ExecNext]_execVars PROVE AppliedInv'
  <1>1. CASE UNCHANGED <<turn, entry, pushVars>>
    BY <1>1 DEF pushVars, AppliedInv, Past, TurnAt
  <1>2. CASE \E e \in Edits : EditStep(e)
    BY <1>1, <1>2 DEF EditStep, poolVars
  <1>3. ASSUME NEW t \in Turns,
               Resolve(t) \/ TurnStep(t) \/ EndTurn(t) \/ LeaveQueue(t) \/ DialFails(t)
        PROVE  AppliedInv'
    <2>1. CASE EndTurn(t) \/ LeaveQueue(t) \/ DialFails(t)
      BY <2>1, EndsStep DEF EndTurn, LeaveQueue, DialFails, poolVars
    <2>2. CASE NotPaired(t)
      BY <1>1, <2>2 DEF NotPaired
    <2> QED BY <1>3, <2>1, <2>2, ConnectionSteps, PushSteps DEF TurnStep
  <1>4. CASE Approve \/ Probe
    BY <1>1, <1>4 DEF Approve, Probe
  <1>5. CASE \E c \in live : LoseConnection(c)
    BY <1>1, <1>5 DEF LoseConnection
  <1>6. CASE UNCHANGED execVars
    BY <1>1, <1>6 DEF execVars, poolVars
  <1> QED BY <1>2, <1>3, <1>4, <1>5, <1>6 DEF ExecNext

\* AppliedIsKnown, for any turns and policies: what is remembered as applied was written
\* once, and so was the policy of every turn that runs.
THEOREM AppliedIsKnownCorrect == ExecSpec => []AppliedIsKnown
  <1>1. ExecInit => StoreInv /\ AppliedInv
    BY StoreInit, AppliedInit
  <1>2. StoreInv /\ AppliedInv /\ [ExecNext]_execVars => (StoreInv /\ AppliedInv)'
    BY StoreInvStep, AppliedStep
  <1>3. AppliedInv => AppliedIsKnown
    BY DEF AppliedInv, AppliedIsKnown, Past
  <1> QED BY <1>1, <1>2, <1>3, PTL DEF ExecSpec
-----------------------------------------------------------------------------
(* One client.                                                             *)

\* The lock has one holder, who dials the entry of the pool while nothing is up; and
\* what is up is that entry.
DialInv ==
    /\ live \subseteq {entry}
    /\ \A t \in Turns : TurnAt(t, "dial") =>
           lock = t /\ turn[t].client = entry /\ live = {}

LEMMA DialInit == ExecInit => DialInv
  BY DEF ExecInit, DialInv, TurnAt, Ended

\* A turn that does not begin to dial: it keeps the lock as it is, or gives it up.
LEMMA NoDial ==
  ASSUME DialInv, AppliedInv, NEW t \in Turns, NEW v, v.step # "dial",
         turn' = [turn EXCEPT ![t] = v], entry' = entry, live' \subseteq live,
         lock' = lock \/ TurnAt(t, "dial")
  PROVE  DialInv'
  <1>1. ASSUME NEW u \in Turns, TurnAt(u, "dial")'
        PROVE  lock' = u /\ turn'[u].client = entry' /\ live' = {}
    <2>1. u # t /\ turn'[u] = turn[u]
      BY <1>1 DEF AppliedInv, TurnAt
    <2>2. lock = u /\ turn[u].client = entry /\ live = {}
      BY <1>1, <2>1 DEF DialInv, TurnAt
    <2>3. ~TurnAt(t, "dial")
      BY <2>1, <2>2 DEF DialInv
    <2> QED BY <2>1, <2>2, <2>3
  <1> QED BY <1>1 DEF DialInv

LEMMA MovesOn ==
  ASSUME AppliedInv, NEW t \in Turns, ~TurnAt(t, "idle"), NEW s, Moves(t, s) \/ Takes(t),
         s # "dial"
  PROVE  \E v : v.step # "dial" /\ turn' = [turn EXCEPT ![t] = v]
  <1>1. turn[t] \in TurnState
    BY Started
  <1>2. CASE Moves(t, s)
    <2> DEFINE v == [turn[t] EXCEPT !.step = s]
    <2>1. v.step = s
      BY <1>1 DEF TurnState
    <2>2. turn' = [turn EXCEPT ![t] = v]
      BY <1>2 DEF Moves, AppliedInv
    <2> HIDE DEF v
    <2> QED BY <2>1, <2>2
  <1>3. CASE Takes(t)
    <2> DEFINE v == [turn[t] EXCEPT !.step = "check", !.client = entry]
    <2>1. v.step = "check"
      BY <1>1 DEF TurnState
    <2>2. turn' = [turn EXCEPT ![t] = v]
      BY <1>3 DEF Takes, AppliedInv
    <2> HIDE DEF v
    <2> QED BY <2>1, <2>2
  <1> QED BY <1>2, <1>3

LEMMA EnterDials ==
  ASSUME DialInv, AppliedInv, NEW t \in Turns, Enter(t) PROVE DialInv'
  <1>1. TurnAt(t, "wait") /\ lock = Absent /\ live' = live
    BY DEF Enter
  <1>2. CASE Dialled
    <2>1. Takes(t) /\ UNCHANGED <<lock, entry>>
      BY <1>2 DEF Enter
    <2>2. PICK v : v.step # "dial" /\ turn' = [turn EXCEPT ![t] = v]
      BY <1>1, <2>1, MovesOn DEF TurnAt
    <2> QED BY <1>1, <2>1, <2>2, NoDial
  <1>3. CASE ~Dialled
    <2>1. lock' = t /\ entry' = entry + 1 /\ live = {}
      BY <1>3 DEF Enter, Dialled, Up, DialInv
    <2>2. turn[t] \in TurnState
      BY <1>1, Started DEF TurnAt
    <2>3. turn'[t].client = entry + 1
      BY <1>3, <2>2 DEF Enter, AppliedInv, TurnState
    <2>4. ASSUME NEW u \in Turns, u # t PROVE ~TurnAt(u, "dial")'
      <3>1. turn'[u] = turn[u]
        BY <1>3, <2>4 DEF Enter, AppliedInv
      <3>2. ~TurnAt(u, "dial")
        BY <1>1, ExecAssumption DEF DialInv
      <3> QED BY <3>1, <3>2 DEF TurnAt
    <2> QED BY <1>1, <2>1, <2>3, <2>4 DEF DialInv
  <1> QED BY <1>2, <1>3

LEMMA ConnectEnds ==
  ASSUME DialInv, AppliedInv, NEW t \in Turns, Connect(t) PROVE DialInv'
  <1>1. /\ TurnAt(t, "dial") /\ Moves(t, "check") /\ entry' = entry
        /\ live' = live \cup {turn[t].client}
    BY DEF Connect
  <1>2. live' = {entry}
    BY <1>1 DEF DialInv
  <1>3. PICK v : v.step # "dial" /\ turn' = [turn EXCEPT ![t] = v]
    BY <1>1, MovesOn DEF TurnAt
  <1>4. ASSUME NEW u \in Turns PROVE ~TurnAt(u, "dial")'
    <2>1. CASE u = t
      BY <1>3, <2>1 DEF AppliedInv, TurnAt
    <2>2. CASE u # t
      <3>1. turn'[u] = turn[u]
        BY <1>3, <2>2 DEF AppliedInv
      <3>2. ~TurnAt(u, "dial")
        BY <1>1, <2>2 DEF DialInv
      <3> QED BY <3>1, <3>2 DEF TurnAt
    <2> QED BY <2>1, <2>2
  <1> QED BY <1>1, <1>2, <1>4 DEF DialInv

LEMMA DialStep ==
  ASSUME DialInv, AppliedInv, [ExecNext]_execVars PROVE DialInv'
  <1>1. CASE UNCHANGED <<turn, lock, entry>> /\ live' \subseteq live
    BY <1>1 DEF DialInv, TurnAt
  <1>2. CASE \E e \in Edits : EditStep(e)
    BY <1>1, <1>2 DEF EditStep, poolVars
  <1>3. ASSUME NEW t \in Turns,
               Resolve(t) \/ TurnStep(t) \/ EndTurn(t) \/ LeaveQueue(t) \/ DialFails(t)
        PROVE  DialInv'
    <2>1. CASE Enter(t) \/ Connect(t)
      BY <2>1, EnterDials, ConnectEnds
    <2>2. CASE NotPaired(t)
      BY <1>1, <2>2 DEF NotPaired
    <2>3. CASE EndTurn(t) \/ LeaveQueue(t) \/ DialFails(t)
      <3>1. Ended.step # "dial"
        BY DEF Ended
      <3>2. turn' = [turn EXCEPT ![t] = Ended] /\ UNCHANGED <<entry, live>>
            /\ (lock' = lock \/ TurnAt(t, "dial"))
        BY <2>3 DEF EndTurn, LeaveQueue, DialFails, Ends, poolVars
      <3> QED BY <3>1, <3>2, NoDial
    <2>4. CASE Resolve(t)
      <3> DEFINE v == [step |-> "resolve", want |-> [mode |-> mode, allow |-> {}], client |-> 0,
                       left |-> Attempts, hash |-> Absent]
      <3>1. v.step # "dial"
        OBVIOUS
      <3>2. turn' = [turn EXCEPT ![t] = v] /\ UNCHANGED <<entry, live, lock>>
        BY <2>4 DEF Resolve, poolVars
      <3> HIDE DEF v
      <3> QED BY <3>1, <3>2, NoDial
    <2>10. CASE ListGrants(t)
      <3> DEFINE v == IF Ends(t) THEN Ended ELSE [turn[t] EXCEPT !.step = "conn",
                                                  !.want = PolicyUnder(turn[t].want.mode)]
      <3>1. turn[t] \in TurnState
        BY <2>10, Started DEF ListGrants, TurnAt
      <3>2. v.step # "dial"
        BY <3>1 DEF TurnState, Ended
      <3>3. turn' = [turn EXCEPT ![t] = v] /\ UNCHANGED <<entry, live, lock>>
        BY <2>10 DEF ListGrants, Ends, poolVars, AppliedInv
      <3> HIDE DEF v
      <3> QED BY <3>2, <3>3, NoDial
    <2>5. ASSUME NEW s, s # "dial", ~TurnAt(t, "idle"), Moves(t, s) \/ Takes(t),
                 UNCHANGED poolVars
          PROVE  DialInv'
      BY <2>5, MovesOn, NoDial DEF poolVars
    <2>6. CASE Reuse(t) \/ Lock(t) \/ Check(t) \/ Mark(t)
      <3>1. UNCHANGED poolVars /\ ~TurnAt(t, "idle")
        BY <2>6 DEF Reuse, Lock, Check, Mark, TurnAt
      <3>2. \E s \in {"wait", "run", "get"} : Moves(t, s) \/ Takes(t)
        BY <2>6 DEF Reuse, Lock, Check, Mark
      <3> QED BY <2>5, <3>1, <3>2
    <2>7. ASSUME RoundFails(t), UNCHANGED poolVars PROVE DialInv'
      <3> DEFINE v == turn'[t]
      <3>1. turn' = [turn EXCEPT ![t] = v]
        BY <2>7 DEF RoundFails, AppliedInv
      <3>2. v.step # "dial"
        BY <2>7 DEF RoundFails, AppliedInv, TurnState, Ended
      <3> HIDE DEF v
      <3> QED BY <2>7, <3>1, <3>2, NoDial DEF poolVars
    <2>8. CASE GetPolicy(t)
      <3>1. CASE turn' = [turn EXCEPT ![t].step = "set", ![t].hash = enforced]
        <4> DEFINE v == [turn[t] EXCEPT !.step = "set", !.hash = enforced]
        <4>1. turn[t] \in TurnState
          BY <2>8, Started DEF GetPolicy, TurnAt
        <4>2. v.step # "dial"
          BY <4>1 DEF TurnState
        <4>3. turn' = [turn EXCEPT ![t] = v]
          BY <3>1 DEF AppliedInv
        <4> HIDE DEF v
        <4> QED BY <2>8, <4>2, <4>3, NoDial DEF GetPolicy, poolVars
      <3> QED BY <2>7, <2>8, <3>1 DEF GetPolicy
    <2>9. CASE SetPolicy(t)
      <3>1. UNCHANGED poolVars /\ ~TurnAt(t, "idle")
        BY <2>9 DEF SetPolicy, TurnAt
      <3>2. Moves(t, "mark") \/ RoundFails(t)
        BY <2>9 DEF SetPolicy
      <3> QED BY <2>5, <2>7, <3>1, <3>2
    <2> QED BY <1>3, <2>1, <2>2, <2>3, <2>4, <2>6, <2>8, <2>9, <2>10 DEF TurnStep
  <1>4. CASE Approve \/ Probe
    BY <1>1, <1>4 DEF Approve, Probe
  <1>5. CASE \E c \in live : LoseConnection(c)
    BY <1>1, <1>5 DEF LoseConnection
  <1>6. CASE UNCHANGED execVars
    BY <1>1, <1>6 DEF execVars, poolVars
  <1> QED BY <1>2, <1>3, <1>4, <1>5, <1>6 DEF ExecNext

\* OneClient, for any turns: of the clients of one user, whatever dials and losses came
\* before, at most one is connected; the lock is what keeps two turns from each
\* connecting one of its own.
THEOREM OneClientCorrect == ExecSpec => []OneClient
  <1>1. ExecInit => StoreInv /\ AppliedInv /\ DialInv
    BY StoreInit, AppliedInit, DialInit
  <1>2. StoreInv /\ AppliedInv /\ DialInv /\ [ExecNext]_execVars
          => (StoreInv /\ AppliedInv /\ DialInv)'
    BY StoreInvStep, AppliedStep, DialStep
  <1>3. DialInv => OneClient
    BY DEF DialInv, OneClient
  <1> QED BY <1>1, <1>2, <1>3, PTL DEF ExecSpec
=============================================================================
