------------------------- MODULE SupervisorProofs -------------------------
(***************************************************************************)
(* Proofs about the model catalogue and the supervisor that follows it,    *)
(* for any providers, models, admins' requests and failures.               *)
(***************************************************************************)
EXTENDS Supervisor, TLAPS

-----------------------------------------------------------------------------
(* The catalogue: its inductive invariant.                                 *)

\* What a provider serves, if it is there.
ServedBy(n, provider) == IF provider = None THEN {} ELSE RefsOf(n, provider.models)

\* What the template would lose by the request's write.
Lost(r) == ServedBy(request[r].name, providers[request[r].name])
             \ ServedBy(request[r].name, request[r].to)

\* While the template has the version that a request read, the request has listed, or
\* is about to list, all that it takes away; and nobody selected any of it then.
Covered(r) ==
    At(r, "list") \/ At(r, "write") =>
      request[r].read <= version /\ (request[r].read = version => Lost(r) \subseteq request[r].drops)

Listed(r) == At(r, "write") => request[r].listed \notin request[r].drops

RequestInv == \A r \in Requests : Covered(r) /\ Listed(r)

WellFormed(cfg) == cfg.primary \in cfg.allow \/ (cfg.primary = None /\ cfg.allow = {})

RenderInv == WellFormed(rendered) /\ (rendering # None => WellFormed(rendering))

CatalogInv == CatalogTypeOK /\ RequestInv /\ RenderInv

-----------------------------------------------------------------------------
(* Lemmas on the operators.                                                *)

LEMMA RefsOfType ==
  ASSUME NEW n \in Names, NEW ids \in SUBSET Models PROVE RefsOf(n, ids) \subseteq Refs
  BY DEF RefsOf, Refs

LEMMA ServedType ==
  ASSUME NEW ps \in [Names -> Provider \cup {None}]
  PROVE  /\ Served(ps) \subseteq Refs
         /\ \A ref : ref \in Served(ps) <=> \E n \in Names : ref \in ServedBy(n, ps[n])
  <1>1. \A n \in Names : ps[n] # None => ps[n].models \in SUBSET Models
    BY DEF Provider
  <1>2. \A ref : ref \in Served(ps) <=>
          \E n \in Names : ps[n] # None /\ ref \in RefsOf(n, ps[n].models)
    BY DEF Served
  <1>3. \A n \in Names : ps[n] # None => RefsOf(n, ps[n].models) \subseteq Refs
    BY <1>1, RefsOfType
  <1> QED BY <1>2, <1>3 DEF ServedBy

LEMMA RenderType ==
  ASSUME NEW ps \in [Names -> Provider \cup {None}], NEW def, NEW ks
  PROVE  Render(ps, def, ks) \in Config /\ WellFormed(Render(ps, def, ks))
  <1> DEFINE live == Live(ps, ks)
             allow == UNION {RefsOf(n, ps[n].models) : n \in live}
             primary == IF def \in allow THEN def
                        ELSE IF allow = {} THEN None ELSE CHOOSE ref \in allow : TRUE
  <1>1. live \subseteq Names /\ \A n \in live : ps[n] # None
    BY DEF Live
  <1>2. \A n \in live : ps[n].models \in SUBSET Models
    BY <1>1 DEF Provider
  <1>3. allow \subseteq Refs
    BY <1>1, <1>2, RefsOfType
  <1>4. primary \in allow \/ (primary = None /\ allow = {})
    OBVIOUS
  <1>5. Render(ps, def, ks) = [allow |-> allow, keyed |-> {n \in live : ps[n].keyed},
                               primary |-> primary]
    BY DEF Render
  <1> HIDE DEF allow, primary
  <1>6. Render(ps, def, ks) \in Config
    BY <1>1, <1>3, <1>4, <1>5 DEF Config
  <1>7. WellFormed(Render(ps, def, ks))
    BY <1>4, <1>5 DEF WellFormed
  <1> QED BY <1>6, <1>7

LEMMA PersonalType ==
  ASSUME CatalogInv PROVE PersonalConfig \in Config /\ WellFormed(PersonalConfig)
  <1>1. rendered \in Config /\ WellFormed(rendered) /\ selected \in Refs \cup {None}
    BY DEF CatalogInv, CatalogTypeOK, RenderInv
  <1>2. CASE selected # None /\ Resolvable /\ selected \in rendered.allow
    <2>1. PersonalConfig = [rendered EXCEPT !.primary = selected]
      BY <1>2 DEF PersonalConfig
    <2> QED BY <1>1, <1>2, <2>1 DEF Config, WellFormed
  <1>3. CASE ~(selected # None /\ Resolvable /\ selected \in rendered.allow)
    BY <1>1, <1>3 DEF PersonalConfig
  <1> QED BY <1>2, <1>3

-----------------------------------------------------------------------------
(* The catalogue's steps.                                                  *)

LEMMA CatalogInvInit == CatalogInit => CatalogInv
  <1> SUFFICES ASSUME CatalogInit PROVE CatalogInv
    OBVIOUS
  <1> USE CatalogAssumption
  <1>1. PICK ids \in ModelLists :
          /\ providers = [n \in Names |-> IF n = Bundled THEN [keyed |-> TRUE, models |-> ids]
                                          ELSE None]
          /\ default \in RefsOf(Bundled, ids) \cup {None}
    BY DEF CatalogInit
  <1>2. ids \in SUBSET Models /\ ids # {}
    OBVIOUS
  <1>3. providers \in [Names -> Provider \cup {None}]
    BY <1>1, <1>2 DEF Provider
  <1>4. default \in Refs \cup {None}
    BY <1>1, <1>2, RefsOfType
  <1>5. rendered \in Config /\ WellFormed(rendered) /\ rendering = None
    BY <1>3, RenderType DEF CatalogInit
  <1>6. /\ version \in Nat /\ secrets \in [Names -> Keys \cup {None}]
        /\ selected \in Refs \cup {None}
        /\ choice \in [step : {"idle", "store", "done"}, ref : Refs \cup {None}]
        /\ request \in [Requests -> RequestState] /\ faults \in 0..MaxFaults
    BY DEF CatalogInit, Keys, RequestState
  <1>7. RequestInv
    BY DEF CatalogInit, RequestInv, Covered, Listed, At, Idle
  <1> QED BY <1>3, <1>4, <1>5, <1>6, <1>7 DEF CatalogInv, CatalogTypeOK, RenderInv

\* A request that is under way has all its fields.
LEMMA UnderWay ==
  ASSUME CatalogTypeOK, NEW r \in Requests, request[r].step \in {"list", "write", "secret"}
  PROVE  /\ request[r].name \in Names /\ request[r].to \in Provider \cup {None}
         /\ request[r].secret \in {"put", "leave", "delete"} /\ request[r].drops \in SUBSET Refs
         /\ request[r].read \in Nat /\ request[r].listed \in Refs \cup {None}
         /\ request[r] \in RequestState \ {Idle, Done}
  BY DEF CatalogTypeOK, RequestState, Idle, Done

\* A request begins.
LEMMA BeginStep ==
  ASSUME CatalogInv, NEW r \in Requests, NEW step \in {"list", "write"}, NEW n \in Names,
         NEW to \in Provider \cup {None}, NEW secret \in {"put", "leave", "delete"},
         NEW drops \in SUBSET Refs,
         ServedBy(n, providers[n]) \ ServedBy(n, to) \subseteq drops,
         step = "write" => drops = {},
         Becomes(r, Body(step, n, to, secret, drops)),
         UNCHANGED <<templateVars, secrets, selected, choice, rendering, rendered, faults>>
  PROVE  CatalogInv'
  <1> DEFINE b == Body(step, n, to, secret, drops)
  <1>1. /\ b.step = step /\ b.name = n /\ b.to = to /\ b.drops = drops /\ b.read = version
        /\ b.listed = None /\ b \in RequestState
    BY DEF Body, RequestState, CatalogInv, CatalogTypeOK
  <1>2. request' = [request EXCEPT ![r] = b] /\ request \in [Requests -> RequestState]
    BY DEF Becomes, CatalogInv, CatalogTypeOK
  <1> HIDE DEF b
  <1>3. request' \in [Requests -> RequestState] /\ request'[r] = b
        /\ \A q \in Requests : q # r => request'[q] = request[q]
    BY <1>1, <1>2
  <1>4. /\ UNCHANGED <<providers, default, version, secrets, selected, choice, rendering,
                       rendered, faults>>
        /\ version \in Nat
    BY DEF templateVars, CatalogInv, CatalogTypeOK
  <1>5. CatalogTypeOK'
    BY <1>3, <1>4 DEF CatalogInv, CatalogTypeOK
  <1>6. ASSUME NEW q \in Requests PROVE Covered(q)' /\ Listed(q)'
    <2>1. CASE q = r
      BY <2>1, <1>1, <1>3, <1>4 DEF Covered, Listed, At, Lost, ServedBy
    <2>2. CASE q # r
      BY <2>2, <1>3, <1>4 DEF CatalogInv, RequestInv, Covered, Listed, At, Lost, ServedBy
    <2> QED BY <2>1, <2>2
  <1>7. RenderInv'
    BY <1>4 DEF CatalogInv, RenderInv, WellFormed
  <1> QED BY <1>5, <1>6, <1>7 DEF CatalogInv, RequestInv

\* A request is at its end, and the template is as it was.
LEMMA FinishStep ==
  ASSUME CatalogInv, NEW r \in Requests, Becomes(r, Done),
         secrets' \in [Names -> Keys \cup {None}], faults' \in 0..MaxFaults,
         UNCHANGED <<templateVars, selected, choice, rendering, rendered>>
  PROVE  CatalogInv'
  <1>1. request' = [request EXCEPT ![r] = Done] /\ request \in [Requests -> RequestState]
    BY DEF Becomes, CatalogInv, CatalogTypeOK
  <1>2. request' \in [Requests -> RequestState] /\ request'[r] = Done
        /\ \A q \in Requests : q # r => request'[q] = request[q]
    BY <1>1 DEF RequestState
  <1>3. UNCHANGED <<providers, default, version, selected, choice, rendering, rendered>>
    BY DEF templateVars
  <1>4. CatalogTypeOK'
    BY <1>2, <1>3 DEF CatalogInv, CatalogTypeOK
  <1>5. ASSUME NEW q \in Requests PROVE Covered(q)' /\ Listed(q)'
    <2>1. CASE q = r
      BY <2>1, <1>2 DEF Covered, Listed, At, Done
    <2>2. CASE q # r
      BY <2>2, <1>2, <1>3 DEF CatalogInv, RequestInv, Covered, Listed, At, Lost, ServedBy
    <2> QED BY <2>1, <2>2
  <1>6. RenderInv'
    BY <1>3 DEF CatalogInv, RenderInv, WellFormed
  <1> QED BY <1>4, <1>5, <1>6 DEF CatalogInv, RequestInv

LEMMA FaultCounts ==
  ASSUME CatalogTypeOK, Fault \/ UNCHANGED faults PROVE faults' \in 0..MaxFaults
  BY CatalogAssumption DEF CatalogTypeOK, Fault

\* The template's write.
LEMMA CommitStep ==
  ASSUME CatalogInv, NEW r \in Requests, At(r, "write"), Commit(r),
         \/ Becomes(r, Done) \/ Becomes(r, [request[r] EXCEPT !.step = "secret"]),
         faults' \in 0..MaxFaults,
         UNCHANGED <<secrets, selected, choice, rendering, rendered>>
  PROVE  CatalogInv'
  <1>0. /\ request[r].name \in Names /\ request[r].to \in Provider \cup {None}
        /\ request[r] \in RequestState \ {Idle, Done} /\ request \in [Requests -> RequestState]
    BY UnderWay DEF At, CatalogInv, CatalogTypeOK
  <1>1. PICK b \in RequestState : b.step \in {"done", "secret"} /\ request' = [request EXCEPT ![r] = b]
    <2>1. Done \in RequestState /\ Done.step = "done"
      BY DEF Done, RequestState
    <2>2. /\ [request[r] EXCEPT !.step = "secret"] \in RequestState
          /\ [request[r] EXCEPT !.step = "secret"].step = "secret"
      BY <1>0 DEF RequestState
    <2> QED BY <2>1, <2>2 DEF Becomes
  <1>2. request' \in [Requests -> RequestState] /\ request'[r] = b
        /\ \A q \in Requests : q # r => request'[q] = request[q]
    BY <1>0, <1>1
  <1>3. /\ providers' \in [Names -> Provider \cup {None}] /\ default' \in Refs \cup {None}
        /\ version' = version + 1 /\ version \in Nat
    BY <1>0 DEF Commit, CatalogInv, CatalogTypeOK
  <1>4. CatalogTypeOK'
    BY <1>2, <1>3 DEF CatalogInv, CatalogTypeOK
  <1>5. ASSUME NEW q \in Requests PROVE Covered(q)' /\ Listed(q)'
    <2>1. CASE q = r
      BY <2>1, <1>1, <1>2 DEF Covered, Listed, At
    <2>2. CASE q # r
      <3>1. At(q, "list") \/ At(q, "write") => request[q].read \in Nat /\ request[q].read <= version
        BY UnderWay DEF At, CatalogInv, RequestInv, Covered
      <3>2. Covered(q)'
        BY <2>2, <1>2, <1>3, <3>1 DEF Covered, At
      <3>3. Listed(q)'
        BY <2>2, <1>2 DEF CatalogInv, RequestInv, Listed, At
      <3> QED BY <3>2, <3>3
    <2> QED BY <2>1, <2>2
  <1>6. RenderInv'
    BY DEF CatalogInv, RenderInv, WellFormed
  <1> QED BY <1>4, <1>5, <1>6 DEF CatalogInv, RequestInv

LEMMA RequestStepKeeps ==
  ASSUME CatalogInv, NEW r \in Requests, RequestStep(r) PROVE CatalogInv'
  <1> USE CatalogAssumption
  <1>0. providers \in [Names -> Provider \cup {None}] /\ secrets \in [Names -> Keys \cup {None}]
        /\ CatalogTypeOK
    BY DEF CatalogInv, CatalogTypeOK
  <1>1. CASE Add(r)
    <2>1. PICK n \in Names, ids \in ModelLists, keyed \in BOOLEAN :
            /\ providers[n] = None
            /\ Becomes(r, Body("write", n, [keyed |-> keyed, models |-> ids],
                               IF keyed THEN "put" ELSE "leave", {}))
      BY <1>1 DEF Add
    <2>2. [keyed |-> keyed, models |-> ids] \in Provider \cup {None}
      BY DEF Provider
    <2>3. ServedBy(n, providers[n]) = {}
      BY <2>1 DEF ServedBy
    <2> QED BY <1>1, <2>1, <2>2, <2>3, BeginStep DEF Add
  <1>2. CASE Edit(r)
    <2>1. PICK n \in Names, ids \in ModelLists, key \in {"put", "leave", "delete"} :
            /\ providers[n] # None
            /\ LET drops == RefsOf(n, providers[n].models \ ids)
               IN Becomes(r, Body(IF drops = {} THEN "write" ELSE "list", n,
                                  [keyed |-> key # "delete", models |-> ids],
                                  IF key = "delete" /\ ~providers[n].keyed THEN "leave" ELSE key,
                                  drops))
      BY <1>2 DEF Edit
    <2> DEFINE drops == RefsOf(n, providers[n].models \ ids)
               to == [keyed |-> key # "delete", models |-> ids]
               secret == IF key = "delete" /\ ~providers[n].keyed THEN "leave" ELSE key
               step == IF drops = {} THEN "write" ELSE "list"
    <2>2. to \in Provider \cup {None} /\ to # None
      <3>1. (key # "delete") \in BOOLEAN /\ ids \in (SUBSET Models) \ {{}}
        OBVIOUS
      <3>2. to \in Provider
        BY <3>1 DEF Provider
      <3> QED BY <3>2
    <2>3. providers[n].models \in SUBSET Models
      BY <1>0, <2>1 DEF Provider
    <2>4. drops \in SUBSET Refs
      BY <2>3, RefsOfType
    <2>5. ServedBy(n, providers[n]) \ ServedBy(n, to) \subseteq drops
      BY <2>1, <2>2 DEF ServedBy, RefsOf
    <2>6. Becomes(r, Body(step, n, to, secret, drops))
      BY <2>1
    <2>7. secret \in {"put", "leave", "delete"} /\ step \in {"list", "write"}
          /\ (step = "write" => drops = {})
      OBVIOUS
    <2> HIDE DEF drops, to, secret, step
    <2> QED BY <1>2, <2>2, <2>4, <2>5, <2>6, <2>7, BeginStep DEF Edit
  <1>3. CASE Delete(r)
    <2>1. PICK n \in Names :
            /\ providers[n] # None
            /\ Becomes(r, Body("list", n, None, IF providers[n].keyed THEN "delete" ELSE "leave",
                               RefsOf(n, providers[n].models)))
      BY <1>3 DEF Delete
    <2>2. providers[n].models \in SUBSET Models
      BY <1>0, <2>1 DEF Provider
    <2>3. RefsOf(n, providers[n].models) \in SUBSET Refs
      BY <2>2, RefsOfType
    <2>4. ServedBy(n, providers[n]) \ ServedBy(n, None) \subseteq RefsOf(n, providers[n].models)
      BY DEF ServedBy
    <2> QED BY <1>3, <2>1, <2>3, <2>4, BeginStep DEF Delete
  <1>4. CASE List(r)
    <2>0. faults' \in 0..MaxFaults
      BY <1>0, <1>4, FaultCounts DEF List
    <2>1. CASE Becomes(r, Done)
      BY <1>0, <1>4, <2>0, <2>1, FinishStep DEF List, templateVars
    <2>2. CASE ~Selecting(r) /\ Becomes(r, [request[r] EXCEPT !.step = "write", !.listed = selected])
      <3> DEFINE b == [request[r] EXCEPT !.step = "write", !.listed = selected]
      <3>1. request[r] \in RequestState \ {Idle, Done} /\ At(r, "list")
            /\ selected \in Refs \cup {None} /\ request \in [Requests -> RequestState]
        BY <1>0, <1>4, UnderWay DEF List, At, CatalogTypeOK
      <3>2. /\ b \in RequestState /\ b.step = "write" /\ b.listed = selected
            /\ b.name = request[r].name /\ b.to = request[r].to /\ b.drops = request[r].drops
            /\ b.read = request[r].read
        BY <3>1 DEF RequestState
      <3>3. request' = [request EXCEPT ![r] = b]
        BY <2>2 DEF Becomes
      <3> HIDE DEF b
      <3>4. request' \in [Requests -> RequestState] /\ request'[r] = b
            /\ \A q \in Requests : q # r => request'[q] = request[q]
        BY <3>1, <3>2, <3>3
      <3>5. UNCHANGED <<providers, default, version, secrets, selected, choice, rendering, rendered>>
        BY <1>4 DEF List, templateVars
      <3>6. CatalogTypeOK'
        BY <2>0, <3>4, <3>5 DEF CatalogInv, CatalogTypeOK
      <3>7. ASSUME NEW q \in Requests PROVE Covered(q)' /\ Listed(q)'
        <4>1. CASE q = r
          BY <4>1, <2>2, <3>1, <3>2, <3>4, <3>5
             DEF CatalogInv, RequestInv, Covered, Listed, At, Lost, ServedBy, Selecting
        <4>2. CASE q # r
          BY <4>2, <3>4, <3>5 DEF CatalogInv, RequestInv, Covered, Listed, At, Lost, ServedBy
        <4> QED BY <4>1, <4>2
      <3>8. RenderInv'
        BY <3>5 DEF CatalogInv, RenderInv, WellFormed
      <3> QED BY <3>6, <3>7, <3>8 DEF CatalogInv, RequestInv
    <2> QED BY <1>4, <2>1, <2>2 DEF List
  <1>5. CASE Write(r)
    <2>0. faults' \in 0..MaxFaults
      BY <1>0, <1>5, FaultCounts DEF Write
    <2>1. CASE Commit(r)
      BY <1>5, <2>0, <2>1, CommitStep DEF Write
    <2>2. CASE Becomes(r, Done) /\ UNCHANGED templateVars
      BY <1>0, <1>5, <2>0, <2>2, FinishStep DEF Write
    <2> QED BY <1>5, <2>1, <2>2 DEF Write
  <1>6. CASE WriteSecret(r)
    <2>0. faults' \in 0..MaxFaults
      BY <1>0, <1>6, FaultCounts DEF WriteSecret
    <2>1. secrets' \in [Names -> Keys \cup {None}]
      BY <1>0, <1>6 DEF WriteSecret, Keys
    <2> QED BY <1>6, <2>0, <2>1, FinishStep DEF WriteSecret
  <1> QED BY <1>1, <1>2, <1>3, <1>4, <1>5, <1>6 DEF RequestStep

\* What touches no request and no template.
LEMMA ElsewhereStep ==
  ASSUME CatalogInv, CatalogTypeOK', RenderInv', UNCHANGED <<templateVars, request>>
  PROVE  CatalogInv'
  <1>1. UNCHANGED <<providers, default, version, request>>
    BY DEF templateVars
  <1>2. RequestInv'
    BY <1>1 DEF CatalogInv, RequestInv, Covered, Listed, At, Lost, ServedBy
  <1> QED BY <1>2 DEF CatalogInv

LEMMA CatalogNextKeeps ==
  ASSUME CatalogInv, CatalogNext PROVE CatalogInv'
  <1>0. CatalogTypeOK /\ RenderInv
    BY DEF CatalogInv
  <1>1. ASSUME NEW r \in Requests, RequestStep(r) PROVE CatalogInv'
    BY <1>1, RequestStepKeeps
  <1>2. CASE Choose
    <2>1. PICK ref \in Served(providers) \cup {None} : choice' = [step |-> "store", ref |-> ref]
      BY <1>2 DEF Choose
    <2>2. ref \in Refs \cup {None}
      BY <1>0, ServedType DEF CatalogTypeOK
    <2>3. UNCHANGED <<providers, default, version, secrets, selected, request, rendering, rendered, faults>>
      BY <1>2 DEF Choose, templateVars
    <2>4. CatalogTypeOK' /\ RenderInv'
      BY <1>0, <2>1, <2>2, <2>3 DEF CatalogTypeOK, RenderInv, WellFormed
    <2> QED BY <2>3, <2>4, ElsewhereStep DEF templateVars
  <1>3. CASE StoreChoice
    <2>1. choice' = [choice EXCEPT !.step = "done"] /\ selected' \in {selected, choice.ref}
      BY <1>3 DEF StoreChoice
    <2>2. UNCHANGED <<providers, default, version, secrets, request, rendering, rendered>>
      BY <1>3 DEF StoreChoice, templateVars
    <2>3. faults' \in 0..MaxFaults
      BY <1>0, <1>3, FaultCounts DEF StoreChoice
    <2>4. CatalogTypeOK' /\ RenderInv'
      BY <1>0, <2>1, <2>2, <2>3 DEF CatalogTypeOK, RenderInv, WellFormed
    <2> QED BY <2>2, <2>4, ElsewhereStep DEF templateVars
  <1>4. CASE RenderRead
    <2>1. rendering' \in Config /\ WellFormed(rendering')
      BY <1>0, <1>4, RenderType DEF RenderRead, CatalogTypeOK
    <2>2. UNCHANGED <<providers, default, version, secrets, selected, choice, request, rendered, faults>>
      BY <1>4 DEF RenderRead, templateVars
    <2>3. CatalogTypeOK' /\ RenderInv'
      BY <1>0, <2>1, <2>2 DEF CatalogTypeOK, RenderInv, WellFormed
    <2> QED BY <2>2, <2>3, ElsewhereStep DEF templateVars
  <1>5. CASE RenderWrite
    <2>1. rendering # None /\ rendering' = None /\ rendered' \in {rendered, rendering}
      BY <1>5 DEF RenderWrite
    <2>2. UNCHANGED <<providers, default, version, secrets, selected, choice, request>>
      BY <1>5 DEF RenderWrite, templateVars
    <2>3. faults' \in 0..MaxFaults
      BY <1>0, <1>5, FaultCounts DEF RenderWrite
    <2>4. CatalogTypeOK' /\ RenderInv'
      BY <1>0, <2>1, <2>2, <2>3 DEF CatalogTypeOK, RenderInv, WellFormed
    <2> QED BY <2>2, <2>4, ElsewhereStep DEF templateVars
  <1> QED BY <1>1, <1>2, <1>3, <1>4, <1>5 DEF CatalogNext

-----------------------------------------------------------------------------
(* The pod.                                                                *)

PodInv ==
    /\ at \notin {"boot", "bootConfig"} => config # None
    /\ child # "none" => config # None
    /\ config \notin {None, Edited} => WellFormed(config)

Inv == CatalogInv /\ PodInv

\* The supervisor's steps leave the catalogue alone, apart from the failures.
LEMMA PodKeepsCatalog ==
  ASSUME CatalogInv, UNCHANGED catalogVars, Fault \/ UNCHANGED faults
  PROVE  CatalogInv'
  <1>1. UNCHANGED <<providers, default, version, secrets, selected, choice, request, rendering, rendered>>
    BY DEF catalogVars
  <1>2. faults' \in 0..MaxFaults
    BY FaultCounts DEF CatalogInv
  <1>3. CatalogTypeOK'
    BY <1>1, <1>2 DEF CatalogInv, CatalogTypeOK
  <1>4. RenderInv'
    BY <1>1 DEF CatalogInv, RenderInv, WellFormed
  <1> QED BY <1>1, <1>3, <1>4, ElsewhereStep DEF templateVars

LEMMA PodFaults ==
  ASSUME PodNext PROVE UNCHANGED catalogVars /\ (Fault \/ UNCHANGED faults)
  BY DEF PodNext, Run, BootPoll, Poll, BootConfig, RefreshConfig, WriteShared, FailConfig, BootKeys,
         SyncCredentials, FailsToWrite, StartFirst, Respawn, TickPoll, TickKeys, TickConfig, Pair,
         GatewayExits, Restart, AgentEdits, PlatformDials

LEMMA WriteKeeps ==
  ASSUME Inv, WriteConfig \/ WriteShared PROVE config' # None /\ WellFormed(config')
  <1>1. config' \in Config /\ WellFormed(config')
    BY PersonalType DEF WriteConfig, WriteShared, Inv, CatalogInv, CatalogTypeOK, RenderInv
  <1> QED BY <1>1, CatalogAssumption

LEMMA PodStep == ASSUME Inv, PodNext PROVE PodInv'
  <1> USE DEF Inv, PodInv, Step
  <1>1. CASE BootPoll
    BY <1>1 DEF BootPoll, Poll, WellFormed
  <1>2. CASE BootConfig
    <2>1. CASE RefreshConfig("bootConfig")
      BY <2>1, WriteKeeps DEF RefreshConfig, WellFormed
    <2>2. CASE FailConfig("bootConfig", "boot")
      BY <2>2 DEF FailConfig, WellFormed
    <2> QED BY <1>2, <2>1, <2>2 DEF BootConfig
  <1>3. CASE BootKeys
    BY <1>3 DEF BootKeys, SyncCredentials, FailsToWrite, WellFormed
  <1>4. CASE StartFirst
    BY <1>4 DEF StartFirst, WellFormed
  <1>5. CASE Respawn
    BY <1>5 DEF Respawn, WellFormed
  <1>6. CASE TickPoll
    BY <1>6 DEF TickPoll, Poll, WellFormed
  <1>7. CASE TickKeys
    BY <1>7 DEF TickKeys, SyncCredentials, FailsToWrite, WellFormed
  <1>8. CASE TickConfig
    <2>1. CASE RefreshConfig("config")
      BY <2>1, WriteKeeps DEF RefreshConfig, WellFormed
    <2>2. CASE FailConfig("config", "pair")
      BY <2>2 DEF FailConfig, WellFormed
    <2> QED BY <1>8, <2>1, <2>2 DEF TickConfig
  <1>9. CASE Pair
    BY <1>9 DEF Pair, WellFormed
  <1>10. CASE GatewayExits
    BY <1>10 DEF GatewayExits, WellFormed
  <1>11. CASE Restart
    BY <1>11 DEF Restart, WellFormed
  <1>12. CASE AgentEdits
    BY <1>12, EditedAssumption DEF AgentEdits, WellFormed
  <1>13. CASE PlatformDials
    BY <1>13 DEF PlatformDials, WellFormed
  <1> QED BY <1>1, <1>2, <1>3, <1>4, <1>5, <1>6, <1>7, <1>8, <1>9, <1>10, <1>11, <1>12,
             <1>13 DEF PodNext, Run

LEMMA InvInit == Init => Inv
  <1> SUFFICES ASSUME Init PROVE Inv
    OBVIOUS
  <1>1. CatalogInv
    BY CatalogInvInit DEF Init
  <1>2. PodInv
    BY DEF Init, PodInit, PodInv
  <1> QED BY <1>1, <1>2 DEF Inv

LEMMA InvNext == Inv /\ [Next]_vars => Inv'
  <1> SUFFICES ASSUME Inv, [Next]_vars PROVE Inv'
    OBVIOUS
  <1>1. CASE CatalogNext /\ UNCHANGED podVars
    <2>1. PodInv'
      BY <1>1 DEF Inv, PodInv, podVars, WellFormed
    <2> QED BY <1>1, <2>1, CatalogNextKeeps DEF Inv
  <1>2. CASE PodNext
    BY <1>2, PodStep, PodFaults, PodKeepsCatalog DEF Inv
  <1>3. CASE UNCHANGED vars
    <2>1. CatalogInv'
      BY <1>3, PodKeepsCatalog DEF vars, Inv
    <2>2. PodInv'
      BY <1>3 DEF vars, podVars, Inv, PodInv, WellFormed
    <2> QED BY <2>1, <2>2 DEF Inv
  <1> QED BY <1>1, <1>2, <1>3 DEF Next

LEMMA Invariant == Spec => []Inv
  <1> QED BY InvInit, InvNext, PTL DEF Spec

-----------------------------------------------------------------------------
\* The catalogue keeps its types through every order of requests: no provider without
\* a model, no half a request (handleUpdateLLM, handleDeleteLLM).
THEOREM CatalogTypeCorrect == Spec => []CatalogTypeOK
  <1>1. Inv => CatalogTypeOK
    BY DEF Inv, CatalogInv
  <1> QED BY <1>1, Invariant, PTL

\* However the agent edits, the pod restarts and fetches fail: the gateway runs on a
\* config of the platform's first, and every config the platform wrote is consistent
\* (run, gatewayConfigWithPrimary, Render).
THEOREM BootsConfiguredCorrect == Spec => []BootsConfigured
  <1>1. Inv => BootsConfigured
    BY DEF Inv, PodInv, BootsConfigured, WellFormed
  <1> QED BY <1>1, Invariant, PTL

\* keys.json is never thinned out by a Secret that cannot be read (syncCredentials).
THEOREM KeysStayWholeCorrect == Spec => KeysStayWhole
  <1> DEFINE Kept == \A n \in Names : keys[n] # None /\ keys'[n] = None => at' = "boot" \/ n \notin lastCfg
  <1>1. [Next]_vars => [Kept]_vars
    <2> SUFFICES ASSUME [Next]_vars PROVE Kept
      OBVIOUS
    <2>1. CASE \E here, next : SyncCredentials(here, next)
      BY <2>1 DEF SyncCredentials, FailsToWrite, Deliverable, KeyImage
    <2>2. CASE Restart
      BY <2>2 DEF Restart
    <2>3. CASE UNCHANGED keys
      BY <2>3
    <2> QED
      BY <2>1, <2>2, <2>3
         DEF Next, podVars, vars, PodNext, Run, BootPoll, Poll, BootConfig, RefreshConfig,
             WriteShared, FailConfig, BootKeys, StartFirst, Respawn, TickPoll, TickKeys, TickConfig, Pair,
             GatewayExits, AgentEdits, PlatformDials
  <1> QED BY <1>1, PTL DEF Spec, KeysStayWhole

\* What the supervisor remembers to have written is what keys.json holds: it forgets
\* when the file may go, and a write that failed is not remembered.
Remembered == lastKeys # None => keys = lastKeys

LEMMA RememberedStep == ASSUME Remembered, [Next]_vars PROVE Remembered'
  <1>1. CASE \E here, next : SyncCredentials(here, next)
    BY <1>1 DEF SyncCredentials, FailsToWrite, Remembered
  <1>2. CASE Restart
    BY <1>2 DEF Restart, Remembered
  <1>3. CASE UNCHANGED <<keys, lastKeys>>
    BY <1>3 DEF Remembered
  <1> QED
    BY <1>1, <1>2, <1>3
       DEF Next, podVars, vars, PodNext, Run, BootPoll, Poll, BootConfig, RefreshConfig,
           WriteShared, FailConfig, BootKeys, StartFirst, Respawn, TickPoll, TickKeys, TickConfig, Pair,
           GatewayExits, AgentEdits, PlatformDials

LEMMA Delivery ==
  ASSUME Inv, Remembered, Next, Deliverable, at \in {"bootKeys", "keys"}, at' # at,
         UNCHANGED faults
  PROVE  keys' = KeyImage
  <1>1. KeyImage # None
    <2>1. secrets \in [Names -> Keys \cup {None}]
      BY DEF Inv, CatalogInv, CatalogTypeOK
    <2>2. KeyImage \in [Names -> Keys \cup {None}]
      BY <2>1 DEF KeyImage
    <2> QED BY <2>2, KeysAssumption
  <1>2. ~Fault
    <2>1. faults \in Nat
      BY CatalogAssumption DEF Inv, CatalogInv, CatalogTypeOK
    <2> QED BY <2>1 DEF Fault
  <1>3. \E here, next : SyncCredentials(here, next)
    BY <1>2
       DEF Next, podVars, PodNext, Run, Step, BootPoll, Poll, BootConfig, RefreshConfig,
           WriteShared, FailConfig, BootKeys, StartFirst, Respawn, TickPoll, TickKeys, TickConfig, Pair,
           GatewayExits, Restart, AgentEdits, PlatformDials
  <1>4. CASE KeyImage # lastKeys
    BY <1>2, <1>3, <1>4 DEF SyncCredentials, FailsToWrite
  <1>5. CASE KeyImage = lastKeys
    BY <1>1, <1>2, <1>3, <1>5 DEF SyncCredentials, FailsToWrite, Remembered
  <1> QED BY <1>4, <1>5

\* keys.json follows the config: a sync without a failure leaves just the keys that it
\* read, and what is compared in memory is never another thing than the file
\* (syncCredentials).
THEOREM KeysDeliveredCorrect == Spec => KeysDelivered
  <1> DEFINE Delivered ==
        Deliverable /\ at \in {"bootKeys", "keys"} /\ at' # at /\ UNCHANGED faults =>
          keys' = KeyImage
  <1>1. Init => Remembered
    BY DEF Init, PodInit, Remembered
  <1>2. Remembered /\ [Next]_vars => Remembered'
    BY RememberedStep
  <1>3. Inv /\ Remembered /\ [Next]_vars => [Delivered]_vars
    BY Delivery
  <1> QED BY <1>1, <1>2, <1>3, Invariant, PTL DEF Spec, KeysDelivered

\* No admin's write takes away a model whose selection that admin could have seen
\* (instancesSelecting, the template's resource version).
THEOREM SelectionSparedCorrect == Spec => SelectionSpared
  <1> DEFINE Spared == Stranding => \E r \in Requests : At(r, "write") /\ request[r].listed # selected
  <1>1. Inv /\ [Next]_vars => [Spared]_<<catalogVars, faults>>
    <2> SUFFICES ASSUME Inv, [Next]_vars, Stranding
                 PROVE  \E r \in Requests : At(r, "write") /\ request[r].listed # selected
      OBVIOUS
    <2>0. providers \in [Names -> Provider \cup {None}] /\ CatalogTypeOK
      BY DEF Inv, CatalogInv, CatalogTypeOK
    <2>1. providers' # providers
      BY DEF Stranding, Served
    <2>2. PICK r \in Requests : At(r, "write") /\ Current(r) /\ Commit(r)
      <3>1. CASE PodNext \/ UNCHANGED vars
        BY <2>1, <3>1, PodFaults DEF vars, catalogVars
      <3>2. CASE CatalogNext
        BY <2>1, <3>2 DEF CatalogNext, RequestStep, Add, Edit, Delete, List, Write, WriteSecret,
                          Choose, StoreChoice, RenderRead, RenderWrite, templateVars
      <3> QED BY <3>1, <3>2 DEF Next
    <2> DEFINE n == request[r].name
    <2>3. /\ n \in Names /\ request[r].to \in Provider \cup {None}
          /\ Covered(r) /\ Listed(r)
      BY <2>0, <2>2, UnderWay DEF At, Inv, CatalogInv, RequestInv
    <2>4. Lost(r) \subseteq request[r].drops /\ request[r].listed \notin request[r].drops
      BY <2>2, <2>3 DEF Covered, Listed, Current
    <2>5. providers' = [providers EXCEPT ![n] = request[r].to]
      BY <2>2 DEF Commit
    <2>6. selected \in Lost(r)
      <3>1. PICK m \in Names : selected \in ServedBy(m, providers[m])
        BY <2>0, ServedType DEF Stranding
      <3>2. providers' \in [Names -> Provider \cup {None}]
        BY <2>0, <2>3, <2>5
      <3>3. \A k \in Names : selected \notin ServedBy(k, providers'[k])
        BY <3>2, ServedType DEF Stranding
      <3>4. m = n /\ selected \notin ServedBy(n, request[r].to)
        BY <2>0, <2>3, <2>5, <3>1, <3>3
      <3> QED BY <3>1, <3>4 DEF Lost
    <2> QED BY <2>2, <2>4, <2>6
  <1> QED BY <1>1, Invariant, PTL DEF Spec, SelectionSpared
=============================================================================
