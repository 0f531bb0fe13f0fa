---------------------------- MODULE LlmProviders ----------------------------
(***************************************************************************)
(* The model catalogue: the providers of the builtin AgentTemplate, the    *)
(* credential Secrets behind them, the one selection of a user, and the    *)
(* gateway config that the operator renders from template and Secrets.     *)
(*                                                                         *)
(* An admin's request (POST, PUT, DELETE /api/llms) is a process: it reads *)
(* the template, may list the instances that select what it takes away,    *)
(* writes the template back under its resource version and only then       *)
(* writes or deletes the Secret.  Each of these calls can fail, with or    *)
(* without effect.  A request that is refused changes nothing and is not a *)
(* step.  A request's key is the request itself.                           *)
(***************************************************************************)
EXTENDS Naturals

CONSTANTS Names,        \* provider names
          Models,       \* model ids
          ModelLists,   \* the lists of ids that a request may carry
          Requests,     \* admin requests
          Bundled,      \* the provider that the installation came with
          Installed,    \* and its key
          None,
          MaxFaults     \* API calls that may fail, over all processes

Refs == Names \X Models
Keys == Requests \cup {Installed}

Provider == [keyed : BOOLEAN, models : (SUBSET Models) \ {{}}]
Config == [allow : SUBSET Refs, keyed : SUBSET Names, primary : Refs \cup {None}]

ASSUME CatalogAssumption ==
    /\ ModelLists \subseteq (SUBSET Models) \ {{}}
    /\ Bundled \in Names
    /\ Installed \notin Requests
    /\ None \notin Keys \cup Refs \cup Provider \cup Config
    /\ MaxFaults \in Nat

VARIABLES providers,    \* spec.providers: None, or whether it has a credential and its ids
          default,      \* spec.defaultModel
          version,      \* the template's resource version
          secrets,      \* the key in the Secret llm-<name>
          selected,     \* spec.selectedModel of the user's AgentInstance
          choice,       \* the selection that the user's own request is about to store
          request,      \* the admins' requests
          rendering,    \* what the operator has rendered and not yet written
          rendered,     \* openclaw.json in the openclaw-config Secret
          faults        \* how many calls have failed

templateVars == <<providers, default, version>>
catalogVars == <<providers, default, version, secrets, selected, choice, request,
                 rendering, rendered>>

RefsOf(n, ids) == {n} \X ids

\* The refs that a template serves.
Served(ps) == UNION {RefsOf(n, ps[n].models) : n \in {m \in Names : ps[m] # None}}

Fault == faults < MaxFaults /\ faults' = faults + 1

-----------------------------------------------------------------------------
\* The admin's requests.

Idle == [step |-> "idle"]
Done == [step |-> "done"]
Body(step, name, to, secret, drops) ==
    [step |-> step, name |-> name, to |-> to, secret |-> secret, drops |-> drops,
     read |-> version, listed |-> None]

At(r, step) == request[r].step = step
Becomes(r, value) == request' = [request EXCEPT ![r] = value]

\* POST: a new name, with a key or declared public.
Add(r) ==
    /\ At(r, "idle")
    /\ \E n \in Names, ids \in ModelLists, keyed \in BOOLEAN :
         /\ providers[n] = None
         /\ Becomes(r, Body("write", n, [keyed |-> keyed, models |-> ids],
                            IF keyed THEN "put" ELSE "leave", {}))
    /\ UNCHANGED <<templateVars, secrets, selected, choice, rendering, rendered, faults>>

\* PUT: the whole list of ids, and a key, "keep the stored one" or public.
Edit(r) ==
    /\ At(r, "idle")
    /\ \E n \in Names, ids \in ModelLists, key \in {"put", "leave", "delete"} :
         /\ providers[n] # None
         /\ key = "leave" => providers[n].keyed
         /\ LET drops == RefsOf(n, providers[n].models \ ids)
            IN Becomes(r, Body(IF drops = {} THEN "write" ELSE "list", n,
                               [keyed |-> key # "delete", models |-> ids],
                               IF key = "delete" /\ ~providers[n].keyed THEN "leave" ELSE key,
                               drops))
    /\ UNCHANGED <<templateVars, secrets, selected, choice, rendering, rendered, faults>>

\* DELETE takes every id of the provider away, and its Secret with it.
Delete(r) ==
    /\ At(r, "idle")
    /\ \E n \in Names :
         /\ providers[n] # None
         /\ Becomes(r, Body("list", n, None, IF providers[n].keyed THEN "delete" ELSE "leave",
                            RefsOf(n, providers[n].models)))
    /\ UNCHANGED <<templateVars, secrets, selected, choice, rendering, rendered, faults>>

\* instancesSelecting: refuse while somebody selects what would go.
DefaultDropped(r) == default \in request[r].drops
Selecting(r) == selected \in request[r].drops

List(r) ==
    /\ At(r, "list")
    /\ \/ /\ Becomes(r, IF Selecting(r) THEN Done
                        ELSE [request[r] EXCEPT !.step = "write", !.listed = selected])
          /\ UNCHANGED faults
       \/ Fault /\ Becomes(r, Done)
    /\ UNCHANGED <<templateVars, secrets, selected, choice, rendering, rendered>>

\* The template's Update is refused when its version is not the one read.
Current(r) == request[r].read = version

Commit(r) ==
    /\ providers' = [providers EXCEPT ![request[r].name] = request[r].to]
    /\ default' = IF default \in request[r].drops THEN None ELSE default
    /\ version' = version + 1

Write(r) ==
    /\ At(r, "write")
    /\ \/ /\ Current(r)
          /\ Commit(r)
          /\ Becomes(r, IF request[r].secret = "leave" THEN Done
                        ELSE [request[r] EXCEPT !.step = "secret"])
          /\ UNCHANGED faults
       \/ ~Current(r) /\ Becomes(r, Done) /\ UNCHANGED <<templateVars, faults>>
       \/ Fault /\ Becomes(r, Done) /\ ((Current(r) /\ Commit(r)) \/ UNCHANGED templateVars)
    /\ UNCHANGED <<secrets, selected, choice, rendering, rendered>>

\* upsertLLMCredential or removeProviderCredential, after the template.  A Secret that is
\* not named after its provider (that of the bundled one) is left in place, but nothing
\* refers to it any more: to every reader the provider has none.
WriteSecret(r) ==
    /\ At(r, "secret")
    /\ LET stored == [secrets EXCEPT ![request[r].name] =
                          IF request[r].secret = "put" THEN r ELSE None]
       IN \/ secrets' = stored /\ UNCHANGED faults
          \/ Fault /\ secrets' \in {secrets, stored}
    /\ Becomes(r, Done)
    /\ UNCHANGED <<templateVars, selected, choice, rendering, rendered>>

RequestStep(r) == Add(r) \/ Edit(r) \/ Delete(r) \/ List(r) \/ Write(r) \/ WriteSecret(r)

-----------------------------------------------------------------------------
\* PUT /api/agent/config: the selection is checked against the template, and the
\* instance is written afterwards.  One such request is modelled.

Choose ==
    /\ choice.step = "idle"
    /\ \E ref \in Served(providers) \cup {None} :
         ref # selected /\ choice' = [step |-> "store", ref |-> ref]
    /\ UNCHANGED <<templateVars, secrets, selected, request, rendering, rendered, faults>>

StoreChoice ==
    /\ choice.step = "store"
    /\ choice' = [choice EXCEPT !.step = "done"]
    /\ \/ selected' = choice.ref /\ UNCHANGED faults
       \/ Fault /\ selected' \in {selected, choice.ref}
    /\ UNCHANGED <<templateVars, secrets, request, rendering, rendered>>

-----------------------------------------------------------------------------
\* The operator.  A provider whose Secret is missing is left out; the primary is
\* the template's default while a rendered provider serves it, or else some model
\* that one serves.

Live(ps, keys) == {n \in Names : ps[n] # None /\ (ps[n].keyed => keys[n] # None)}

Render(ps, def, keys) ==
    LET live == Live(ps, keys)
        allow == UNION {RefsOf(n, ps[n].models) : n \in live}
    IN [allow |-> allow,
        keyed |-> {n \in live : ps[n].keyed},
        primary |-> IF def \in allow THEN def
                    ELSE IF allow = {} THEN None ELSE CHOOSE ref \in allow : TRUE]

\* Reconcile is called again until what it renders is what the Secret holds.
RenderRead ==
    /\ rendering = None
    /\ Render(providers, default, secrets) # rendered
    /\ rendering' = Render(providers, default, secrets)
    /\ UNCHANGED <<templateVars, secrets, selected, choice, request, rendered, faults>>

RenderWrite ==
    /\ rendering # None
    /\ rendering' = None
    /\ \/ rendered' = rendering /\ UNCHANGED faults
       \/ Fault /\ rendered' \in {rendered, rendering}
    /\ UNCHANGED <<templateVars, secrets, selected, choice, request>>

-----------------------------------------------------------------------------
\* The internal API, as the pod pulls it.

\* Resolve fails closed on a selection that the template does not serve.
Resolvable == selected \in Served(providers) \cup {None}

\* The credentials of the resolved config, by provider.
Credentials == {n \in Names : providers[n] # None /\ providers[n].keyed}

\* The rendered config with the user's selection as its primary, where the
\* selection resolves and the rendered config allows it.
ChosenConfig ==
    IF selected # None /\ Resolvable THEN [rendered EXCEPT !.primary = selected] ELSE rendered

PersonalConfig ==
    IF selected # None /\ Resolvable /\ selected \in rendered.allow
    THEN [rendered EXCEPT !.primary = selected]
    ELSE rendered

-----------------------------------------------------------------------------
CatalogInit ==
    /\ \E ids \in ModelLists :
         /\ providers = [n \in Names |-> IF n = Bundled THEN [keyed |-> TRUE, models |-> ids]
                                         ELSE None]
         /\ default \in RefsOf(Bundled, ids) \cup {None}
    /\ version = 0
    /\ secrets = [n \in Names |-> IF n = Bundled THEN Installed ELSE None]
    /\ selected = None
    /\ choice = [step |-> "idle", ref |-> None]
    /\ request = [r \in Requests |-> Idle]
    /\ rendering = None
    /\ rendered = Render(providers, default, secrets)
    /\ faults = 0

CatalogNext ==
    \/ \E r \in Requests : RequestStep(r)
    \/ Choose \/ StoreChoice
    \/ RenderRead \/ RenderWrite

CatalogFairness ==
    /\ \A r \in Requests : WF_<<catalogVars, faults>>(List(r) \/ Write(r) \/ WriteSecret(r))
    /\ WF_<<catalogVars, faults>>(StoreChoice)
    /\ WF_<<catalogVars, faults>>(RenderRead \/ RenderWrite)

-----------------------------------------------------------------------------
RequestState ==
    {Idle, Done} \cup
    [step : {"list", "write", "secret"}, name : Names, to : Provider \cup {None},
     secret : {"put", "leave", "delete"}, drops : SUBSET Refs, read : Nat,
     listed : Refs \cup {None}]

CatalogTypeOK ==
    /\ providers \in [Names -> Provider \cup {None}]
    /\ default \in Refs \cup {None}
    /\ version \in Nat
    /\ secrets \in [Names -> Keys \cup {None}]
    /\ selected \in Refs \cup {None}
    /\ choice \in [step : {"idle", "store", "done"}, ref : Refs \cup {None}]
    /\ request \in [Requests -> RequestState]
    /\ rendering \in Config \cup {None}
    /\ rendered \in Config
    /\ faults \in 0..MaxFaults

\* No admin's write takes away the model that the user selects, unless the user
\* came to select it after that admin's list of the selecting instances
\* (handlers_llms.go:307-325, 520-541).
Stranding == selected \in Served(providers) /\ selected \notin Served(providers')

SelectionSpared ==
    [][Stranding => \E r \in Requests : At(r, "write") /\ request[r].listed # selected
      ]_<<catalogVars, faults>>
=============================================================================
