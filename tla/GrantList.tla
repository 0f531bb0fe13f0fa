------------------------------ MODULE GrantList ------------------------------
(***************************************************************************)
(* What the store of a user's grants promises to the requests that add and *)
(* revoke them: every change is made in one step, to the list as it is     *)
(* then, and what was reported as stored goes only when it is revoked or   *)
(* is the oldest beyond the cap.                                           *)
(***************************************************************************)
EXTENDS Naturals, FiniteSets

CONSTANTS Rules, Times,
          MaxGrants     \* as many are stored

VARIABLES stored,       \* when each rule of the list was granted
          kept          \* the rules that a request was told are stored

Init == DOMAIN stored = {} /\ kept = {}

\* The reply of a request may get lost, or tell that rule is stored.
Tells(rules) == kept' = (kept \cap DOMAIN stored') \cup rules

\* The rules of the new list that the old one had are as old as they were.
SameAge == \A s \in DOMAIN stored' \cap DOMAIN stored : stored'[s] = stored[s]

Grant(rule, now) ==
    LET gone == DOMAIN stored \ DOMAIN stored' IN
    /\ rule \notin DOMAIN stored
    /\ rule \in DOMAIN stored' /\ stored'[rule] = now
    /\ DOMAIN stored' \subseteq DOMAIN stored \cup {rule} /\ SameAge
    /\ Cardinality(DOMAIN stored') <= MaxGrants
    /\ gone # {} => Cardinality(DOMAIN stored') = MaxGrants
    /\ \A r \in gone, s \in DOMAIN stored' : stored[r] <= stored'[s]
    /\ Tells({}) \/ Tells({rule})

Confirm(rule) ==
    /\ rule \in DOMAIN stored
    /\ Tells({rule}) /\ UNCHANGED stored

Revoke(rule) ==
    /\ rule \in DOMAIN stored
    /\ DOMAIN stored' = DOMAIN stored \ {rule} /\ SameAge
    /\ Tells({})

Next == \E rule \in Rules :
            Confirm(rule) \/ Revoke(rule) \/ \E now \in Times : Grant(rule, now)

Spec == Init /\ [][Next]_<<stored, kept>>
=============================================================================
