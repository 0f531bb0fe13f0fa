----------------------------- MODULE TurnPromise -----------------------------
(***************************************************************************)
(* What a conversation promises to the user who sends messages, watches    *)
(* and stops them, whatever the connection, the gateway's queue and the    *)
(* order of the requests do: each message meets one fate, a run is only    *)
(* stopped when somebody asked for that, a stream reports at most once and *)
(* nothing but the fate of what it is about, and a Stop that is answered   *)
(* well has stopped what it named for good.                                *)
(***************************************************************************)
CONSTANTS
    Runs,
    Posts,      \* the runs that are messages of the platform
    Attaches,   \* the observers
    Stops,
    None

VARIABLES
    life,       \* "asked", "underway", or the run's fate
    aim,        \* the run that an observer or a Stop is about, or None
    report,     \* the outcome that a stream has told, or "none"
    answer      \* of a Stop: "pending", "ok" or "failed"

promiseVars == <<life, aim, report, answer>>

Endings == {"completed", "error", "stopped"}
Fates   == Endings \cup {"never"}

Init ==
    /\ life = [r \in Runs |-> "asked"]
    /\ aim = [x \in Attaches \cup Stops |-> None]
    /\ report = [h \in Posts \cup Attaches |-> "none"]
    /\ answer = [s \in Stops |-> "pending"]

Begin(r) ==
    /\ life[r] = "asked"
    /\ life' = [life EXCEPT ![r] = "underway"]
    /\ UNCHANGED <<aim, report, answer>>

\* Messages are refused, or lost with the connection.
Withdraw(R) ==
    /\ \A r \in R : life[r] = "asked"
    /\ life' = [r \in Runs |-> IF r \in R THEN "never" ELSE life[r]]
    /\ UNCHANGED <<aim, report, answer>>

End(r, how) ==
    /\ life[r] = "underway"
    /\ how = "stopped" => \E s \in Stops : aim[s] = r
    /\ life' = [life EXCEPT ![r] = how]
    /\ UNCHANGED <<aim, report, answer>>

Aim(x, r) ==
    /\ aim[x] = None
    /\ aim' = [aim EXCEPT ![x] = r]
    /\ UNCHANGED <<life, report, answer>>

\* The runs that a stream may speak of: its own, the one it was attached to, and
\* any of them for an observer that was attached to none in particular.
About(h) == IF h \in Posts THEN {h} ELSE IF aim[h] = None THEN Runs ELSE {aim[h]}

\* A stream may give up with an error on a run that goes on.
Report(h, how) ==
    /\ report[h] = "none"
    /\ how = "error" \/ \E r \in About(h) : life[r] = how
    /\ report' = [report EXCEPT ![h] = how]
    /\ UNCHANGED <<life, aim, answer>>

Answer(s, how) ==
    /\ answer[s] = "pending"
    /\ how = "ok" /\ aim[s] # None => life[aim[s]] \in Fates
    /\ answer' = [answer EXCEPT ![s] = how]
    /\ UNCHANGED <<life, aim, report>>

Next ==
    \/ \E r \in Runs : Begin(r) \/ \E how \in Endings : End(r, how)
    \/ \E R \in SUBSET Posts : Withdraw(R)
    \/ \E x \in Attaches \cup Stops, r \in Runs : Aim(x, r)
    \/ \E h \in Posts \cup Attaches, how \in Endings : Report(h, how)
    \/ \E s \in Stops, how \in {"ok", "failed"} : Answer(s, how)

Spec == Init /\ [][Next]_promiseVars
=============================================================================
