----------------------------- MODULE SessionTurns -----------------------------
(***************************************************************************)
(* One conversation of one user in internal/server: the requests that      *)
(* start a turn (POST .../messages), observe a parked one (GET .../turn/   *)
(* events) and stop it (POST .../abort), over the SSE hub's one slot and   *)
(* the gateway's runs.                                                     *)
(*                                                                         *)
(* A request is a process with a program counter.  A step ends where the   *)
(* code waits or releases a lock: at an RPC, a channel, a critical         *)
(* section.  An RPC has its effect and its answer in one step when it      *)
(* succeeds; when it fails the effect may be absent, done, or still on     *)
(* the way (`wire`).  A request may find its client gone at every wait.    *)
(*                                                                         *)
(* Non-terminal SSE events, the records of a Stop that only concern        *)
(* approvals (module Approvals) and metrics are left out.                  *)
(***************************************************************************)
EXTENDS SseHub, OpenClawGateway, Naturals

CONSTANTS
    Posts,      \* POST .../messages; a post is also the run id it generates
    Attaches,   \* GET .../turn/events
    Stops,      \* POST .../abort
    Outside,    \* runs that another writer starts on the same session key
    MaxDrops,   \* bound on how often the WebSocket is lost
    LossyUnsubscribe \* the best-effort unsubscribe of releaseLive may be lost

ASSUME ProcessesAssumption ==
    /\ Handlers = Posts \cup Attaches
    /\ Runs = Posts \cup Outside
    /\ Posts \cap Attaches = {} /\ Posts \cap Outside = {}
    /\ Stops \cap Handlers = {}
    /\ None \notin Runs
ASSUME BoundsAssumption == MaxDrops \in Nat /\ LossyUnsubscribe \in BOOLEAN

VARIABLES
    pc,         \* where each request is
    gw,         \* the connection a handler captured: "none", "up" or "lost"
    live,       \* gatewayConns.live[key]: the handler whose turn is registered
    runID,      \* liveTurn.runID, None while the turn accepts every run
    fin,        \* liveTurn.doneErr/doneStopped once done is closed, else "none"
    verdict,    \* the outcome a handler is about to report, "none" to say nothing
    said,       \* the message_done its stream carried, "none" without one
    target,     \* the run a Stop aborts, or an attach was gated on; None
    todo,       \* the questions a settling Stop has still to cancel
    drops       \* how often the WebSocket was lost

turnVars == <<gw, live, runID, fin, verdict, said>>
stopVars == <<target, todo>>
vars     == <<hubVars, gatewayVars, pc, turnVars, stopVars, drops>>

Outcomes == Endings \cup {"none"}
HandlerPC == {"gate", "open", "prepare", "arm", "subscribe", "send", "await",
              "revalidate", "observe", "release", "say", "close", "remove", "end"}
StopPC == {"target", "abort", "reconcile", "settle", "cancel", "wait",
           "recheck", "confirm", "ok", "failed"}

PcTypeOK ==
    /\ pc \in [Handlers \cup Stops -> HandlerPC \cup StopPC]
    /\ \A h \in Handlers : pc[h] \in HandlerPC
    /\ \A s \in Stops : pc[s] \in StopPC
    /\ \A s \in Stops : pc[s] = "abort" => target[s] # None

TurnTypeOK ==
    /\ gw \in [Handlers -> {"none", "up", "lost"}]
    /\ live \in Handlers \cup {None}
    /\ runID \in [Handlers -> Runs \cup {None}]
    /\ fin \in [Handlers -> Outcomes]
    /\ verdict \in [Handlers -> Outcomes]
    /\ said \in [Handlers -> Outcomes]

StopTypeOK ==
    /\ target \in [Attaches \cup Stops -> Runs \cup {None}]
    /\ todo \in [Stops -> SUBSET Runs]

\* Every variable is in its type.
TypeOK ==
    /\ HubTypeOK
    /\ GatewayTypeOK
    /\ PcTypeOK
    /\ TurnTypeOK
    /\ StopTypeOK
    /\ drops \in 0..MaxDrops

Init ==
    /\ HubInit
    /\ GatewayInit
    /\ pc = [p \in Handlers \cup Stops |->
                IF p \in Posts THEN "open"
                ELSE IF p \in Attaches THEN "gate" ELSE "target"]
    /\ gw = [h \in Handlers |-> "none"]
    /\ live = None
    /\ runID = [h \in Handlers |-> None]
    /\ fin = [h \in Handlers |-> "none"]
    /\ verdict = [h \in Handlers |-> "none"]
    /\ said = [h \in Handlers |-> "none"]
    /\ target = [p \in Attaches \cup Stops |-> None]
    /\ todo = [s \in Stops |-> {}]
    /\ drops = 0

At(p, here)   == pc[p] = here
Goto(p, next) == pc' = [pc EXCEPT ![p] = next]

-----------------------------------------------------------------------------
(* What the two kinds of stream handlers share.                            *)

\* An RPC of handler h on the connection it captured gets its answer.
Usable(h) == gw[h] = "up" /\ wire = {}

\* What a failure makes a handler report: a turn that could not run is an
\* error; an attach that observed nothing (errAttachSetup) says nothing.
Failure(h) == IF h \in Posts THEN "error" ELSE "none"

\* The failure path once the turn is registered: releaseLive is deferred.
GiveUp(h) ==
    /\ verdict' = [verdict EXCEPT ![h] = Failure(h)]
    /\ Goto(h, "release")
    /\ UNCHANGED <<gw, live, runID, fin, said>>

\* hub.Open, before any response header: 409 when the slot is taken.
OpenStream(h) ==
    /\ At(h, "open")
    /\ \/ Open(h) /\ Goto(h, "prepare")
       \/ ~Free /\ Goto(h, "end") /\ UNCHANGED hubVars
    /\ UNCHANGED <<gatewayVars, turnVars, stopVars, drops>>

\* Everything up to registerLive: the instance, the model and the policy of a
\* post, the connection (dialled when there is none) and sessions.create and
\* .patch.  Nothing of it touches the session's runs.
Prepare(h) ==
    /\ At(h, "prepare")
    /\ \/ /\ wire = {}
          /\ connected' = TRUE
          /\ gw' = [gw EXCEPT ![h] = "up"]
          /\ live' = h
          /\ Goto(h, "arm")
          /\ UNCHANGED verdict
       \/ /\ connected' \in {connected, TRUE}
          /\ verdict' = [verdict EXCEPT ![h] = Failure(h)]
          /\ Goto(h, "say")
          /\ UNCHANGED <<gw, live>>
    /\ UNCHANGED <<hubVars, run, ending, ask, subscribed, events, wire, runID,
                   fin, said, stopVars, drops>>

\* A mutant: an attach expects its own id, as a post does.
OwnId(h) == h

\* The run whose frames the turn accepts.
ExpectedRun(h) == IF h \in Posts THEN h ELSE target[h]

\* A mutant: the turn is never told its run.
Unarmed(h) ==
    /\ At(h, "arm")
    /\ Goto(h, "subscribe")
    /\ UNCHANGED <<hubVars, gatewayVars, turnVars, stopVars, drops>>

\* liveTurn.setRunID, after the turn is already registered.  An attach gated
\* on an approval has no run id and goes on accepting every run.
Arm(h) ==
    /\ At(h, "arm")
    /\ runID' = [runID EXCEPT ![h] = ExpectedRun(h)]
    /\ Goto(h, "subscribe")
    /\ UNCHANGED <<hubVars, gatewayVars, gw, live, fin, verdict, said, stopVars, drops>>

Subscribe(h) ==
    /\ At(h, "subscribe")
    /\ \/ /\ Usable(h)
          /\ subscribed' = TRUE
          /\ Goto(h, IF h \in Posts THEN "send" ELSE "revalidate")
          /\ UNCHANGED turnVars
       \/ /\ UNCHANGED subscribed \/ (Usable(h) /\ subscribed' = TRUE)
          /\ GiveUp(h)
    /\ UNCHANGED <<hubVars, run, ending, ask, connected, events, wire, stopVars, drops>>

\* releaseLive drops the registration of the user's turn, whichever it is, and
\* then asks the gateway to stop the stream, best effort.  Its answer arrives
\* behind every event sent before it.
Release(h) ==
    /\ At(h, "release")
    /\ live' = None
    /\ \/ Usable(h) /\ events = <<>> /\ subscribed' = FALSE
       \/ (LossyUnsubscribe \/ gw[h] # "up") /\ UNCHANGED subscribed
    /\ Goto(h, "say")
    /\ UNCHANGED <<hubVars, run, ending, ask, connected, events, wire, gw, runID,
                   fin, verdict, said, stopVars, drops>>

\* The one terminal event, liveTurnDone, unless there is none to report or the
\* client is gone.
Say(h) ==
    /\ At(h, "say")
    /\ \/ Writable(h) /\ said' = [said EXCEPT ![h] = verdict[h]]
       \/ UNCHANGED said
    /\ Goto(h, "close")
    /\ UNCHANGED <<hubVars, gatewayVars, gw, live, runID, fin, verdict, stopVars, drops>>

\* The deferred stream.Close, in its two critical sections.
Close(h) ==
    /\ At(h, "close")
    /\ MarkClosed(h)
    /\ Goto(h, "remove")
    /\ UNCHANGED <<gatewayVars, turnVars, stopVars, drops>>

\* With it the handler returns: its locals and its liveTurn are garbage.
Leave(h) ==
    /\ At(h, "remove")
    /\ Remove(h)
    /\ Goto(h, "end")
    /\ gw' = [gw EXCEPT ![h] = "none"]
    /\ runID' = [runID EXCEPT ![h] = None]
    /\ fin' = [fin EXCEPT ![h] = "none"]
    /\ verdict' = [verdict EXCEPT ![h] = "none"]
    /\ UNCHANGED <<gatewayVars, live, said, stopVars, drops>>

-----------------------------------------------------------------------------
(* POST .../messages: the turn itself.                                     *)

\* sessions.send.  When it fails the message may have been handled, may be on
\* its way, or may be lost.  The run id in the reply is the idempotency key of the
\* message: the turn keeps the one it has (live.go:208-210).
Send(p) ==
    /\ At(p, "send")
    /\ \/ /\ Usable(p)
          /\ Accept(p)
          /\ Goto(p, "await")
          /\ UNCHANGED <<turnVars, wire>>
       \/ /\ \/ UNCHANGED <<run, wire>>
             \/ Usable(p) /\ Accept(p) /\ UNCHANGED wire
             \/ /\ gw[p] = "up"
                /\ wire' = wire \cup {[op |-> "send", run |-> p]}
                /\ UNCHANGED run
          /\ GiveUp(p)
    /\ UNCHANGED <<hubVars, ending, ask, connected, subscribed, events, stopVars, drops>>

\* The select that ends a turn.  Every branch runs the deferred releaseLive.
EndWait(p, how) ==
    /\ At(p, "await")
    /\ verdict' = [verdict EXCEPT ![p] = how]
    /\ Goto(p, "release")
    /\ UNCHANGED <<hubVars, gatewayVars, gw, live, runID, fin, said, stopVars, drops>>

\* The terminal frame closed t.done.
SeeTerminal(p) == fin[p] # "none" /\ EndWait(p, fin[p])

\* What agent.wait may say of a run that is over; it fails when the run did,
\* and it cannot be relied on either way for a run that was stopped.
WaitSays(p) ==
    (IF ending[p] = "error" THEN {} ELSE {"ok"})
        \cup (IF ending[p] = "completed" THEN {} ELSE {"failed"})

\* The backstop: agent.wait answers, behind every frame sent before it, and a
\* frame that was delivered during the tail still decides.
SeeBackstop(p) ==
    /\ Usable(p) /\ run[p] = "over"
    /\ \A i \in DOMAIN events : events[i] # p
    /\ \/ "ok" \in WaitSays(p)
          /\ EndWait(p, IF fin[p] = "none" THEN "completed" ELSE fin[p])
       \/ "failed" \in WaitSays(p) /\ EndWait(p, "error")

\* A mutant: a turn that waits for its terminal frame alone.
NoBackstop(p) == FALSE

\* The connection is gone, and agent.wait fails with it.
SeeConnectionLost(p) == gw[p] = "lost" /\ EndWait(p, "error")

\* The client left.
SeeClientGone(p) == EndWait(p, "error")

-----------------------------------------------------------------------------
(* GET .../turn/events: observing a run that is parked.                    *)

\* parkedTurn, the gate: a question names its run, an approval names none.
Gate(o) ==
    /\ At(o, "gate")
    /\ \/ /\ Answers
          /\ \/ target' \in {[target EXCEPT ![o] = r] : r \in Pending("question")}
             \/ Pending("question") = {} /\ Parked # {} /\ UNCHANGED target
          /\ Goto(o, "open")
       \/ Goto(o, "end") /\ UNCHANGED target
    /\ UNCHANGED <<hubVars, gatewayVars, turnVars, todo, drops>>

\* parkedTurn again, once the subscription is up: is the session still parked?
Revalidate(o) ==
    /\ At(o, "revalidate")
    /\ \/ Answers /\ Parked # {} /\ Goto(o, "observe") /\ UNCHANGED turnVars
       \/ GiveUp(o)
    /\ UNCHANGED <<hubVars, gatewayVars, stopVars, drops>>

\* The run's own terminal frame, or attachCap, or the client left: only the
\* first is an outcome.
Observe(o) ==
    /\ At(o, "observe")
    /\ \/ fin[o] # "none" /\ verdict' = [verdict EXCEPT ![o] = fin[o]]
       \/ UNCHANGED verdict
    /\ Goto(o, "release")
    /\ UNCHANGED <<hubVars, gatewayVars, gw, live, runID, fin, said, stopVars, drops>>

\* routeLive: a terminal frame finishes the live turn that accepts its run, and
\* only the first one counts.  A sink that fails finishes it with an error.
Accepts(h, r) == runID[h] \in {None, r}

RouteTerminal ==
    /\ events # <<>>
    /\ events' = Tail(events)
    /\ LET r == Head(events) IN
         IF live # None /\ Accepts(live, r) /\ fin[live] = "none"
         THEN \E how \in {ending[r], "error"} : fin' = [fin EXCEPT ![live] = how]
         ELSE UNCHANGED fin
    /\ UNCHANGED <<hubVars, run, ending, ask, connected, subscribed, wire, pc, gw,
                   live, runID, verdict, said, stopVars, drops>>

-----------------------------------------------------------------------------
(* POST .../abort.                                                         *)

\* The live turn's run id, when there is one.
LiveRunID == IF live = None THEN None ELSE runID[live]

Answer(s, how) == Goto(s, how) /\ UNCHANGED todo

\* The run to stop: the live turn's, or else the one the gateway reports.  A
\* read that fails, or that sees a run without an id, refuses the Stop.
NameTarget(s) ==
    /\ At(s, "target")
    /\ \/ /\ LiveRunID # None
          /\ target' = [target EXCEPT ![s] = LiveRunID]
          /\ Answer(s, "abort")
       \/ /\ LiveRunID = None
          /\ \/ /\ Answers
                /\ \E r \in InFlight : target' = [target EXCEPT ![s] = r]
                /\ Answer(s, "abort")
             \/ Answers /\ ~Busy /\ Answer(s, "settle") /\ UNCHANGED target
             \/ Answer(s, "failed") /\ UNCHANGED target
    /\ UNCHANGED <<hubVars, gatewayVars, turnVars, drops>>

\* A mutant: the session-scoped abort, which stops whatever runs.
SessionScope(s) == InFlight \cup {target[s]}

\* What an abort may stop.
Scope(s) == {target[s]}

\* chat.abort, scoped to the target.  Only aborted=true proves the stop; an
\* error may hide one that was honoured, or one that still will be.
Abort(s) ==
    /\ At(s, "abort")
    /\ \/ /\ Answers
          /\ \E aborted \in BOOLEAN, r \in Scope(s) :
                /\ Kill(r, aborted)
                /\ Answer(s, IF aborted THEN "settle" ELSE "reconcile")
          /\ UNCHANGED wire
       \/ /\ \/ UNCHANGED <<run, ending, ask, events, wire>>
             \/ Answers /\ (\E r \in Scope(s) : Kill(r, TRUE)) /\ UNCHANGED wire
             \/ /\ connected
                /\ wire' = wire \cup {[op |-> "abort", run |-> target[s]]}
                /\ UNCHANGED <<run, ending, ask, events>>
          /\ Answer(s, "reconcile")
    /\ UNCHANGED <<hubVars, connected, subscribed, turnVars, target, drops>>

\* A mutant: a read that cannot answer counts as "not busy".
LandedUnlessBusy == ~(Answers /\ Busy)

\* abortLanded: nothing but a positive "not busy" counts.
Landed == Answers /\ ~Busy

Reconcile(s) ==
    /\ At(s, "reconcile")
    /\ \/ Landed /\ Answer(s, "settle")
       \/ Answer(s, "failed")
    /\ UNCHANGED <<hubVars, gatewayVars, turnVars, target, drops>>

\* settlePendingForSession, the questions: every one the session has pending.
ListQuestions(s) ==
    /\ At(s, "settle")
    /\ \/ /\ Answers
          /\ todo' = [todo EXCEPT ![s] = Pending("question")]
          /\ Goto(s, "cancel")
       \/ Goto(s, "wait") /\ UNCHANGED todo
    /\ UNCHANGED <<hubVars, gatewayVars, turnVars, target, drops>>

\* question.resolve with cancel, one after the other; a failure is skipped.
CancelQuestion(s, r) ==
    /\ At(s, "cancel")
    /\ r \in todo[s]
    /\ todo' = [todo EXCEPT ![s] = @ \ {r}]
    /\ \/ Answers /\ r \in Parked /\ ask' = [ask EXCEPT ![r] = "cancelled"]
       \/ UNCHANGED ask
    /\ UNCHANGED <<hubVars, run, ending, connected, subscribed, events, wire, pc,
                   turnVars, target, drops>>

Cancelled(s) ==
    /\ At(s, "cancel")
    /\ todo[s] = {}
    /\ Answer(s, "wait")
    /\ UNCHANGED <<hubVars, gatewayVars, turnVars, target, drops>>

\* A mutant: the gateway's word is enough to ask the hub only once, at the end.
SkipHubWait(s) ==
    /\ At(s, "wait")
    /\ Answer(s, "recheck")
    /\ UNCHANGED <<hubVars, gatewayVars, turnVars, target, drops>>

\* waitSessionIdle: the hub reports idle, the gateway is asked, and the hub is
\* read again; any disagreement starts over.
SeeHubIdle(s) ==
    /\ At(s, "wait")
    /\ Free
    /\ Answer(s, "recheck")
    /\ UNCHANGED <<hubVars, gatewayVars, turnVars, target, drops>>

AskGateway(s) ==
    /\ At(s, "recheck")
    /\ \/ Answers /\ Answer(s, IF Busy THEN "wait" ELSE "confirm")
       \/ Answer(s, "failed")
    /\ UNCHANGED <<hubVars, gatewayVars, turnVars, target, drops>>

SeeHubStillIdle(s) ==
    /\ At(s, "confirm")
    /\ Answer(s, IF Free THEN "ok" ELSE "wait")
    /\ UNCHANGED <<hubVars, gatewayVars, turnVars, target, drops>>

\* A mutant: a wait without a deadline.
WaitForever(s) == FALSE

\* The five seconds of abortSettleTimeout are over: 504.
GiveUpWaiting(s) ==
    /\ At(s, "wait")
    /\ Answer(s, "failed")
    /\ UNCHANGED <<hubVars, gatewayVars, turnVars, target, drops>>

-----------------------------------------------------------------------------
(* The connection and the session's other writers.                         *)

\* GET .../turn establishes the channel before it asks.
TurnStatus ==
    /\ ~connected
    /\ connected' = TRUE
    /\ UNCHANGED <<hubVars, run, ending, ask, subscribed, events, wire, pc,
                   turnVars, stopVars, drops>>

\* The WebSocket is lost with everything on it; handlers keep the dead client.
Drop ==
    /\ connected
    /\ drops < MaxDrops
    /\ drops' = drops + 1
    /\ connected' = FALSE
    /\ subscribed' = FALSE
    /\ events' = <<>>
    /\ wire' = {}
    /\ gw' = [h \in Handlers |-> IF gw[h] = "up" THEN "lost" ELSE gw[h]]
    /\ UNCHANGED <<hubVars, run, ending, ask, pc, live, runID, fin, verdict, said, stopVars>>

\* A message from outside the platform, on the same session key.
OutsideSend(r) ==
    /\ run[r] = "new"
    /\ Accept(r)
    /\ UNCHANGED <<hubVars, ending, ask, connected, subscribed, events, wire, pc,
                   turnVars, stopVars, drops>>

GatewayStep ==
    /\ \/ \E r \in Runs : Park(r) \/ Decide(r) \/ End(r)
       \/ \E f \in wire : HandleLate(f)
    /\ UNCHANGED <<hubVars, pc, turnVars, stopVars, drops>>

HandlerStep(h) ==
    \/ OpenStream(h) \/ Prepare(h) \/ Arm(h) \/ Subscribe(h)
    \/ Release(h) \/ Say(h) \/ Close(h) \/ Leave(h)

PostStep(p) ==
    \/ Send(p) \/ SeeTerminal(p) \/ SeeBackstop(p)
    \/ SeeConnectionLost(p) \/ SeeClientGone(p)

AttachStep(o) == Gate(o) \/ Revalidate(o) \/ Observe(o)

StopStep(s) ==
    \/ NameTarget(s) \/ Abort(s) \/ Reconcile(s)
    \/ ListQuestions(s) \/ (\E r \in Runs : CancelQuestion(s, r)) \/ Cancelled(s)
    \/ SeeHubIdle(s) \/ AskGateway(s) \/ SeeHubStillIdle(s) \/ GiveUpWaiting(s)

Next ==
    \/ \E h \in Handlers : HandlerStep(h)
    \/ \E p \in Posts : PostStep(p)
    \/ \E o \in Attaches : AttachStep(o)
    \/ \E s \in Stops : StopStep(s)
    \/ RouteTerminal
    \/ GatewayStep
    \/ \E r \in Outside : OutsideSend(r)
    \/ TurnStatus
    \/ Drop

Spec == Init /\ [][Next]_vars

\* Handlers run; a call is answered or fails; what was written is handled and
\* what was sent is delivered; a deadline that keeps passing is noticed.  That a
\* client leaves, a run ends or the connection drops is not promised.
Fairness ==
    /\ \A h \in Handlers : WF_vars(HandlerStep(h))
    /\ \A p \in Posts : /\ WF_vars(Send(p))
                        /\ WF_vars(SeeTerminal(p))
                        /\ WF_vars(SeeBackstop(p))
                        /\ WF_vars(SeeConnectionLost(p))
    /\ \A s \in Stops : WF_vars(StopStep(s)) /\ SF_vars(GiveUpWaiting(s))
    /\ WF_vars(RouteTerminal)
    /\ WF_vars(\E f \in wire : HandleLate(f)
                  /\ UNCHANGED <<hubVars, pc, turnVars, stopVars, drops>>)

FairSpec == Spec /\ Fairness

-----------------------------------------------------------------------------
(* The run as its user sees it.                                            *)

\* The request of the message is over, and the gateway neither has the message
\* nor will get it.
NeverRuns(r) ==
    /\ run[r] = "new"
    /\ r \in Posts /\ At(r, "end")
    /\ [op |-> "send", run |-> r] \notin wire

Life(r) ==
    CASE run[r] = "over" -> ending[r]
      [] run[r] \in {"queued", "running"} -> "underway"
      [] NeverRuns(r) -> "never"
      [] OTHER -> "asked"

Promise == INSTANCE TurnPromise WITH
    life <- [r \in Runs |-> Life(r)],
    aim <- target,
    report <- said,
    answer <- [s \in Stops |-> IF pc[s] \in {"ok", "failed"} THEN pc[s] ELSE "pending"]

-----------------------------------------------------------------------------
(* Properties.                                                             *)

\* The registered live turn is that of the request whose stream holds the
\* session's slot, and that stream still accepts events: releaseLive runs
\* before stream.Close, so no turn is routed to a stream that is gone and no
\* request unregisters its successor's turn.
LiveTurnHoldsStream ==
    live # None => active = live /\ Writable(live)

\* A Stop that answered 200 stopped the run it named: that run is over, or it
\* never started and no longer can.  This must survive lost replies, an abort
\* that overtakes the message, and a turn that is still being set up.
StopProven ==
    \A s \in Stops : At(s, "ok") /\ target[s] # None =>
        \/ run[target[s]] = "over"
        \/ /\ run[target[s]] = "new"
           /\ target[s] \in Posts => At(target[s], "end")
           /\ [op |-> "send", run |-> target[s]] \notin wire

\* A turn reports a completion or a stop only for its own run, and only the
\* way that run ended; it never reports a stopped run as a completion.
OwnOutcome ==
    \A p \in Posts : said[p] \in {"completed", "stopped"} =>
        run[p] = "over" /\ ending[p] = said[p]

\* The conversation keeps the promise of TurnPromise: every message meets one fate,
\* which no late frame, lost reply or promotion takes back; what its stream, an
\* observer or a Stop tells the user is that fate.
PromiseKept == Promise!Spec

\* A run is stopped only by a Stop that named it: never one that was promoted
\* or started in place of the run the Stop read.
OnlyNamedRunsAreStopped ==
    [][\A r \in Runs : ending'[r] = "stopped" /\ ending[r] # "stopped" =>
          \E s \in Stops : target[s] = r]_vars

\* A Stop settles the session's records only on a proof: its run is not in
\* flight, and neither is any other when it named none.
SettleOnProof ==
    [][\A s \in Stops : ~At(s, "settle") /\ pc'[s] = "settle" =>
          IF target[s] = None THEN ~Busy
          ELSE run'[target[s]] \in {"new", "over"}]_vars

\* The invariant handleAbort states: a settle never cancels the question of a
\* run that is still in flight.
SettleSparesLiveRuns ==
    [][\A r \in Runs : ask'[r] = "cancelled" /\ ask[r] = "question" =>
          run'[r] = "over"]_vars

\* What the revalidation of an attach is for: once it has passed, the run whose
\* frames the stream waits for is still parked, so its end is still to come.
AttachStillParked ==
    [][\A o \in Attaches : At(o, "revalidate") /\ pc'[o] = "observe" =>
          runID[o] \in Parked \cup {None}]_vars

\* A turn frees the session once its run is over or its connection is lost,
\* without the client's help: otherwise every later message is refused 409.
TurnEnds ==
    \A p \in Posts :
        At(p, "await") /\ (run[p] = "over" \/ gw[p] = "lost") ~> At(p, "end")

\* Every Stop is answered, however busy the session stays.
StopIsAnswered ==
    \A s \in Stops : At(s, "target") ~> pc[s] \in {"ok", "failed"}
=============================================================================
