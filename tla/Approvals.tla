------------------------------ MODULE Approvals ------------------------------
(***************************************************************************)
(* The approvals of one session in internal/server/approvals.go and        *)
(* settle.go: the decisions that the Portal's tabs post, the Stops that    *)
(* settle what a stopped turn left behind, the relay of the gateway's own  *)
(* broadcasts, and the card that the attached view shows for each.         *)
(*                                                                         *)
(* The platform keeps no copy of a pending approval.  The gateway holds    *)
(* the records (external); the platform holds a reservation per decision   *)
(* that is being written.  A decision's RPC can fail with its effect done, *)
(* absent or still to come, and the API process can restart at any step.   *)
(*                                                                         *)
(* The durable grant of an allow-always decision belongs to the grants     *)
(* store; until then it is an approve.                                     *)
(***************************************************************************)
EXTENDS Sequences, FiniteSets

CONSTANTS
    Approvals,  \* approval ids, all raised by the session's one run
    Deciders,   \* POST .../approvals/decision requests
    Stops,      \* POST .../abort requests, their settling of approvals
    None        \* nobody, nothing

ASSUME RequestsAssumption ==
    /\ Deciders \cap Stops = {}
    /\ None \notin Deciders \cup Approvals

VARIABLES
    status,     \* gateway: "absent", "pending", or how the approval ended
    by,         \* gateway: the request whose decision it honoured, None if others
    runOver,    \* gateway: the run that raises the approvals is over
    late,       \* decisions whose requests gave up, still on their way
    news,       \* broadcasts on their way to the platform, per approval in order
    inflight,   \* ApprovalService.inflight: the request that holds the id
    request,    \* what each request asks: an approval and a decision
    pc,         \* where each request is
    answer,     \* what a decision request was answered
    captured,   \* the approvals a Stop has still to settle
    aim,        \* the approval a Stop is about to publish for
    ledger,     \* the audit ledger's decision for each approval, or "none"
    open,       \* the session has an open stream
    card        \* the attached view's card: "none", "pending", or its outcome

gatewayVars == <<status, by, runOver, late>>
stopVars    == <<captured, aim>>
viewVars    == <<open, card>>
vars == <<gatewayVars, news, inflight, request, pc, answer, stopVars, ledger, viewVars>>

\* A broadcast: the approval is pending, or it ended, with a decision that the
\* gateway fills in when nobody took one; `human` is its resolvedBy.
Broadcasts == [how : {"pending"} \cup {"approved", "rejected"}, human : BOOLEAN]

Requests  == [id : Approvals, decision : {"approve", "reject"}]
Decisions == {"approved", "rejected"}
DeciderPC == {"reserve", "verify", "write", "publish", "record", "release", "done", "dead"}
StopPC    == {"capture", "abort", "settle", "stopped", "done", "dead"}

\* Every variable is in its type.
TypeOK ==
    /\ status \in [Approvals -> {"absent", "pending", "cancelled"} \cup Decisions]
    /\ by \in [Approvals -> Deciders \cup {None}]
    /\ runOver \in BOOLEAN
    /\ late \subseteq Deciders
    /\ news \in [Approvals -> Seq(Broadcasts)]
    /\ inflight \in [Approvals -> Deciders \cup {None}]
    /\ request \in [Deciders -> Requests]
    /\ pc \in [Deciders \cup Stops -> DeciderPC \cup StopPC]
    /\ \A d \in Deciders : pc[d] \in DeciderPC
    /\ \A s \in Stops : pc[s] \in StopPC
    /\ answer \in [Deciders -> {"none", "ok", "gone", "failed"}]
    /\ captured \in [Stops -> SUBSET Approvals]
    /\ aim \in [Stops -> Approvals \cup {None}]
    /\ ledger \in [Approvals -> Decisions \cup {"none"}]
    /\ open \in BOOLEAN
    /\ card \in [Approvals -> {"none", "pending", "stopped"} \cup Decisions]

Init ==
    /\ status = [a \in Approvals |-> "absent"]
    /\ by = [a \in Approvals |-> None]
    /\ runOver = FALSE
    /\ late = {}
    /\ news = [a \in Approvals |-> <<>>]
    /\ inflight = [a \in Approvals |-> None]
    /\ request \in [Deciders -> Requests]
    /\ pc = [p \in Deciders \cup Stops |-> IF p \in Deciders THEN "reserve" ELSE "capture"]
    /\ answer = [d \in Deciders |-> "none"]
    /\ captured = [s \in Stops |-> {}]
    /\ aim = [s \in Stops |-> None]
    /\ ledger = [a \in Approvals |-> "none"]
    /\ open = FALSE
    /\ card = [a \in Approvals |-> "none"]

At(p, here)   == pc[p] = here
Goto(p, next) == pc' = [pc EXCEPT ![p] = next]
Named(d)      == request[d].id
Pending       == {a \in Approvals : status[a] = "pending"}

\* A reply of the gateway arrives behind the broadcasts sent before it.
Answers == \A a \in Approvals : news[a] = <<>>

-----------------------------------------------------------------------------
(* The gateway.                                                            *)

\* The run raises an approval, which the gateway broadcasts.
Raise(a) ==
    /\ status[a] = "absent"
    /\ ~runOver
    /\ status' = [status EXCEPT ![a] = "pending"]
    /\ news' = [news EXCEPT ![a] = Append(@, [how |-> "pending", human |-> FALSE])]
    /\ UNCHANGED <<by, runOver, late, inflight, request, pc, answer, stopVars,
                   ledger, viewVars>>

\* The approvals in A end without a decision; the broadcast says so.
Withdraw(A) ==
    /\ status' = [a \in Approvals |-> IF a \in A THEN "cancelled" ELSE status[a]]
    /\ news' = [a \in Approvals |-> IF a \notin A THEN news[a]
                ELSE Append(news[a], [how |-> "rejected", human |-> FALSE])]
    /\ UNCHANGED <<by, late, inflight, request, pc, answer, stopVars, ledger, viewVars>>

Expire(a) ==
    /\ a \in Pending
    /\ Withdraw({a})
    /\ UNCHANGED runOver

\* The run ends, by a Stop's abort or otherwise, and its approvals with it.
EndRun ==
    /\ ~runOver
    /\ runOver' = TRUE
    /\ Withdraw(Pending)

\* The gateway honours the decision of d (None: a client of its own).
Honour(d, a, how) ==
    /\ a \in Pending
    /\ status' = [status EXCEPT ![a] = how]
    /\ by' = [by EXCEPT ![a] = d]
    /\ news' = [news EXCEPT ![a] = Append(@, [how |-> how, human |-> TRUE])]

DecideElsewhere(a) ==
    /\ \E how \in Decisions : Honour(None, a, how)
    /\ UNCHANGED <<runOver, late, inflight, request, pc, answer, stopVars, ledger, viewVars>>

-----------------------------------------------------------------------------
(* The attached view, and what reaches it.                                 *)

\* Hub.PublishTo, and the client's fold: a card is shown once, and settled by
\* the first resolution that names it.
Publish(a, how) ==
    card' = IF open /\ card[a] = IF how = "pending" THEN "none" ELSE "pending"
            THEN [card EXCEPT ![a] = how] ELSE card

\* A mutant: the relay believes the decision the gateway filled in.
ShownAsSaid(ev) == ev.how

\* A decision nobody took is shown as stopped, not as the denial it looks like.
Shown(ev) == IF ev.how = "pending" \/ ev.human THEN ev.how ELSE "stopped"

\* RelayRequested and relayApprovalResolved: nothing is recorded.
Relay(a) ==
    /\ news[a] # <<>>
    /\ news' = [news EXCEPT ![a] = Tail(@)]
    /\ Publish(a, Shown(Head(news[a])))
    /\ UNCHANGED <<gatewayVars, inflight, request, pc, answer, stopVars, ledger, open>>

\* A stream opens on a new turn, which has no card yet, or on a page that has
\* restored the cards of the pending approvals.
OpenStream ==
    /\ ~open
    /\ open' = TRUE
    /\ card' \in {[a \in Approvals |-> IF a \in A THEN "pending" ELSE "none"]
                     : A \in {{}, Pending}}
    /\ UNCHANGED <<gatewayVars, news, inflight, request, pc, answer, stopVars, ledger>>

CloseStream ==
    /\ open
    /\ open' = FALSE
    /\ UNCHANGED <<gatewayVars, news, inflight, request, pc, answer, stopVars, ledger, card>>

-----------------------------------------------------------------------------
(* ApprovalService.Resolve.                                                *)

\* A mutant: a decision does not wait for the one that is being written.
NobodyWaits(a) == TRUE

Reservable(a) == inflight[a] = None

\* reserve, once nobody else decides the approval.  The id comes from a card.
Reserve(d) ==
    /\ At(d, "reserve")
    /\ status[Named(d)] # "absent"
    /\ Reservable(Named(d))
    /\ inflight' = [inflight EXCEPT ![Named(d)] = d]
    /\ Goto(d, "verify")
    /\ UNCHANGED <<gatewayVars, news, request, answer, stopVars, ledger, viewVars>>

\* A mutant: a second decision is refused with a conflict, as before #226.
RefuseSecond(d) ==
    /\ At(d, "reserve")
    /\ inflight[Named(d)] # None
    /\ answer' = [answer EXCEPT ![d] = "gone"]
    /\ Goto(d, "done")
    /\ UNCHANGED <<gatewayVars, news, inflight, request, stopVars, ledger, viewVars>>

\* reserve, when the caller's bound or the caller is gone first.
GiveUpReserving(d) ==
    /\ At(d, "reserve")
    /\ inflight[Named(d)] # None
    /\ answer' = [answer EXCEPT ![d] = "failed"]
    /\ Goto(d, "done")
    /\ UNCHANGED <<gatewayVars, news, inflight, request, stopVars, ledger, viewVars>>

\* A mutant: an early return forgets the reservation.
ReturnUnreleased(d, how) ==
    /\ answer' = [answer EXCEPT ![d] = how]
    /\ Goto(d, "done")

\* An early return; release is deferred.
Return(d, how) ==
    /\ answer' = [answer EXCEPT ![d] = how]
    /\ Goto(d, "release")

\* The read that verifies the approval is still this session's and pending.
Verify(d) ==
    /\ At(d, "verify")
    /\ \/ Answers /\ Named(d) \in Pending /\ Goto(d, "write") /\ UNCHANGED answer
       \/ Answers /\ Named(d) \notin Pending /\ Return(d, "gone")
       \/ Return(d, "failed")
    /\ UNCHANGED <<gatewayVars, news, inflight, request, stopVars, ledger, viewVars>>

Outcome(d) == IF request[d].decision = "approve" THEN "approved" ELSE "rejected"

\* ResolveApproval.  A gateway that settled the approval meanwhile answers so
\* (404, 409); any other failure hides whether the decision was honoured.
Write(d) ==
    /\ At(d, "write")
    /\ \/ /\ Honour(d, Named(d), Outcome(d))
          /\ \/ Answers /\ Goto(d, "publish") /\ UNCHANGED answer
             \/ Return(d, "failed")
          /\ UNCHANGED late
       \/ /\ \/ Answers /\ Named(d) \notin Pending /\ Return(d, "gone") /\ UNCHANGED late
             \/ Return(d, "failed") /\ late' \in {late, late \cup {d}}
          /\ UNCHANGED <<status, by, news>>
    /\ UNCHANGED <<runOver, inflight, request, stopVars, ledger, viewVars>>

\* A decision whose request gave up arrives after all.
ArriveLate(d) ==
    /\ d \in late
    /\ late' = late \ {d}
    /\ \/ Honour(d, Named(d), Outcome(d))
       \/ Named(d) \notin Pending /\ UNCHANGED <<status, by, news>>
    /\ UNCHANGED <<runOver, inflight, request, pc, answer, stopVars, ledger, viewVars>>

PublishDecision(d) ==
    /\ At(d, "publish")
    /\ Publish(Named(d), Outcome(d))
    /\ Goto(d, "record")
    /\ UNCHANGED <<gatewayVars, news, inflight, request, answer, stopVars, ledger, open>>

\* A mutant: the ledger has every gated command as approved.
ApprovedAnyway(d) == "approved"

Recorded(d) == Outcome(d)

\* recordDecision, and the 200.
Record(d) ==
    /\ At(d, "record")
    /\ ledger' = [ledger EXCEPT ![Named(d)] = Recorded(d)]
    /\ Return(d, "ok")
    /\ UNCHANGED <<gatewayVars, news, inflight, request, stopVars, viewVars>>

\* release deletes the entry of the id, whoever holds it.
Release(d) ==
    /\ At(d, "release")
    /\ inflight' = [inflight EXCEPT ![Named(d)] = None]
    /\ Goto(d, "done")
    /\ UNCHANGED <<gatewayVars, news, request, answer, stopVars, ledger, viewVars>>

-----------------------------------------------------------------------------
(* A Stop: handleAbort's capture, and settlePendingForSession.             *)

\* The pending approvals, read before the abort cancels them; a failed read
\* captures none.
Capture(s) ==
    /\ At(s, "capture")
    /\ \/ Answers /\ captured' = [captured EXCEPT ![s] = Pending]
       \/ UNCHANGED captured
    /\ Goto(s, "abort")
    /\ UNCHANGED <<gatewayVars, news, inflight, request, answer, aim, ledger, viewVars>>

\* Whatever the Stop does to the run, it settles only once the run is over.
Abort(s) ==
    /\ At(s, "abort")
    /\ \/ runOver /\ Goto(s, "settle")
       \/ Goto(s, "done")
    /\ UNCHANGED <<gatewayVars, news, inflight, request, answer, stopVars, ledger, viewVars>>

\* A mutant: a settle ignores the decisions that are being written.
DecidingNothing(a) == FALSE

\* deciding: a decision is being written for the approval.
Deciding(a) == inflight[a] # None

\* One captured approval: left alone while it is being decided.
Settle(s, a) ==
    /\ At(s, "settle")
    /\ a \in captured[s]
    /\ captured' = [captured EXCEPT ![s] = @ \ {a}]
    /\ \/ Deciding(a) /\ UNCHANGED <<pc, aim>>
       \/ ~Deciding(a) /\ aim' = [aim EXCEPT ![s] = a] /\ Goto(s, "stopped")
    /\ UNCHANGED <<gatewayVars, news, inflight, request, answer, ledger, viewVars>>

\* Otherwise it is published as resolved by nobody.
PublishStopped(s) ==
    /\ At(s, "stopped")
    /\ Publish(aim[s], "stopped")
    /\ aim' = [aim EXCEPT ![s] = None]
    /\ Goto(s, "settle")
    /\ UNCHANGED <<gatewayVars, news, inflight, request, answer, captured, ledger, open>>

Settled(s) ==
    /\ At(s, "settle")
    /\ captured[s] = {}
    /\ Goto(s, "done")
    /\ UNCHANGED <<gatewayVars, news, inflight, request, answer, stopVars, ledger, viewVars>>

-----------------------------------------------------------------------------
\* The WebSocket drops with the broadcasts on it.
Drop ==
    /\ news' = [a \in Approvals |-> <<>>]
    /\ UNCHANGED <<gatewayVars, inflight, request, pc, answer, stopVars, ledger, viewVars>>

\* The API process restarts: its requests, reservations and streams are gone.
\* A request that had nothing yet is one that arrives afterwards.
Restart ==
    /\ pc' = [p \in Deciders \cup Stops |->
                IF pc[p] \in {"reserve", "capture", "done"} THEN pc[p] ELSE "dead"]
    /\ inflight' = [a \in Approvals |-> None]
    /\ captured' = [s \in Stops |-> {}]
    /\ aim' = [s \in Stops |-> None]
    /\ news' = [a \in Approvals |-> <<>>]
    /\ open' = FALSE
    /\ UNCHANGED <<gatewayVars, request, answer, ledger, card>>

DeciderStep(d) ==
    \/ Reserve(d) \/ GiveUpReserving(d) \/ Verify(d) \/ Write(d)
    \/ PublishDecision(d) \/ Record(d) \/ Release(d)

StopStep(s) ==
    \/ Capture(s) \/ Abort(s) \/ Settled(s) \/ PublishStopped(s)
    \/ \E a \in Approvals : Settle(s, a)

Next ==
    \/ \E a \in Approvals : Raise(a) \/ Expire(a) \/ DecideElsewhere(a) \/ Relay(a)
    \/ \E d \in Deciders : DeciderStep(d) \/ ArriveLate(d)
    \/ \E s \in Stops : StopStep(s)
    \/ EndRun
    \/ OpenStream
    \/ CloseStream
    \/ Drop
    \/ Restart

Spec == Init /\ [][Next]_vars

\* Requests run, and every call of one is bounded.
FairSpec == Spec /\ \A d \in Deciders : WF_vars(DeciderStep(d))

-----------------------------------------------------------------------------
(* Properties.                                                             *)

\* The channel keeps the promise of ApprovalLedger.
Promise == INSTANCE ApprovalLedger WITH status <- status, ledger <- ledger
LedgerKept == Promise!Spec

\* Two decisions on one approval are never written at the same time.
Writing == {"verify", "write", "publish", "record", "release"}
DecisionsSerialized ==
    \A d, e \in Deciders :
        pc[d] \in Writing /\ pc[e] \in Writing /\ Named(d) = Named(e) => d = e

\* The client closes the card on a 404 or a 409, so a decision is answered that
\* way only when the approval is really settled: else the last control is lost.
ClosedCardIsSettled ==
    \A d \in Deciders : answer[d] = "gone" => Named(d) \notin Pending

\* A card shows a decision only when a human's decision was honoured: an expiry
\* and a stopped turn never read as a rejection.
CardTellsTheDecision ==
    \A a \in Approvals : card[a] \in Decisions => card[a] = status[a]

\* A Stop never publishes "stopped" over a decision that was honoured and is still
\* being told: the human would watch an answered card change its mind.
StopSparesDecisions ==
    [][\A d \in Deciders : At(d, "publish") /\ card[Named(d)] = "pending" =>
          card'[Named(d)] # "stopped"]_vars

\* Every reservation ends, on every path of the decision that holds it.
ReservationEnds ==
    \A a \in Approvals : inflight[a] # None ~> inflight[a] = None

\* The design's "record each decision": one that a request brought to the gateway
\* is on the ledger when the request is over.
DecisionsAreRecorded ==
    \A a \in Approvals : by[a] # None /\ At(by[a], "done") => ledger[a] # "none"
=============================================================================
