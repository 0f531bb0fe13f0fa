---------------------------- MODULE ApprovalLedger ----------------------------
(***************************************************************************)
(* What the approval channel promises, whatever its requests, retries,     *)
(* Stops, restarts and lost replies do: an approval ends once, and the     *)
(* audit ledger holds at most one decision for it, the one that was taken. *)
(***************************************************************************)
CONSTANTS
    Approvals,  \* approval ids
    None        \* nobody, nothing

VARIABLES
    status,     \* "absent", "pending", or how the approval ended
    ledger      \* the decision on record for it, or "none"

Decisions == {"approved", "rejected"}

Init ==
    /\ status = [a \in Approvals |-> "absent"]
    /\ ledger = [a \in Approvals |-> "none"]

Raise(a) ==
    /\ status[a] = "absent"
    /\ status' = [status EXCEPT ![a] = "pending"]
    /\ UNCHANGED ledger

\* A human decides one approval.
Decide(a, decision) ==
    /\ status[a] = "pending"
    /\ status' = [status EXCEPT ![a] = decision]
    /\ UNCHANGED ledger

\* Nobody decides: the run that asked is over, or the records expire.
Withdraw(A) ==
    /\ A # {}
    /\ \A a \in A : status[a] = "pending"
    /\ status' = [a \in Approvals |-> IF a \in A THEN "cancelled" ELSE status[a]]
    /\ UNCHANGED ledger

Record(a) ==
    /\ status[a] \in Decisions
    /\ ledger[a] = "none"
    /\ ledger' = [ledger EXCEPT ![a] = status[a]]
    /\ UNCHANGED status

Next ==
    \/ \E a \in Approvals : Raise(a) \/ Record(a)
    \/ \E a \in Approvals, decision \in Decisions : Decide(a, decision)
    \/ \E A \in SUBSET Approvals : Withdraw(A)

Spec == Init /\ [][Next]_<<status, ledger>>
=============================================================================
