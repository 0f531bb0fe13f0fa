----------------------------- MODULE MCChannel -----------------------------
(***************************************************************************)
(* The server's side of one user's gateway connection: the grants and the  *)
(* policy that is pushed over it, the calls on it, and the cards that are  *)
(* made of its events.  The parts share no state in their models, so a     *)
(* behaviour picks one of them and runs it alone.  ExecPolicy is run in    *)
(* two ways: its edits alone, three at once, and its turns beside some of  *)
(* them.                                                                   *)
(***************************************************************************)
EXTENDS ExecPolicy, WsCalls, ToolProjector

CONSTANTS t1, t2, g1, g2, e1, e2, e3, c1, c2, call1, call2, call3,
          Beside        \* the edits that are made while turns run

VARIABLE part

channelVars == <<execVars, callVars, toolVars, part>>

ChannelInit ==
    /\ part \in {"grants", "policy", "calls", "tools"}
    /\ ExecInit /\ CallInit /\ ToolInit
    /\ part # "tools" => attached

ChannelNext ==
    /\ UNCHANGED part
    /\ \/ part = "grants" /\ (\E e \in Edits : EditStep(e)) /\ UNCHANGED <<callVars, toolVars>>
       \/ /\ part = "policy" /\ ExecNext /\ \A e \in Edits \ Beside : EditAt(e, "idle")'
          /\ UNCHANGED <<callVars, toolVars>>
       \/ part = "calls" /\ CallNext /\ UNCHANGED <<execVars, toolVars>>
       \/ part = "tools" /\ ToolNext /\ UNCHANGED <<execVars, callVars>>

\* Each part is fair while it is the one that runs.
ChannelFairness ==
    /\ \A t \in Turns : /\ WF_execVars(part = "policy" /\ TurnStep(t))
                        /\ SF_execVars(part = "policy" /\ Enter(t))
    /\ WF_execVars(part = "policy" /\ Approve)
    /\ WF_callVars(part = "calls" /\ PumpStep)
    /\ \A c \in Callers : /\ WF_callVars(part = "calls" /\ CallStep(c))
                          /\ SF_callVars(part = "calls" /\ Acquire(c))

ChannelSpec == ChannelInit /\ [][ChannelNext]_channelVars /\ ChannelFairness
=============================================================================
