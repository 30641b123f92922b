-------------------------- MODULE SessionPairFair --------------------------
(***************************************************************************)
(* SessionPair under the fairness the engines' own loops give: both        *)
(* processes keep polling their connection (SocketMonitor::block), the     *)
(* initiator keeps reconnecting (ReconnectInterval), and an application    *)
(* that logged out logs on again.  Nothing is assumed of failures or of    *)
(* sending.                                                                *)
(***************************************************************************)
EXTENDS SessionPair

VARIABLE turn       \* turn[x] flips at every step of x's network thread

fvars == <<vars, turn>>

FInit == Init /\ turn = [x \in Sides |-> FALSE]

FNext ==
    \/ (Connect \/ Break) /\ UNCHANGED turn
    \/ \E x \in Sides :
        \/ Network(x) /\ turn' = [turn EXCEPT ![x] = ~@]
        \/ Environment(x) /\ UNCHANGED turn

(* x's network thread has something to do and the numbers are not at their *)
(* bound: Network(x) can take a step.                                      *)
CanRun(x) ==
    /\ st[x].nextSender < MaxNum /\ st[x].nextTarget < MaxNum
    /\ \/ phase[x] = "drain"
       \/ live[x] /\ net[x] # <<>>
       \/ live[x] /\ (cut \/ ~live[Other(x)])
       \/ live[x] /\ shouldSendLogon(st[x]) /\ st[x].responder /\ st[x].enabled
       \/ live[x] /\ isLoggedOn(st[x]) /\ ~st[x].enabled /\ ~st[x].sentLogout
       \/ beatDue(x)

(* Weak fairness of Network(x), stated by the trace it leaves in turn (the *)
(* guard stands for ENABLED Network(x)): a thread that can run until it    *)
(* does, runs.                                                             *)
Runs(x) == CanRun(x) /\ turn' = [turn EXCEPT ![x] = ~@]

Fairness ==
    /\ WF_fvars(Connect /\ UNCHANGED turn)
    /\ \A x \in Sides : WF_turn(Runs(x)) /\ WF_fvars(Enable(x) /\ UNCHANGED turn)

FairSpec == FInit /\ [][FNext]_fvars /\ Fairness

(* Recovery comes to an end: with finitely many failures every message the *)
(* applications sent is delivered in the end, in both directions.          *)
AllDelivered == <>[](received = accepted)
=============================================================================
