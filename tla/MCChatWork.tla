------------------------------ MODULE MCChatWork ------------------------------
(* DepositVerification and ChatTurn for TLC, side by side: the work a turn of the chat bot
   does, and the work it leaves behind. The only call from one to the other is a tool,
   which the turn sees answer, fail or hang. So a behaviour is a behaviour of one of the
   modules, in which the other's variables keep their initial values. *)
EXTENDS DepositVerification, ChatTurn

VARIABLE part

workVars == <<part, vars, chatTurnVars>>

(* Each of the tools is of a category of its own. *)
TheLabels == [t \in CrmTools |-> t]

FirstContract == "verdict"
WorkInit ==
    /\ part \in {"turn", "deposit"}
    /\ Init /\ (part = "deposit" \/ contract = FirstContract)
    /\ ChatTurnInit

WorkNext ==
    \/ /\ part = "deposit" /\ Next
       /\ UNCHANGED <<part, chatTurnVars>>
    \/ /\ part = "turn" /\ ChatTurnNext
       /\ UNCHANGED <<part, vars>>

WorkSpec == WorkInit /\ [][WorkNext]_workVars

(* DepositFairness and ChatTurnFairness, each for the behaviours of its own module. *)
OfDeposit == part = "deposit"
OfTurn == part = "turn"
WorkFairSpec ==
    /\ WorkSpec
    /\ WF_vars(OfDeposit /\ Tick)
    /\ \A r \in Requests : SF_vars(OfDeposit /\ TimerWakes(r))
    /\ \A k \in Checks : WF_vars(OfDeposit /\ CheckSteps(k))
    /\ \A d \in Relays : WF_vars(OfDeposit /\ RelaySteps(d))
    /\ WF_chatTurnVars(OfTurn /\ TurnFails)
    /\ WF_chatTurnVars(OfTurn /\ KeepaliveEnds)
    /\ WF_chatTurnVars(OfTurn /\ TurnOver)
    /\ WF_chatTurnVars(OfTurn /\ Drained)
    /\ WF_chatTurnVars(OfTurn /\ DrainExpires)

(* The type invariants of the two modules. *)
WorkTypesOK == DepositTypeOK /\ ChatTurnTypeOK
=============================================================================
