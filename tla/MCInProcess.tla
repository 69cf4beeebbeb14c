----------------------------- MODULE MCInProcess -----------------------------
(* ChatHandover, TenantConfig and Campaign for TLC, side by side: what one process keeps
   in its memory. The chats, a tenant's settings and a campaign's run have nothing in
   common, so a behaviour is a behaviour of one of the modules, in which the others'
   variables keep their initial values. *)
EXTENDS MCChatHandover, TenantConfig, Campaign

VARIABLE part

processVars == <<part, vars, configVars, campaignVars>>

(* Two leads with a number each. *)
ThePhones == <<1, 2>>

(* Bounds on the chats. The customer's second socket, if it comes while the first is
   open, comes to a session that is with the agents or on its way to them, and a decline,
   a reply or a restart is only of behaviours that have one socket open at a time. Which
   of the slots a lone socket takes makes no difference: it is the same one every time. *)
Opened == {c \in Conns : pc[c] # "off"}
LoneSlot == CHOOSE c \in Conns : TRUE
Comes == IF Opened = {} THEN Opened' = {LoneSlot} ELSE mode \in Handover
OneSocket == Cardinality(Opened) <= 1
Plain == restarts = 0 /\ replies = 0 /\ \A d \in Declines : decline[d] = "none"
FewSockets == (Opened' \subseteq Opened \/ Comes) /\ (OneSocket \/ Plain)'

ProcessInit ==
    /\ part \in {"chat", "config", "campaign"}
    /\ Init
    /\ ConfigInit /\ (part = "config" \/ \A u \in Updates : update[u].kind = "settings")
    /\ CampaignInit

ProcessNext ==
    \/ part = "chat" /\ Next /\ FewSockets /\ UNCHANGED <<part, configVars, campaignVars>>
    \/ part = "config" /\ ConfigNext /\ UNCHANGED <<part, vars, campaignVars>>
    \/ part = "campaign" /\ CampaignNext /\ UNCHANGED <<part, vars, configVars>>

ProcessSpec == ProcessInit /\ [][ProcessNext]_processVars

(* ChatHandover's fairness and CampaignFairness, each for the behaviours of its own
   module. *)
OfChat == part = "chat"
OfCampaign == part = "campaign"
ProcessFairSpec ==
    /\ ProcessSpec
    /\ \A c \in Conns : WF_vars(OfChat /\ (BotLoop(c) \/ HumanLoop(c)))
    /\ \A a \in Agents :
          /\ WF_vars(OfChat /\ (ClaimCommit(a) \/ ClaimTell(a)))
          /\ WF_vars(OfChat /\ AgentClosesSession(a))
    /\ \A d \in Declines : WF_vars(OfChat /\ (DeclineCommit(d) \/ DeclineTell(d)))
    /\ SF_campaignVars(OfCampaign /\ Iterate)
    /\ WF_campaignVars(OfCampaign /\ CampaignTick)
    /\ WF_campaignVars(OfCampaign /\ ~open /\ HoursChange)
    /\ \A l \in Leads : WF_campaignVars(OfCampaign /\ TaskGoes(l))

(* The type invariants of the three modules. *)
ProcessTypesOK == TypeOK /\ ConfigTypeOK /\ CampaignTypeOK
=============================================================================
