---------------------------- MODULE MCChatRouting ----------------------------
(* ChatHandover and ExternalChat for TLC, side by side: where a customer's message goes,
   over the chat socket and from an outside platform. The two have no session in common,
   so a behaviour is a behaviour of one of the modules, in which the other's variables
   keep their initial values. *)
EXTENDS MCChatHandover, ExternalChat

VARIABLE part

routingVars == <<part, vars, extVars>>

RoutingInit ==
    /\ part \in {"socket", "external"}
    /\ Init /\ ExternalInit

RoutingNext ==
    \/ part = "socket" /\ Next /\ UNCHANGED <<part, extVars>>
    \/ part = "external" /\ ExternalNext /\ UNCHANGED <<part, vars>>

RoutingSpec == RoutingInit /\ [][RoutingNext]_routingVars
=============================================================================
