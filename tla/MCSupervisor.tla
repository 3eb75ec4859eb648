---------------------------- MODULE MCSupervisor ----------------------------
(***************************************************************************)
(* The control plane: the supervisor, and next to it the registry rows     *)
(* behind the API, the rate limiter, the exchange side of the kill route,  *)
(* the linking of chats and the /execute conversation.  They share no      *)
(* state; each is explored while the others rest in their initial states.  *)
(***************************************************************************)
EXTENDS Supervisor, TenantAccess, RateLimiter, Flatten, ChatLinking, BotCommands

CONSTANTS auth    \* the key of an auth path, which has a smaller limit

MCLimit == [k \in Keys |-> IF k = auth THEN 1 ELSE 2]

SupervisorRests == Init /\ serial = TRUE
OthersRest == AccessInit /\ LimiterInit /\ FlattenInit /\ LinkInit /\ BotInit
otherVars == <<aVars, rVars, fVars, kVars, bVars>>

ControlPlaneInit == Init /\ OthersRest

\* A step of one part while the others rest.
ControlPlaneNext ==
  \/ Next /\ OthersRest /\ UNCHANGED otherVars
  \/ /\ SupervisorRests /\ UNCHANGED vars
     /\ \/ /\ AccessNext /\ LimiterInit /\ FlattenInit /\ LinkInit /\ BotInit
           /\ UNCHANGED <<rVars, fVars, kVars, bVars>>
        \/ /\ LimiterNext /\ AccessInit /\ FlattenInit /\ LinkInit /\ BotInit
           /\ UNCHANGED <<aVars, fVars, kVars, bVars>>
        \/ /\ FlattenNext /\ AccessInit /\ LimiterInit /\ LinkInit /\ BotInit
           /\ UNCHANGED <<aVars, rVars, kVars, bVars>>
        \/ /\ LinkNext /\ AccessInit /\ LimiterInit /\ FlattenInit /\ BotInit
           /\ UNCHANGED <<aVars, rVars, fVars, bVars>>
        \/ /\ BotNext /\ AccessInit /\ LimiterInit /\ FlattenInit /\ LinkInit
           /\ UNCHANGED <<aVars, rVars, fVars, kVars>>

ControlPlaneSpec ==
  ControlPlaneInit /\ [][ControlPlaneNext]_<<vars, otherVars>> /\ Fairness

-----------------------------------------------------------------------------
\* What stands between a request and a tenant: the limiter lets through exactly
\* what its window allows, and the rows that decide are unique and current.
RequestsGuarded == WindowExact /\ AccessSound

\* What stands between a chat and a tenant: who is linked, and what one may run.
ChatsGuarded == LinkSound /\ BotSound
=============================================================================
