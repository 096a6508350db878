------------------------------ MODULE MCCalls ------------------------------
(* Instances, for TLC, of an agent's calls: the gateway that runs them, and    *)
(* the loop in which the agent makes them.  What a call is answered is any     *)
(* input of the loop, so the run explores one or the other.                    *)
EXTENDS ToolGateway, AgentLoop, TLC

MCNext ==
  \/ LoopInit /\ Next /\ UNCHANGED agent
  \/ Init /\ LoopNext /\ UNCHANGED vars

MCInit == Init /\ LoopInit
MCSpec == MCInit /\ [][MCNext]_<<vars, agent>>

CallSymmetry == Permutations(Calls)
=============================================================================
