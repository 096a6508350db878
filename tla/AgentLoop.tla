------------------------------ MODULE AgentLoop ------------------------------
(***************************************************************************)
(* One agent at work: a graph of two nodes in which a language model is    *)
(* asked, its tool calls are run through the gateway, and its submission   *)
(* is validated, within budgets of iterations and repairs.                 *)
(*                                                                         *)
(*   services/orchestrator/recoup_orchestrator/agents/loop.py              *)
(*                                                                         *)
(* What the model answers is any choice: a turn is a sequence of calls,    *)
(* each to a tool of the gateway, or a submission that its schema accepts  *)
(* or refuses.  A call the gateway refuses is answered as any other.  Of   *)
(* LangGraph: a node runs if fewer than recursion_limit have.              *)
(***************************************************************************)
EXTENDS Naturals, SequencesExt

CONSTANTS max_iterations, max_repairs,
          MaxCalls                       \* bound: calls of one turn

ASSUME LoopAssumption == max_iterations \in Nat /\ max_repairs \in Nat /\ MaxCalls \in Nat

VARIABLES messages,  \* the transcript after the prompt
          loop       \* the rest of LoopState, and what becomes of it

agent == <<messages, loop>>

CallKinds == {"tool", "valid", "invalid"}
Turns == UNION {[1..n -> CallKinds] : n \in 0..MaxCalls}
Continue == [role |-> "user", calls |-> <<>>, answers |-> 0]
Assistant(calls) == [role |-> "assistant", calls |-> calls, answers |-> 0]
Reply(k) == [role |-> "tool", calls |-> <<>>, answers |-> k]

LoopInit ==
  /\ messages = <<>>
  /\ loop = [node |-> "model", iterations |-> 0, repairs |-> 0, nodes |-> 0, accepted |-> FALSE, outcome |-> "none"]

\* (Mutant: room for each turn, and none for its tools.)
TurnsOnly == max_iterations + 4
recursion_limit == max_iterations * 2 + 4

At(node) == loop.node = node /\ loop.nodes < recursion_limit
Finishes(outcome) == loop' = [loop EXCEPT !.node = "ended", !.outcome = outcome] /\ UNCHANGED messages

_route(calls) == IF loop.accepted THEN "ended" ELSE IF calls # <<>> THEN "tools" ELSE "model"

\* A model that said something and called nothing is told to go on.
Transcript ==
  IF messages # <<>> /\ Last(messages).role = "assistant" /\ Last(messages).calls = <<>>
  THEN Append(messages, Continue) ELSE messages

_model_node ==
  /\ At("model") /\ loop.iterations < max_iterations
  /\ \E calls \in Turns :
       /\ messages' = Append(Transcript, Assistant(calls))
       /\ loop' = [loop EXCEPT !.node = _route(calls), !.iterations = @ + 1, !.nodes = @ + 1,
                               !.outcome = IF loop.accepted THEN "result" ELSE "none"]

\* IterationBudgetExceeded; or GraphRecursionError, which LangGraph raises first.
Stopped ==
  /\ loop.node # "ended"
  /\ loop.nodes >= recursion_limit \/ (loop.node = "model" /\ loop.iterations >= max_iterations)
  /\ Finishes(IF loop.nodes >= recursion_limit THEN "recursion" ELSE "budget")

\* The provider fails for good; the node has a try and no more.
ModelFails == At("model") /\ loop.iterations < max_iterations /\ Finishes("provider")

\* The numbers of a set, from the least to the greatest.
Ascending(S) ==
  CHOOSE s \in [1 .. Cardinality(S) -> S] : \A i, j \in 1 .. Cardinality(S) : i < j => s[i] < s[j]

\* Places of a turn's calls in the order they are answered: the gateway's, which run
\* side by side, before the submissions.  (Mutant: what is refused is not answered.)
Places(calls, kinds) == Ascending({k \in DOMAIN calls : calls[k] \in kinds})
Accepted(calls) == Places(calls, {"tool"}) \o Places(calls, {"valid"})
InOrder(calls) == Places(calls, {"tool"}) \o Places(calls, {"valid", "invalid"})

_tools_node ==
  /\ At("tools")
  /\ LET calls == Last(messages).calls
         repairs == loop.repairs + Len(Places(calls, {"invalid"})) IN
     /\ repairs <= max_repairs
     /\ messages' = messages \o [k \in DOMAIN InOrder(calls) |-> Reply(InOrder(calls)[k])]
     /\ loop' = [loop EXCEPT !.node = "model", !.nodes = @ + 1, !.repairs = repairs,
                             !.accepted = Places(calls, {"valid"}) # <<>>]

\* Raised from within the node: of its turn nothing is kept, neither the answers the
\* gateway gave nor another submission it accepted.
RepairExhausted ==
  /\ At("tools")
  /\ loop.repairs + Len(Places(Last(messages).calls, {"invalid"})) > max_repairs
  /\ Finishes("repairs")

LoopNext == _model_node \/ Stopped \/ ModelFails \/ _tools_node \/ RepairExhausted

LoopSpec == LoopInit /\ [][LoopNext]_agent

-----------------------------------------------------------------------------
(* Properties *)

\* Providers refuse a transcript in which a tool call has no answer: whatever the
\* model calls, alone or together, each of its calls is answered once before it is
\* asked again, and it never speaks twice in a row.
CallsAnswered ==
  LET Replies(i) == {j \in DOMAIN messages : i < j /\ \A k \in i + 1 .. j : messages[k].role = "tool"} IN
  \A i \in DOMAIN messages : messages[i].role = "assistant" =>
    /\ i < Len(messages) \/ loop.node = "model" =>
         /\ {messages[j].answers : j \in Replies(i)} = DOMAIN messages[i].calls
         /\ Cardinality(Replies(i)) = Len(messages[i].calls)
    /\ i < Len(messages) => messages[i + 1].role # "assistant"

\* An agent is stopped by its own budgets, whose errors keep the transcript, never
\* by LangGraph's, and a result was submitted and found valid.
BudgetsBind ==
  /\ loop.outcome # "recursion"
  /\ loop.outcome = "result" => loop.accepted

\* loop.py: "The model ends its work by calling submit_<agent>".
SubmissionEndsWork == loop.accepted => loop.outcome \in {"none", "result"}
=============================================================================
