----------------------------- MODULE StepGraph -----------------------------
(***************************************************************************)
(* ensure_acyclic of crates/shaka-core/src/lib.rs, the last check of       *)
(* PlanSpec::validate_structure: a recursive search through the            *)
(* dependencies, with the calls of visit that have not returned as a       *)
(* stack.  By then every dependency is known to be another step of the     *)
(* plan.  The order of the BTreeMap and of depends_on is any order; a step *)
(* listed twice in depends_on has been visited the second time.            *)
(***************************************************************************)
EXTENDS Integers, FiniteSets, Sequences

CONSTANT StepId  \* the steps of the plan, finitely many

VARIABLES
    graph,    \* depends_on of each step
    roots,    \* ids that the outer loop has not visited yet
    stack,    \* calls of visit: the id and the dependencies to go
    visited,  \* the set `visited'
    verdict

searchVars == <<graph, roots, stack, visited, verdict>>

-----------------------------------------------------------------------------
Frame == [id : StepId, todo : SUBSET StepId]

(* The set `visiting'.                                                     *)
Visiting == {stack[i].id : i \in 1..Len(stack)}

Top == stack[Len(stack)]

(* visit, called by the last of `calls': when it returns false, all of     *)
(* them do.                                                                *)
visit(d, calls) ==
    IF d \in visited THEN stack' = calls /\ UNCHANGED verdict
    ELSE IF d \in Visiting THEN stack' = << >> /\ verdict' = "cyclic"
    ELSE stack' = Append(calls, [id |-> d, todo |-> graph[d]]) /\ UNCHANGED verdict

(* The calls once the last of them has looked at dependency d.             *)
LookedAt(d) == [stack EXCEPT ![Len(stack)].todo = @ \ {d}]

next_root ==
    /\ verdict = "searching" /\ stack = << >>
    /\ \E d \in roots : roots' = roots \ {d} /\ visit(d, << >>)
    /\ UNCHANGED <<graph, visited>>

next_dependency ==
    /\ verdict = "searching" /\ stack # << >>
    /\ \E d \in Top.todo : visit(d, LookedAt(d))
    /\ UNCHANGED <<graph, roots, visited>>

visit_returns ==
    /\ verdict = "searching" /\ stack # << >> /\ Top.todo = {}
    /\ visited' = visited \cup {Top.id}
    /\ stack' = SubSeq(stack, 1, Len(stack) - 1)
    /\ UNCHANGED <<graph, roots, verdict>>

accept ==
    /\ verdict = "searching" /\ stack = << >> /\ roots = {}
    /\ verdict' = "acyclic"
    /\ UNCHANGED <<graph, roots, stack, visited>>

InitSearch ==
    /\ graph \in {g \in [StepId -> SUBSET StepId] : \A s \in StepId : s \notin g[s]}
    /\ roots = StepId
    /\ stack = << >>
    /\ visited = {}
    /\ verdict = "searching"

NextSearch == next_root \/ next_dependency \/ visit_returns \/ accept

Search == InitSearch /\ [][NextSearch]_searchVars

(* A function runs until it returns.                                       *)
FairSearch == Search /\ WF_searchVars(NextSearch)

-----------------------------------------------------------------------------
(* Properties                                                              *)

SearchType ==
    /\ graph \in [StepId -> SUBSET StepId]
    /\ roots \subseteq StepId /\ visited \subseteq StepId
    /\ stack \in Seq(Frame)
    /\ verdict \in {"searching", "acyclic", "cyclic"}

(* No set of steps waits for itself.                                       *)
WithoutCycle(g) == \A S \in SUBSET DOMAIN g : S # {} => \E s \in S : g[s] \cap S = {}

(* The search accepts the plans in which no set of steps waits for itself, *)
(* and no others: a step that is reached along two paths is not taken for  *)
(* a cycle, and a cycle is not missed because part of it was visited       *)
(* before (ensure_acyclic).                                                *)
SearchSound ==
    /\ verdict = "acyclic" => WithoutCycle(graph)
    /\ verdict = "cyclic" => ~WithoutCycle(graph)

(* The recursion is never deeper than the plan has steps (visit).          *)
DepthBounded == Len(stack) <= Cardinality(StepId)

(* The search ends, also in a cycle (visit).                               *)
SearchEnds == <>(verdict # "searching")
=============================================================================
