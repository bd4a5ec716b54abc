------------------------------ MODULE CodeDag ------------------------------
(***************************************************************************)
(* What a code run promises about its nodes, whoever schedules them: a node *)
(* is planned on nodes that are already planned, starts after all of them   *)
(* succeeded, and ends once.  A node whose dependency did not succeed never *)
(* starts and says which failures it descends from.                         *)
(***************************************************************************)
EXTENDS FiniteSets

CONSTANT Node

VARIABLES status,   \* status of the node in the rollout
          needs,    \* its dependencies
          roots     \* root_failures of a node that ended as upstream_failed
dag == <<status, needs, roots>>

(* denied, invalid_arguments and the other ends of a call that never started *)
(* are refused; failed stands for every bad result of a body.               *)
BodyEnds == {"succeeded", "failed", "cancelled", "outcome_unknown"}
Failures == {"failed", "cancelled", "outcome_unknown", "refused",
             "upstream_failed", "not_executed"}
Terminal == Failures \union {"succeeded"}

Known == {n \in Node : status[n] # "none"}
WithStatus(s) == {n \in Node : status[n] = s}

DagTypeOK ==
  /\ status \in [Node -> Terminal \union {"none", "planned", "started"}]
  /\ needs \in [Node -> SUBSET Node]
  /\ roots \in [Node -> SUBSET Node]

DagInit ==
  /\ status = [n \in Node |-> "none"]
  /\ needs = [n \in Node |-> {}]
  /\ roots = [n \in Node |-> {}]

Put(n, s) == status' = [status EXCEPT ![n] = s] /\ UNCHANGED <<needs, roots>>

Ready(n) == status[n] = "planned" /\ \A d \in needs[n] : status[d] = "succeeded"
Blockers(n) == {d \in needs[n] : status[d] \in Failures}
RootsOf(d) == IF roots[d] = {} THEN {d} ELSE roots[d]

PlanNode(n, ds) ==
  /\ status[n] = "none" /\ ds \subseteq Known
  /\ status' = [status EXCEPT ![n] = "planned"]
  /\ needs' = [needs EXCEPT ![n] = ds]
  /\ UNCHANGED roots

StartNode(n) == Ready(n) /\ Put(n, "started")

RefuseNode(n) == Ready(n) /\ Put(n, "refused")

FinishNode(n, s) == status[n] = "started" /\ Put(n, s)

BlockNode(n) ==
  /\ status[n] = "planned" /\ Blockers(n) # {}
  /\ status' = [status EXCEPT ![n] = "upstream_failed"]
  /\ roots' = [roots EXCEPT ![n] = UNION {RootsOf(d) : d \in Blockers(n)}]
  /\ UNCHANGED needs

(* Bug: a started node is closed as one that was not executed. *)
LostAsSkipped(s) == "not_executed"

(* Cancellation, an abort or recovery: what has not started never will, and *)
(* the outcome of what has started is unknown.                              *)
Lost(s) == IF s = "started" THEN "outcome_unknown" ELSE "not_executed"

Drop(ns) ==
  /\ status' = [n \in Node |-> IF n \in ns THEN Lost(status[n]) ELSE status[n]]
  /\ UNCHANGED <<needs, roots>>

DropNodes(ns) ==
  ns \subseteq WithStatus("planned") \union WithStatus("started") /\ Drop(ns)

DagNext ==
  \/ \E n \in Node : \/ \E ds \in SUBSET Known : PlanNode(n, ds)
                     \/ StartNode(n) \/ RefuseNode(n) \/ BlockNode(n)
                     \/ \E s \in BodyEnds : FinishNode(n, s)
  \/ \E ns \in SUBSET Node : DropNodes(ns)

DagSpec == DagInit /\ [][DagNext]_dag

-----------------------------------------------------------------------------
(* A body of a node has begun only when each of its dependencies succeeded.  *)
(* (CodeDagScheduler._execute_closure hands only such nodes on.)             *)
NothingRunsEarly ==
  \A n \in Node : status[n] \in BodyEnds \union {"started", "refused"} =>
     \A d \in needs[n] : status[d] = "succeeded"

(* A node reported as upstream_failed names the failures it descends from:   *)
(* each is a dependency, or a root of a dependency, that ended badly by      *)
(* itself, and there is one.  (root_failures, code_scheduler.py:232-243.)    *)
RootsAreFailures ==
  \A n \in Node :
     /\ status[n] = "upstream_failed" <=> roots[n] # {}
     /\ \A r \in roots[n] :
           /\ status[r] \in Failures \ {"upstream_failed"}
           /\ \E d \in needs[n] : r = d \/ r \in roots[d]

(* Among any planned nodes there is one that waits for none of the others.   *)
(* (code_node_planned takes only known dependencies, domain.py:948-953.)     *)
Acyclic ==
  \A ns \in SUBSET Known : ns # {} => \E n \in ns : needs[n] \cap ns = {}

(* While nodes wait and no body runs, one of them can be started or must be  *)
(* given up: "code graph made no progress" is never raised.                  *)
NeverStuck ==
  WithStatus("planned") # {} /\ WithStatus("started") = {} =>
     \E n \in WithStatus("planned") : Ready(n) \/ Blockers(n) # {}
=============================================================================
