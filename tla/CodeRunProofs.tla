---------------------------- MODULE CodeRunProofs ----------------------------
(***************************************************************************)
(* Every run of Code Mode keeps the promise of CodeDag, and what the worker *)
(* is told, what is recorded and how much runs at once are right, for any   *)
(* number of nodes, frames, limits, Ctrl-C and calls of after.              *)
(*                                                                          *)
(* The invariant follows the frame in hand: what the worker sent, what of   *)
(* it was planned, and which set of the scheduler each open node is in.     *)
(***************************************************************************)
EXTENDS CodeRun, TLAPS, FiniteSetTheorems

-----------------------------------------------------------------------------
(* What CodeDag promises, for any set of nodes.                              *)

(* Dependencies are planned before the node that needs them: with it the     *)
(* promises are inductive.                                                    *)
Planted == \A n \in Node : needs[n] \subseteq Known

Promise == Planted /\ Acyclic /\ NothingRunsEarly /\ RootsAreFailures

(* Each step of a node gives it a status, needs and roots of their types.    *)
LEMMA DagTypedStep ==
  ASSUME DagTypeOK, [DagNext]_dag
  PROVE  DagTypeOK'
<1>. USE DEF DagTypeOK, Put, Terminal, Failures, BodyEnds, Known
<1>1. ASSUME NEW n \in Node, NEW ds \in SUBSET Known, PlanNode(n, ds) PROVE DagTypeOK'
  BY <1>1 DEF PlanNode
<1>2. ASSUME NEW n \in Node, StartNode(n) PROVE DagTypeOK'
  BY <1>2 DEF StartNode
<1>3. ASSUME NEW n \in Node, RefuseNode(n) PROVE DagTypeOK'
  BY <1>3 DEF RefuseNode
<1>4. ASSUME NEW n \in Node, BlockNode(n) PROVE DagTypeOK'
  <2>1. \A d \in Node : RootsOf(d) \subseteq Node
    BY DEF RootsOf
  <2>2. UNION {RootsOf(d) : d \in Blockers(n)} \subseteq Node
    BY <2>1 DEF Blockers
  <2>. QED BY <1>4, <2>2 DEF BlockNode
<1>5. ASSUME NEW n \in Node, NEW s \in BodyEnds, FinishNode(n, s) PROVE DagTypeOK'
  BY <1>5 DEF FinishNode
<1>6. ASSUME NEW ns \in SUBSET Node, DropNodes(ns) PROVE DagTypeOK'
  BY <1>6 DEF DropNodes, Drop, Lost
<1>7. CASE UNCHANGED dag
  BY <1>7 DEF dag
<1>. QED BY <1>1, <1>2, <1>3, <1>4, <1>5, <1>6, <1>7 DEF DagNext

(* Every state of the nodes is typed. (CodeNode, CodeNodeStatus.)            *)
THEOREM DagIsTyped == DagSpec => []DagTypeOK
<1>1. DagInit => DagTypeOK
  BY DEF DagInit, DagTypeOK
<1>. QED BY <1>1, DagTypedStep, PTL DEF DagSpec

LEMMA PlanKeeps ==
  ASSUME DagTypeOK, Promise, NEW n \in Node, NEW ds \in SUBSET Known, PlanNode(n, ds)
  PROVE  Promise'
<1>. USE DEF DagTypeOK, PlanNode, Planted, Known
<1>1. Planted'
  BY DEF Promise
<1>2. Acyclic'
  <2>1. SUFFICES ASSUME NEW ns \in SUBSET Known', ns # {}
                 PROVE  \E m \in ns : needs'[m] \cap ns = {}
    BY DEF Acyclic
  <2>2. CASE n \notin ns
    <3>1. ns \subseteq Known /\ \A m \in ns : needs'[m] = needs[m]
      BY <2>2
    <3>. QED BY <3>1, <2>1 DEF Promise, Acyclic
  <2>3. CASE ns = {n}
    BY <2>3
  <2>4. CASE n \in ns /\ ns # {n}
    <3>1. ns \ {n} \subseteq Known /\ ns \ {n} # {}
      BY <2>4
    <3>2. PICK m \in ns \ {n} : needs[m] \cap (ns \ {n}) = {}
      BY <3>1 DEF Promise, Acyclic
    <3>3. needs'[m] = needs[m] /\ n \notin needs[m]
      BY <3>1 DEF Promise
    <3>. QED BY <3>2, <3>3
  <2>. QED BY <2>2, <2>3, <2>4
<1>3. NothingRunsEarly'
  BY DEF Promise, NothingRunsEarly, BodyEnds
<1>4. RootsAreFailures'
  BY DEF Promise, RootsAreFailures, Failures
<1>. QED BY <1>1, <1>2, <1>3, <1>4 DEF Promise

(* No other step changes what a node needs, or which nodes there are.        *)
LEMMA GraphIsFixed ==
  ASSUME Promise, Known' = Known, UNCHANGED needs
  PROVE  Planted' /\ Acyclic'
BY DEF Promise, Planted, Acyclic

LEMMA BlockKeeps ==
  ASSUME DagTypeOK, Promise, NEW n \in Node, BlockNode(n)
  PROVE  Promise'
<1>. USE DEF DagTypeOK, BlockNode
<1>1. Planted' /\ Acyclic'
  BY GraphIsFixed DEF Known
<1>2. NothingRunsEarly'
  BY DEF Promise, NothingRunsEarly, BodyEnds
<1>3. RootsAreFailures'
  <2>. DEFINE new == UNION {RootsOf(d) : d \in Blockers(n)}
  <2>1. \A d \in Blockers(n) : d # n /\ RootsOf(d) # {}
    BY DEF Blockers, RootsOf, Failures
  <2>2. new # {}
    BY <2>1
  <2>3. \A d \in Blockers(n) : \A r \in RootsOf(d) :
           status[r] \in Failures \ {"upstream_failed"} /\ (r = d \/ r \in roots[d])
    BY DEF Promise, RootsAreFailures, RootsOf, Blockers
  <2>4. \A r \in new : /\ status[r] \in Failures \ {"upstream_failed"}
                       /\ \E d \in needs[n] : d # n /\ (r = d \/ r \in roots[d])
    BY <2>1, <2>3 DEF Blockers
  <2>5. roots'[n] = new /\ roots[n] = {} /\ \A m \in Node \ {n} : roots'[m] = roots[m]
    BY DEF Promise, RootsAreFailures
  <2>6. \A r \in Node : status[r] \in Failures => status'[r] = status[r]
    BY DEF Failures
  <2>. QED BY <2>2, <2>4, <2>5, <2>6 DEF Promise, RootsAreFailures
<1>. QED BY <1>1, <1>2, <1>3 DEF Promise

LEMMA PutKeeps ==
  ASSUME DagTypeOK, Promise, NEW n \in Node,
         \/ StartNode(n) \/ RefuseNode(n) \/ \E s \in BodyEnds : FinishNode(n, s)
  PROVE  Promise'
<1>. USE DEF DagTypeOK, StartNode, RefuseNode, FinishNode, Put
<1>1. Planted' /\ Acyclic'
  BY GraphIsFixed DEF Known, BodyEnds, Ready
<1>2. NothingRunsEarly'
  BY DEF Promise, NothingRunsEarly, BodyEnds, Ready
<1>3. RootsAreFailures'
  BY DEF Promise, RootsAreFailures, Failures, BodyEnds, Ready
<1>. QED BY <1>1, <1>2, <1>3 DEF Promise

LEMMA DropKeeps ==
  ASSUME DagTypeOK, Promise, NEW ns \in SUBSET Node, DropNodes(ns)
  PROVE  Promise'
<1>. USE DEF DagTypeOK, DropNodes, Drop, Lost, WithStatus
<1>1. Planted' /\ Acyclic'
  BY GraphIsFixed DEF Known
<1>2. NothingRunsEarly'
  BY DEF Promise, NothingRunsEarly, BodyEnds
<1>3. RootsAreFailures'
  BY DEF Promise, RootsAreFailures, Failures
<1>. QED BY <1>1, <1>2, <1>3 DEF Promise

(* Whatever is done to the nodes, the promise as a whole is kept.            *)
LEMMA PromiseStep ==
  ASSUME DagTypeOK, Promise, [DagNext]_dag
  PROVE  Promise'
<1>1. CASE UNCHANGED dag
  BY <1>1 DEF dag, Promise, Planted, Acyclic, NothingRunsEarly, RootsAreFailures, Known
<1>2. CASE DagNext
  BY <1>2, PlanKeeps, BlockKeeps, PutKeeps, DropKeeps DEF DagNext
<1>. QED BY <1>1, <1>2

(* A run without nodes has broken no promise.                                *)
LEMMA PromiseInit == DagInit => Promise
  BY DEF DagInit, Promise, Planted, Acyclic, NothingRunsEarly, RootsAreFailures,
         Known, BodyEnds, Failures

LEMMA PromiseIsKept == DagSpec => [](DagTypeOK /\ Promise)
  BY PromiseInit, PromiseStep, DagIsTyped, PTL DEF DagSpec

(* No body of a node begins before its dependencies succeeded.               *)
(* (CodeDagScheduler._execute_closure.)                                       *)
THEOREM OrderIsKept == DagSpec => []NothingRunsEarly
BY PromiseIsKept, PTL DEF Promise

(* The root failures of a skipped node are failures it descends from.        *)
(* (root_failures of CodeNode.)                                               *)
THEOREM RootsAreTrue == DagSpec => []RootsAreFailures
BY PromiseIsKept, PTL DEF Promise

(* Nodes that wait for each other are never planned.                         *)
(* (_apply_code_node_planned, _topological.)                                  *)
THEOREM NoCycles == DagSpec => []Acyclic
BY PromiseIsKept, PTL DEF Promise

(* Typed nodes that keep the promise are never stuck.                        *)
LEMMA PromiseIsProgress ==
  ASSUME DagTypeOK, Promise
  PROVE  NeverStuck
<1>. SUFFICES ASSUME WithStatus("planned") # {}, WithStatus("started") = {}
              PROVE  \E n \in WithStatus("planned") : Ready(n) \/ Blockers(n) # {}
  BY DEF NeverStuck
<1>1. PICK n \in WithStatus("planned") : needs[n] \cap WithStatus("planned") = {}
  BY DEF Promise, Acyclic, WithStatus, Known
<1>2. \A d \in needs[n] : status[d] \in Terminal
  BY <1>1 DEF Promise, Planted, Known, WithStatus, DagTypeOK
<1>. QED BY <1>1, <1>2 DEF Ready, Blockers, Terminal, WithStatus

(* While no body runs, a waiting node can be started or must be given up:    *)
(* "code graph made no progress" is never raised.                             *)
THEOREM Progress == DagSpec => []NeverStuck
  BY PromiseIsProgress, PromiseIsKept, PTL

-----------------------------------------------------------------------------
(* The scheduler and the worker.                                             *)

(* Where the main thread is: between two frames, with one in hand, and out   *)
(* of the runtime.                                                           *)
Between == {"top", "recv"}
InWave  == {"fill", "launch", "submit", "await", "commit", "drain"}
OnGraph == {"loop", "scan", "prepare", "wave", "respond"} \union InWave
InHand  == {"plan", "reject"} \union OnGraph
Ending  == {"abort", "abandon"}
Over    == {"finish", "closed"} \union Ending

Typed ==
  /\ DagTypeOK
  /\ limit \in Nat /\ cap \in Nat /\ made \in 0 .. MaxMade
  /\ wk \in {"program", "waiting", "ended", "dead"}
  /\ after \in [Node -> SUBSET Node]
  /\ told \in [Node -> {"none", "ok", "error", "rejected"}]
  /\ reply \in [Node -> {"none", "ok", "error", "rejected"}]
  /\ sent \subseteq Node /\ asked \subseteq Node /\ relevant \subseteq Node
  /\ scan \subseteq Node /\ queue \subseteq Node /\ staged \subseteq Node
  /\ rest \subseteq Node /\ flight \subseteq Node /\ settled \subseteq Node
  /\ hand \in Node \union {0}
  /\ body \in [Node -> Results \union {"idle", "running", "lost"}]
  /\ pc \in Between \union InHand \union Over
  /\ progress \in BOOLEAN /\ cancel \in BOOLEAN
  /\ belated \in Nat

(* The worker and the parent take turns. *)
Handshake ==
  /\ pc \in InHand => wk = "waiting" /\ frame = "none" /\ reply = NoReply
  /\ pc \in Over => wk = "dead"
  /\ wk # "waiting" => sent = {} /\ reply = NoReply /\ frame # "graph"
  /\ wk \in {"program", "dead"} => frame = "none"
  /\ frame # "none" => reply = NoReply

(* The nodes as the worker has them and as the parent has them. *)
Unread == pc \in Between \union {"reject"} /\ reply = NoReply
Frames ==
  /\ \A n \in Node : told[n] # "none" => n \in Made
  /\ asked \subseteq Made
  /\ \A n \in Node : after[n] \subseteq Made
  /\ wk = "waiting" => sent = Reach(asked, after, Submitted)
  /\ sent \subseteq Made
  /\ pc \notin Over => Known \subseteq Submitted \union (IF Unread THEN {} ELSE sent)
  /\ \A n \in Known : n \in Made /\ needs[n] = after[n]
  /\ pc \in {"plan"} \union OnGraph => asked \subseteq Known \union sent
  /\ pc \in OnGraph => /\ sent \subseteq relevant /\ relevant \subseteq Known
                       /\ \A n \in relevant : needs[n] \subseteq relevant

(* What is on its way to the worker is true, too. *)
Outcomes ==
  /\ WorkerKnowsTheTruth
  /\ reply # NoReply => \A n \in sent :
        /\ reply[n] # "none"
        /\ reply[n] = "ok" => status[n] = "succeeded"
        /\ reply[n] = "error" => status[n] \in Failures
        /\ reply[n] = "rejected" => status[n] = "none"

(* Which set of the scheduler each open node is in. *)
Belong ==
  /\ \A n \in Node : status[n] = "planned" => n \in sent \/ pc \in Ending
  /\ \A n \in Node : status[n] = "started" => n \in flight \union {hand} \/ pc \in Ending
  /\ pc \in Between \union {"reject", "respond", "finish", "closed"} => Settled
  /\ \A n \in queue \union staged \union rest : Ready(n)
  /\ \A n \in flight \union ({hand} \ {0}) : status[n] = "started"
Places ==
  /\ queue \intersect staged = {} /\ staged \intersect rest = {}
  /\ hand \notin flight
  /\ settled \subseteq Done
  /\ scan # {} => pc = "scan"
  /\ queue # {} => pc = "prepare"
  /\ staged # {} => pc \in {"prepare", "wave"} \union InWave
  /\ rest \union flight # {} => pc \in InWave
  /\ settled # {} => pc = "commit"
  /\ hand # 0 <=> pc \in {"launch", "submit"}
OpenNodes == Belong /\ Places

(* The thread of each node. *)
Bodies ==
  /\ \A n \in Node :
        /\ status[n] \in Results => body[n] = status[n]
        /\ status[n] \notin Results \union {"started", "outcome_unknown"} => body[n] = "idle"
  /\ \A n \in flight : body[n] \in Results \union {"running"}
  /\ hand # 0 => body[hand] = "idle"
  /\ Running \subseteq flight \/ pc \in Ending \union {"closed"}

(* A pass without progress leaves no node that waits for a failed one. *)
PassIsTrue ==
  pc = "scan" /\ ~progress =>
    Planned # {} /\ \A n \in Planned \ scan : Blockers(n) = {}

(* Once the run is cancelled, a dispatch that is under way is the last one.  *)
LastDispatch == /\ belated <= 1
                /\ ~cancel \/ pc = "submit" => belated = 0

(* The nodes of a wave change different files, and no more are in hand than  *)
(* the cap admits. *)
Apart(ns) == \A m, n \in ns : m # n /\ Target[m] = Target[n] => Target[n] = NoFile
Busy == flight \union ({hand} \ {0})
Bounded ==
  /\ Cardinality(Busy) <= cap
  /\ Cardinality(Running) <= cap
  /\ Apart(rest \union Busy) /\ Apart(Running)

Verdicts ==
  /\ run = "succeeded" => \A n \in Known : status[n] = "succeeded"
  /\ run # "active" => pc = "closed"

RunInv == /\ Typed /\ Handshake /\ Frames /\ Outcomes /\ OpenNodes /\ Bodies
          /\ PassIsTrue /\ LastDispatch /\ Bounded /\ Verdicts
          /\ Promise

-----------------------------------------------------------------------------
(* Nodes are numbers, and the least of some nodes is one of them.            *)

(* A non-empty set of naturals has a least element: of the intervals 0 .. n  *)
(* of its elements one has no other below it. *)
LEMMA LeastExists ==
  ASSUME NEW S \in SUBSET Nat, S # {}
  PROVE  \E x \in S : \A y \in S : x <= y
<1> DEFINE below == {0 .. n : n \in S}
<1>1. /\ below \subseteq FiniteSubsetsOf(Nat) /\ below # {}
  <2>1. \A n \in S : 0 .. n \subseteq Nat /\ IsFiniteSet(0 .. n)
    BY FS_Interval
  <2>. QED BY <2>1 DEF FiniteSubsetsOf
<1>2. PICK b \in below : \A c \in below : <<c, b>> \notin StrictSubsetOrdering(Nat)
  <2> HIDE DEF below
  <2>. QED BY <1>1, FS_StrictSubsetOrderingWellFounded, WFMin
<1>3. PICK x \in S : b = 0 .. x
  OBVIOUS
<1>4. ASSUME NEW y \in S, y < x PROVE FALSE
  <2> DEFINE by == 0 .. y
  <2>1. by \in below /\ by \subseteq b /\ by \subseteq Nat /\ b \subseteq Nat /\ by # b
    BY <1>3, <1>4
  <2> HIDE DEF by
  <2>2. <<by, b>> \in StrictSubsetOrdering(Nat)
    BY <2>1 DEF StrictSubsetOrdering
  <2> HIDE DEF below
  <2>. QED BY <1>2, <2>1, <2>2
<1>. QED BY <1>4

(* The least of some nodes is one of them.                                   *)
LEMMA MinIsIn ==
  ASSUME NEW S \in SUBSET Node, S # {}
  PROVE  Min(S) \in S /\ \A y \in S : Min(S) <= y
<1>1. S \in SUBSET Nat
  BY RunConfig
<1>2. \E x \in S : \A y \in S : x <= y
  BY <1>1, LeastExists
<1>. QED BY <1>2 DEF Min

(* What is reached from nodes of a closed set is in it. *)
LEMMA ReachIsClosed ==
  ASSUME NEW from, NEW edges, NEW stop
  PROVE  /\ Reach(from, edges, stop) \subseteq Node
         /\ \A ns \in SUBSET Node :
              ClosedUnder(ns, from, edges, stop) => Reach(from, edges, stop) \subseteq ns
         /\ (from \subseteq Node /\ \A m \in Node : edges[m] \subseteq Node) =>
              ClosedUnder(Reach(from, edges, stop), from, edges, stop)
  BY DEF Reach, ClosedUnder

-----------------------------------------------------------------------------
(* Types. *)

(* The worker only ever handles nodes it made.                               *)
LEMMA TypedWorker ==
  ASSUME Typed, Worker
  PROVE  Typed'
<1> USE DEF Typed, DagTypeOK, dag, pipe, pass, pool, clock, result, Made
<1>1. ASSUME NEW ds \in SUBSET Made, CreateNode(ds) PROVE Typed'
  BY <1>1, RunConfig DEF CreateNode
<1>2. ASSUME NEW n \in Made, NEW d \in Made, After(n, d) PROVE Typed'
  BY <1>2, RunConfig DEF After
<1>3. ASSUME NEW ts \in SUBSET Made \ {{}}, Execute(ts) PROVE Typed'
  BY <1>3, RunConfig, ReachIsClosed DEF Execute
<1>4. CASE TakeReply
  BY <1>4 DEF TakeReply, NoReply
<1>5. ASSUME NEW how \in {"value", "error"}, EndProgram(how) PROVE Typed'
  BY <1>5 DEF EndProgram
<1>6. CASE WorkerDies
  BY <1>6 DEF WorkerDies
<1>. QED BY <1>1, <1>2, <1>3, <1>4, <1>5, <1>6 DEF Worker

(* The parent reads frames and answers them, or leaves.                      *)
LEMMA TypedRuntime ==
  ASSUME Typed, Top \/ ReceiveNothing \/ ReceiveDone \/ ReceiveGraph \/ Respond \/ Reject
  PROVE  Typed'
<1> USE DEF Typed, DagTypeOK, dag, worker, pipe, pass, pool, clock, result, Go, Between, InHand, OnGraph, InWave,
            Over, Ending, Leave, Unwind, NoReply
<1>7. ASSUME NEW how, Leave(how) PROVE Typed'
  BY <1>7
<1>1. CASE Top
  BY <1>1 DEF Top
<1>2. CASE ReceiveNothing
  BY <1>2, <1>7 DEF ReceiveNothing
<1>3. CASE ReceiveDone
  BY <1>3 DEF ReceiveDone
<1>4. CASE ReceiveGraph
  BY <1>4 DEF ReceiveGraph
<1>5. CASE Respond
  <2>1. CASE \E how : Leave(how)
    BY <1>7, <2>1
  <2>2. CASE ~\E how : Leave(how)
    BY <1>5, <2>2 DEF Respond, Answer, Told
  <2> QED BY <2>1, <2>2
<1>6. CASE Reject
  <2>1. CASE \E how : Leave(how)
    BY <1>7, <2>1
  <2>2. CASE ~\E how : Leave(how)
    BY <1>6, <2>2 DEF Reject, Answer
  <2> QED BY <2>1, <2>2
<1>. QED BY <1>1, <1>2, <1>3, <1>4, <1>5, <1>6

(* The scheduler's passes over a frame take nodes from sets of nodes.        *)
LEMMA TypedPass ==
  ASSUME Typed, \/ \E n \in Node : Plan(n)
                \/ AllPlanned \/ Loop \/ Scan \/ Prepare \/ Prepared \/ Wave
  PROVE  Typed'
<1> USE DEF Typed, dag, worker, pipe, pass, pool, clock, result, Go, Between, InHand, OnGraph, InWave,
            Over, Ending
<1>1. ASSUME NEW n \in Node, Plan(n) PROVE Typed'
  BY <1>1 DEF Plan, PlanNode, DagTypeOK, Known
<1>2. CASE AllPlanned
  BY <1>2, ReachIsClosed DEF AllPlanned, DagTypeOK
<1>3. CASE Loop
  BY <1>3 DEF Loop, Planned, DagTypeOK
<1>4. CASE Scan
  <2>1. Min(scan) \in Node
    BY <1>4, MinIsIn DEF Scan
  <2>2. DagTypeOK'
    BY <1>4, <2>1, DagTypedStep DEF Scan, DagNext
  <2>. QED BY <1>4, <2>2 DEF Scan
<1>5. CASE Prepare
  <2>1. Min(queue) \in Node
    BY <1>5, MinIsIn DEF Prepare
  <2> DEFINE m == Min(queue)
  <2> HIDE DEF m
  <2>2. m \in Node /\ (Drop({m}) \/ Put(m, "refused") \/ UNCHANGED dag)
    BY <1>5, <2>1 DEF Prepare, m
  <2>3. DagTypeOK'
    BY <2>2 DEF DagTypeOK, Drop, Put, Lost, Terminal, Failures
  <2>. QED BY <1>5, <2>1, <2>3 DEF Prepare
<1>6. CASE Prepared
  BY <1>6 DEF Prepared, DagTypeOK
<1>7. CASE Wave
  <2>1. DagTypeOK'
    BY <1>7 DEF Wave, Drop, Lost, DagTypeOK, Terminal, Failures
  <2>2. NextWave \subseteq staged
    BY DEF NextWave
  <2>. QED BY <1>7, <2>1, <2>2 DEF Wave
<1>. QED BY <1>1, <1>2, <1>3, <1>4, <1>5, <1>6, <1>7

(* So do waves: a thread that wait() returned as done has a result.          *)
LEMMA TypedWave ==
  ASSUME Typed, OpenNodes, Bodies,
                \/ Fill \/ Launch \/ Submit \/ Await \/ Drain
                \/ \E n \in Node : Commit(n)
                \/ \E n \in Node : BodyEnd(n)
  PROVE  Typed'
<1> USE DEF Typed, dag, worker, pipe, pass, pool, clock, result, Go, Between, InHand, OnGraph, InWave,
            Over, Ending, DagTypeOK
<1>1. CASE Fill
  <2>1. rest # {} => Min(rest) \in Node
    BY MinIsIn
  <2>2. (hand' \in Node /\ Put(hand', "started")) \/ (hand' = hand /\ UNCHANGED dag)
    BY <1>1, <2>1 DEF Fill, Room
  <2>3. DagTypeOK'
    BY <2>2 DEF Put
  <2>. QED BY <1>1, <2>2, <2>3 DEF Fill, Room
<1>2. CASE Launch
  BY <1>2 DEF Launch, Put, Terminal, Failures
<1>3. CASE Submit
  <2>1. body' \in [Node -> Results \union {"idle", "running", "lost"}]
    BY <1>3 DEF Submit
  <2>2. flight' \subseteq Node /\ hand' = 0 /\ belated' \in Nat
    BY <1>3, hand # 0 DEF Submit, OpenNodes, Belong, Places
  <2>. QED BY <1>3, <2>1, <2>2 DEF Submit
<1>4. CASE Await
  <2>1. DagTypeOK'
    BY <1>4 DEF Await, Drop, Lost, Terminal, Failures
  <2>2. Done \subseteq Node
    BY DEF Done
  <2>. QED BY <1>4, <2>1, <2>2 DEF Await
<1>5. CASE Drain
  <2>1. CASE flight = {} /\ Interrupted("abort") /\ UNCHANGED dag
    BY <1>5, <2>1 DEF Drain, Interrupted, Unwind, NoReply
  <2>2. ASSUME NEW n \in flight, Put(n, body[n]), Drain, flight' = flight \ {n},
               UNCHANGED <<worker, pipe, pc, pass, queue, staged, rest, hand, settled, belated, clock, result>>
        PROVE  Typed'
    <3>1. body[n] \in Results
      BY <2>2 DEF Drain, Running, Bodies
    <3>2. DagTypeOK'
      BY <2>2, <3>1 DEF Put, Results, Terminal, Failures
    <3>. QED BY <2>2, <3>2 DEF Drain
  <2>. QED BY <1>5, <2>1, <2>2 DEF Drain
<1>6. ASSUME NEW n \in Node, Commit(n) PROVE Typed'
  <2>1. body[n] \in Results
    BY <1>6 DEF Commit, OpenNodes, Belong, Places, Done
  <2>2. DagTypeOK'
    BY <1>6, <2>1 DEF Commit, Put, Results, Terminal, Failures
  <2>. QED BY <1>6, <2>2 DEF Commit
<1>7. ASSUME NEW n \in Node, BodyEnd(n) PROVE Typed'
  BY <1>7 DEF BodyEnd, BodyEndsAs, Results
<1>. QED BY <1>1, <1>2, <1>3, <1>4, <1>5, <1>6, <1>7

(* However a run ends, what is left of it is typed.                          *)
LEMMA TypedEnd ==
  ASSUME Typed, Abort \/ Expire \/ InterruptWait \/ InterruptApproval \/ Interrupt \/ Crash
  PROVE  Typed'
<1> USE DEF Typed, dag, worker, pipe, pass, pool, clock, result, Go, Between, InHand, OnGraph, InWave,
            Over, Ending, DagTypeOK, Interrupted, Unwind, NoReply
<1>1. CASE Abort
  BY <1>1 DEF Abort, Drop, Lost, Terminal, Failures
<1>2. CASE Expire
  BY <1>2 DEF Expire
<1>3. CASE InterruptWait
  BY <1>3 DEF InterruptWait
<1>4. CASE InterruptApproval
  BY <1>4, MinIsIn DEF InterruptApproval, Put, Terminal, Failures
<1>5. CASE Interrupt
  BY <1>5 DEF Interrupt
<1>6. CASE Crash
  BY <1>6 DEF Crash
<1>. QED BY <1>1, <1>2, <1>3, <1>4, <1>5, <1>6

-----------------------------------------------------------------------------
(* The scheduler implements CodeDag: a step of the run does one thing to the *)
(* nodes that CodeDag allows, or nothing.                                    *)

LEMMA SilentSteps ==
  ASSUME Worker \/ Top \/ ReceiveNothing \/ ReceiveDone \/ ReceiveGraph \/ Respond
         \/ Reject \/ AllPlanned \/ Loop \/ Prepared \/ Submit \/ Finish
         \/ (\E n \in Node : BodyEnd(n)) \/ Expire \/ InterruptWait \/ Interrupt \/ Crash
  PROVE  UNCHANGED dag
  BY DEF Worker, CreateNode, After, Execute, TakeReply, EndProgram, WorkerDies, Top, Leave,
         ReceiveNothing, ReceiveDone, ReceiveGraph, Respond, Reject, Answer, AllPlanned, Loop,
         Prepared, Submit, Finish, BodyEnd, BodyEndsAs, Expire, InterruptWait, Interrupt, Crash

(* All but the plan of a node leave the graph as it is. *)
Move ==
  \/ \E n \in Node : \/ StartNode(n) \/ RefuseNode(n) \/ BlockNode(n)
                     \/ \E s \in BodyEnds : FinishNode(n, s)
  \/ \E ns \in SUBSET Node : DropNodes(ns)

(* Every other step of the run is one of these, or does nothing to a node.   *)
LEMMA StepMoves ==
  ASSUME Typed, OpenNodes, Bodies, [RunNext]_vars
  PROVE  (\E n \in Node : Plan(n)) \/ [Move]_dag
<1> USE DEF Typed
<1>1. CASE Scan
  BY <1>1, MinIsIn DEF Scan, Move
<1>2. CASE Scanned
  BY <1>2 DEF Scanned, Planned, DropNodes, WithStatus, Move
<1>3. CASE Prepare
  <2>1. Min(queue) \in Node /\ Ready(Min(queue))
    BY <1>3, MinIsIn DEF Prepare, OpenNodes, Belong, Places
  <2>2. {Min(queue)} \subseteq WithStatus("planned")
    BY <2>1 DEF Ready, WithStatus
  <2>. QED BY <1>3, <2>1, <2>2 DEF Prepare, RefuseNode, DropNodes, Move
<1>4. CASE Wave
  <2>1. staged \subseteq WithStatus("planned")
    BY DEF OpenNodes, Belong, Places, Ready, WithStatus
  <2>. QED BY <1>4, <2>1 DEF Wave, DropNodes, Move
<1>5. CASE Fill
  BY <1>5, MinIsIn DEF Fill, Room, OpenNodes, Belong, Places, StartNode, Move
<1>6. CASE Launch
  BY <1>6 DEF Launch, OpenNodes, Belong, Places, FinishNode, BodyEnds, Move
<1>7. CASE Await
  <2>1. rest \subseteq WithStatus("planned")
    BY DEF OpenNodes, Belong, Places, Ready, WithStatus
  <2>. QED BY <1>7, <2>1 DEF Await, DropNodes, Move
<1>8. ASSUME NEW n \in Node, Commit(n) PROVE Move
  BY <1>8 DEF Commit, OpenNodes, Belong, Places, Done, Results, FinishNode, BodyEnds, Move
<1>9. CASE Drain
  BY <1>9 DEF Drain, OpenNodes, Belong, Places, Bodies, Running, Results, FinishNode, BodyEnds, Move
<1>10. CASE Abort
  BY <1>10 DEF Abort, DropNodes, WithStatus, Move
<1>11. CASE InterruptApproval
  BY <1>11, MinIsIn DEF InterruptApproval, OpenNodes, Belong, Places, RefuseNode, Move
<1>12. CASE UNCHANGED vars
  BY <1>12 DEF vars
<1>. QED BY <1>1, <1>2, <1>3, <1>4, <1>5, <1>6, <1>7, <1>8, <1>9, <1>10, <1>11, <1>12,
            SilentSteps DEF RunNext, Host

(* Either way it is a step of CodeDag.                                       *)
LEMMA StepRefines ==
  ASSUME Typed, OpenNodes, Bodies, [RunNext]_vars
  PROVE  [DagNext]_dag
<1>1. ASSUME NEW n \in Node, Plan(n) PROVE DagNext
  BY <1>1 DEF Plan, PlanNode, DagNext
<1>2. Move => DagNext
  BY DEF Move, DagNext
<1>. QED BY <1>1, <1>2, StepMoves

(* What such a step leaves as it is.                                         *)
LEMMA MoveKeeps ==
  ASSUME DagTypeOK, [Move]_dag
  PROVE  Known' = Known /\ needs' = needs
  BY DEF Move, StartNode, RefuseNode, BlockNode, FinishNode, DropNodes, Drop, Lost, Put, Ready,
         BodyEnds, WithStatus, Known, DagTypeOK, dag

(* No step changes how a node ended.                                         *)
LEMMA EndsAreFinal ==
  ASSUME DagTypeOK, [DagNext]_dag
  PROVE  \A n \in Node : status[n] \in Terminal => status'[n] = status[n]
  BY DEF DagNext, PlanNode, StartNode, RefuseNode, BlockNode, FinishNode, DropNodes, Drop, Lost,
         Put, Ready, BodyEnds, WithStatus, Known, DagTypeOK, dag, Terminal, Failures

-----------------------------------------------------------------------------
(* A pass that moved nothing contradicts Acyclic: the planned node that      *)
(* waits for no other planned one would be ready or blocked.                 *)
LEMMA PassMoves ==
  ASSUME Typed, Frames, OpenNodes, PassIsTrue, Promise, pc = "scan", scan = {}, ~progress
  PROVE  ReadyNodes # {}
<1>1. Planned # {} /\ (\A n \in Planned : Blockers(n) = {}) /\ Planned \subseteq Known
  BY DEF PassIsTrue, Planned, Known, Typed
<1>2. PICK n \in Planned : needs[n] \intersect Planned = {}
  BY <1>1 DEF Promise, Acyclic
<1>3. needs[n] \subseteq relevant /\ needs[n] \subseteq Known /\ n \in Node
  BY <1>1 DEF Frames, OnGraph, Promise, Planted, Planned, Known
<1>4. ASSUME NEW d \in needs[n] PROVE status[d] = "succeeded"
  <2>1. d \in Node /\ status[d] # "none" /\ status[d] # "planned"
    BY <1>2, <1>3 DEF Known, Planned
  <2>2. status[d] # "started"
    <3>1. flight = {} /\ hand = 0 /\ pc \notin Ending
      BY DEF OpenNodes, Belong, Places, InWave, Ending
    <3>2. 0 \notin Node
      BY RunConfig
    <3>. QED BY <2>1, <3>1, <3>2 DEF OpenNodes, Belong, Places
  <2>3. status[d] \notin Failures
    BY <1>1 DEF Blockers
  <2>. QED BY <2>1, <2>2, <2>3 DEF Typed, DagTypeOK, Terminal
<1>. QED BY <1>3, <1>4 DEF ReadyNodes, Ready, Planned

(* The scheduler is never stuck, and the record of the end is never refused. *)
LEMMA TypedFinish ==
  ASSUME Typed, Frames, OpenNodes, PassIsTrue, Promise, Scanned \/ Finish
  PROVE  Typed'
<1> USE DEF Typed, dag, worker, pipe, pass, pool, clock, result, Go, Between, InHand, OnGraph, InWave,
            Over, Ending, DagTypeOK
<1>1. CASE Scanned
  <2>1. DagTypeOK'
    BY <1>1 DEF Scanned, Drop, Lost, Terminal, Failures
  <2>2. ReadyNodes \subseteq Node
    BY DEF ReadyNodes, Planned
  <2>3. pc' \in OnGraph
    <3>1. pc' # "stuck"
      BY <1>1, PassMoves DEF Scanned
    <3>. QED BY <1>1, <3>1 DEF Scanned
  <2>. QED BY <1>1, <2>1, <2>2, <2>3 DEF Scanned
<1>2. CASE Finish
  BY <1>2 DEF Finish, OpenNodes, Belong, Places
<1>. QED BY <1>1, <1>2

(* All steps together.                                                       *)
LEMMA TypedStep ==
  ASSUME RunInv, [RunNext]_vars
  PROVE  Typed'
<1>1. CASE UNCHANGED vars
  BY <1>1 DEF RunInv, Typed, DagTypeOK, vars, dag, worker, pipe, pass, pool, clock, result
<1>. QED BY <1>1, TypedWorker, TypedRuntime, TypedPass, TypedWave, TypedEnd, TypedFinish
         DEF RunInv, RunNext, Host

-----------------------------------------------------------------------------
(* The steps that matter to the frames: of the worker, inside the scheduler, *)
(* out of the runtime, and the two ends of an exchange.                      *)

Out    == \E next \in Over, how \in {"value", "error", "timeout", "exit", "protocol",
                                     "interrupted", "exception"} : Unwind(next, how)
Pass   == pc \in OnGraph /\ pc' \in OnGraph /\ UNCHANGED <<worker, pipe, relevant>>
Inside == (\E n \in Node : Plan(n)) \/ AllPlanned \/ Pass
Aside  == UNCHANGED <<worker, pipe, pc, relevant>>
Close  == pc \in Over /\ pc' \in Over /\ UNCHANGED <<worker, pipe>>

TurnToRead == pc = "top" /\ pc' = "recv" /\ UNCHANGED <<dag, worker, pipe>>
TakeFrame  == ReceiveGraph
Tell == \/ Respond /\ pc' = "top" /\ ~Out
        \/ Reject /\ pc' = "top" /\ ~Out

(* There are no others.                                                      *)
LEMMA StepKinds ==
  ASSUME Typed, OpenNodes, Typed', [RunNext]_vars
  PROVE  Worker \/ Out \/ Inside \/ Aside \/ Close \/ TurnToRead \/ TakeFrame \/ Tell
<1> USE DEF Go
<1>1. CASE Top
  BY <1>1 DEF Top, Leave, Out, Over, TurnToRead
<1>2. CASE ReceiveNothing \/ ReceiveDone
  BY <1>2 DEF ReceiveNothing, ReceiveDone, Leave, Out, Over
<1>3. CASE Respond \/ Reject
  BY <1>3 DEF Respond, Reject, Answer, Leave, Out, Over, Tell
<1>4. CASE (\E n \in Node : Plan(n)) \/ AllPlanned
  BY <1>4 DEF Inside
<1>5. CASE Loop \/ Scan \/ Scanned \/ Prepare \/ Prepared \/ Wave
  BY <1>5 DEF Loop, Scan, Scanned, Prepare, Prepared, Wave, Inside, Pass, pass, InHand, OnGraph,
              InWave, Typed, Between, Over, Ending
<1>6. CASE Fill \/ Launch \/ Submit \/ Await \/ (\E n \in Node : Commit(n)) \/ InterruptWait
  BY <1>6 DEF Fill, Launch, Submit, Await, Commit, InterruptWait, Inside, Pass, pass, OnGraph, InWave
<1>7. CASE Drain
  BY <1>7 DEF Drain, Interrupted, Out, Over, Ending, Inside, Pass, pass, OnGraph, InWave
<1>8. CASE Finish \/ Abort
  BY <1>8 DEF Finish, Abort, Close, Over, Ending, Typed, Between, InHand, OnGraph, InWave
<1>9. CASE (\E n \in Node : BodyEnd(n)) \/ Expire \/ UNCHANGED vars
  BY <1>9 DEF BodyEnd, BodyEndsAs, Expire, vars, pass, Aside
<1>10. CASE InterruptApproval \/ Interrupt \/ Crash
  BY <1>10 DEF InterruptApproval, Interrupt, Crash, Interrupted, Out, Over, Ending
<1>. QED BY <1>1, <1>2, <1>3, <1>4, <1>5, <1>6, <1>7, <1>8, <1>9, <1>10 DEF RunNext, Host, TakeFrame

(* Worker and parent go on taking turns.                                     *)
LEMMA HandshakeStep ==
  ASSUME RunInv, Typed', [RunNext]_vars
  PROVE  Handshake'
<1> USE DEF RunInv, Handshake, Between, InHand, OnGraph, InWave, Over, Ending
<1>1. CASE Worker
  <2> USE DEF dag, pass, pool, clock, result, pipe
  <2>1. CASE TakeReply
    BY <2>1 DEF TakeReply
  <2>2. ASSUME NEW ts, Execute(ts) PROVE Handshake'
    BY <2>2 DEF Execute
  <2>3. CASE UNCHANGED <<pc, pipe>> /\ wk = "program" /\ wk' \in {"program", "dead"}
    BY <2>3
  <2>4. ASSUME NEW how \in {"value", "error"}, EndProgram(how) PROVE Handshake'
    BY <2>4 DEF EndProgram
  <2>. QED BY <1>1, <2>1, <2>2, <2>3, <2>4 DEF Worker, CreateNode, After, WorkerDies
<1>2. CASE Out
  BY <1>2 DEF Out, Unwind
<1>3. CASE Inside
  <2>1. pc \in InHand /\ pc' \in InHand /\ UNCHANGED <<wk, frame, sent, reply>>
    BY <1>3 DEF Inside, Plan, AllPlanned, Pass, worker, pipe, Go
  <2>. QED BY <2>1
<1>6. CASE Aside \/ Close \/ TurnToRead
  BY <1>6 DEF Aside, Close, TurnToRead, worker, pipe
<1>4. CASE TakeFrame
  BY <1>4 DEF TakeFrame, ReceiveGraph, Go, worker, pipe
<1>5. CASE Tell
  BY <1>5 DEF Tell, Respond, Reject, Answer, Leave, Go, worker, Out
<1>. QED BY <1>1, <1>2, <1>3, <1>4, <1>5, <1>6, StepKinds

-----------------------------------------------------------------------------
(* The nodes as the worker has them and as the parent has them.              *)

(* The worker does nothing while the parent has its frame in hand.           *)
LEMMA WorkerStep ==
  ASSUME Typed, Handshake, Frames, Outcomes, Worker
  PROVE  Frames' /\ pc \notin InHand \union Over
<1> USE DEF Typed, pipe, pass, pool, clock, result, dag, Known, DagTypeOK
<1>1. pc \notin InHand \union Over
  BY DEF Worker, CreateNode, After, Execute, TakeReply, EndProgram, WorkerDies, Handshake
<1>2. wk = "program" => sent = {} /\ Known \subseteq Submitted
  BY <1>1 DEF Handshake, Frames
<1>3. ASSUME NEW ds \in SUBSET Made, CreateNode(ds) PROVE Frames'
  <2>1. made + 1 \notin Made /\ Made \subseteq Made'
    BY <1>3 DEF CreateNode, Made
  <2>2. Submitted \subseteq Submitted'
    BY <1>3, <2>1 DEF CreateNode, Submitted
  <2>3. \A n \in Known : after'[n] = after[n]
    BY <1>3, <2>1 DEF CreateNode, Frames
  <2>4. \A n \in Node : after'[n] \subseteq Made'
    BY <1>3, <2>1 DEF CreateNode, Frames
  <2>. QED BY <1>1, <1>3, <2>1, <2>2, <2>3, <2>4 DEF CreateNode, Frames, Unread, InHand
<1>4. ASSUME NEW n \in Made, NEW d \in Made, After(n, d) PROVE Frames'
  <2>1. n \notin Known
    BY <1>2, <1>4 DEF After
  <2>2. Made' = Made /\ Submitted' = Submitted
    BY <1>4 DEF After, Made, Submitted
  <2>3. \A m \in Known : after'[m] = after[m]
    BY <1>4, <2>1 DEF After
  <2>4. \A m \in Node : after'[m] \subseteq Made'
    BY <1>4, <2>2 DEF After, Frames
  <2>. QED BY <1>1, <1>4, <2>2, <2>3, <2>4 DEF After, Frames, Unread, InHand
<1>5. ASSUME NEW ts \in SUBSET Made \ {{}}, Execute(ts) PROVE Frames'
  <2>1. Made' = Made /\ Submitted' = Submitted
    BY <1>5 DEF Execute, Made, Submitted
  <2>2. Made \subseteq Node
    BY RunConfig DEF Made
  <2>3. ClosedUnder(Made, ts, after, Submitted)
    BY <2>2 DEF ClosedUnder, Frames
  <2>4. Reach(ts, after, Submitted) \subseteq Made
    BY <2>2, <2>3, ReachIsClosed
  <2>. QED BY <1>1, <1>2, <1>5, <2>1, <2>4 DEF Execute, Frames, Unread, InHand
<1>6. CASE TakeReply
  <2>1. Made' = Made /\ Submitted' = Submitted \union sent
    <3>1. Made' = Made /\ \A n \in sent : n \in Made /\ told'[n] # "none"
      BY <1>6 DEF TakeReply, Made, Outcomes, Frames
    <3>2. \A n \in Made \ sent : told'[n] = told[n]
      BY <1>6, RunConfig DEF TakeReply, Made
    <3>. QED BY <3>1, <3>2 DEF Submitted
  <2>2. Known \subseteq Submitted'
    BY <1>1, <1>6, <2>1 DEF TakeReply, Frames, Unread
  <2>. QED BY <1>1, <1>6, <2>1, <2>2 DEF TakeReply, Frames, Unread, InHand
<1>7. CASE WorkerDies \/ \E how \in {"value", "error"} : EndProgram(how)
  <2>1. Made' = Made /\ Submitted' = Submitted
    BY <1>7 DEF WorkerDies, EndProgram, Made, Submitted
  <2>. QED BY <1>1, <1>7, <2>1 DEF WorkerDies, EndProgram, Frames, Unread, InHand
<1>. QED BY <1>1, <1>3, <1>4, <1>5, <1>6, <1>7 DEF Worker

(* A plan adds a node of the frame, with the dependencies the worker has.    *)
LEMMA PlanStep ==
  ASSUME Typed, Frames, Handshake, NEW n \in Node, Plan(n)
  PROVE  Frames'
<1> USE DEF Typed, DagTypeOK
<1>1. /\ pc = "plan" /\ pc' = "plan" /\ n \in sent
      /\ Known' = Known \union {n} /\ needs' = [needs EXCEPT ![n] = after[n]]
      /\ UNCHANGED <<worker, pipe>>
  BY DEF Plan, PlanNode, Known
<1>2. Made' = Made /\ Submitted' = Submitted
  BY <1>1 DEF Made, Submitted, worker
<1>3. Unread' = FALSE
  BY <1>1 DEF Unread, Between
<1>. QED BY <1>1, <1>2, <1>3 DEF Frames, worker, pipe, OnGraph, InWave, Over, Ending

(* The scheduler's closure covers the frame: what is reached from the targets *)
(* along the planned dependencies is closed under what the worker sent.      *)
LEMMA ClosureStep ==
  ASSUME Typed, Frames, Handshake, Promise, AllPlanned
  PROVE  Frames'
<1> USE DEF Typed, DagTypeOK
<1>1. /\ pc = "plan" /\ pc' = "loop" /\ relevant' = Reach(asked, needs, {}) /\ sent \subseteq Known
      /\ UNCHANGED <<dag, worker, pipe>>
  BY DEF AllPlanned, Go
<1>2. Made' = Made /\ Submitted' = Submitted /\ Known' = Known
  BY <1>1 DEF Made, Submitted, Known, worker, dag
<1>3. ClosedUnder(relevant', asked, needs, {})
  BY <1>1, ReachIsClosed
<1>4. relevant' \subseteq Known
  <2>1. ClosedUnder(Known, asked, needs, {}) /\ Known \subseteq Node
    BY <1>1 DEF ClosedUnder, Frames, Promise, Planted, Known
  <2>. QED BY <1>1, <2>1, ReachIsClosed
<1>5. sent \subseteq relevant'
  <2>1. ClosedUnder(relevant', asked, after, Submitted)
    BY <1>3, <1>4 DEF ClosedUnder, Frames
  <2>2. sent = Reach(asked, after, Submitted)
    BY <1>1 DEF Frames, Handshake, InHand
  <2>3. relevant' \subseteq Node
    BY <1>4 DEF Known
  <2>. QED BY <2>1, <2>2, <2>3, ReachIsClosed
<1>6. Unread' = FALSE /\ pc' \notin Over
  BY <1>1 DEF Unread, Between, Over, Ending
<1>7. /\ sent' = sent /\ asked' = asked /\ wk' = wk /\ needs' = needs /\ after' = after /\ told' = told
      /\ \A n \in relevant' : needs'[n] \subseteq relevant'
  BY <1>1, <1>3 DEF worker, pipe, dag, ClosedUnder
<1>. QED BY <1>1, <1>2, <1>4, <1>5, <1>6, <1>7 DEF Frames, Over, Ending, OnGraph, InWave

(* The other steps leave the graph alone.                                    *)
LEMMA FramesStep ==
  ASSUME RunInv, Typed', [RunNext]_vars
  PROVE  Frames'
<1> USE DEF RunInv
<1>1. CASE Worker
  BY <1>1, WorkerStep
<1>2. CASE (\E n \in Node : Plan(n)) \/ AllPlanned
  BY <1>2, PlanStep, ClosureStep
<1> SUFFICES ASSUME Out \/ Pass \/ Aside \/ Close \/ TurnToRead \/ TakeFrame \/ Tell,
                    ~\E n \in Node : Plan(n)
             PROVE  Frames'
  BY <1>1, <1>2, StepKinds DEF Inside
<1>3. Known' = Known /\ needs' = needs
  BY StepMoves, MoveKeeps DEF Typed
<1>4. UNCHANGED <<made, after, told>> /\ Made' = Made /\ Submitted' = Submitted
  <2>1. UNCHANGED <<made, after, told>>
    BY DEF Out, Pass, Aside, Close, TurnToRead, TakeFrame, Tell, Unwind, ReceiveGraph, Respond,
           Reject, Answer, Leave, worker
  <2>. QED BY <2>1 DEF Made, Submitted
<1>5. CASE Out
  BY <1>3, <1>4, <1>5 DEF Out, Unwind, Frames, OnGraph, InWave, Over, Ending
<1>6. CASE Pass
  BY <1>3, <1>4, <1>6 DEF Pass, Frames, Unread, OnGraph, InWave, Over, Ending, Between, worker, pipe
<1>7. CASE Aside \/ Close \/ TurnToRead
  BY <1>3, <1>4, <1>7 DEF Aside, Close, TurnToRead, Frames, Unread, Between, OnGraph, InWave, Over,
                          Ending, worker, pipe
<1>8. CASE TakeFrame
  BY <1>3, <1>4, <1>8 DEF TakeFrame, ReceiveGraph, Go, Acceptable, Frames, Unread, Between, OnGraph,
                          InWave, Over, Ending, Handshake, worker, pipe
<1>9. CASE Tell
  <2>1. pc \in {"respond", "reject"} /\ pc' = "top" /\ UNCHANGED <<worker, frame, sent, asked>>
    BY <1>9 DEF Tell, Respond, Reject, Answer, Leave, Out, Over
  <2>2. Known \subseteq Submitted \union (IF Unread' THEN {} ELSE sent)
    <3>1. CASE pc = "reject"
      BY <3>1 DEF Frames, Unread, Handshake, InHand, Over, Ending
    <3>2. CASE pc = "respond" /\ sent = {}
      BY <3>2 DEF Frames, Over, Ending
    <3>3. CASE pc = "respond" /\ sent # {}
      <4>1. PICK n \in relevant : TRUE
        BY <3>3 DEF Frames, OnGraph
      <4>2. reply'[n] \in {"ok", "error"}
        BY <3>3, <4>1, <1>9 DEF Tell, Respond, Reject, Answer, Leave, Out, Over, Told, Typed
      <4>3. ~Unread'
        BY <4>1, <4>2 DEF Unread, NoReply, Typed
      <4>. QED BY <3>3, <4>3 DEF Frames, Over, Ending
    <3>. QED BY <2>1, <3>1, <3>2, <3>3
  <2>. QED BY <1>3, <1>4, <2>1, <2>2 DEF Frames, OnGraph, InWave, worker
<1>. QED BY <1>5, <1>6, <1>7, <1>8, <1>9

-----------------------------------------------------------------------------
(* What the worker is told.                                                  *)

(* A frame never repeats a node whose outcome the worker has.                *)
LEMMA SentIsNew ==
  ASSUME Typed, Frames, wk = "waiting"
  PROVE  sent \intersect Submitted = {}
<1>1. ClosedUnder(Node \ Submitted, asked, after, Submitted)
  BY DEF ClosedUnder, Typed
<1>2. sent \subseteq Node \ Submitted
  BY <1>1, ReachIsClosed DEF Frames
<1>. QED BY <1>2

(* What the worker was told stays true, and the next reply is true as well:  *)
(* outcomes are final, and a node it was told is rejected is never planned.  *)
LEMMA OutcomesStep ==
  ASSUME RunInv, Typed', [RunNext]_vars
  PROVE  Outcomes'
<1> USE DEF RunInv, Typed, DagTypeOK
<1> DEFINE Truth(what, s) == /\ what = "ok" => s = "succeeded"
                             /\ what = "error" => s \in Failures
                             /\ what = "rejected" => s = "none"
<1>1. \A n \in Node : status[n] \in Terminal => status'[n] = status[n]
  BY StepRefines, EndsAreFinal
<1>2. ASSUME NEW n \in Node, status[n] = "none", status'[n] # "none"
      PROVE  Plan(n)
  <2>1. ASSUME [Move]_dag PROVE FALSE
    BY <1>2, <2>1, MoveKeeps DEF Known
  <2>2. PICK m \in Node : Plan(m)
    BY <2>1, StepMoves
  <2>3. m = n
    BY <1>2, <2>2 DEF Plan, PlanNode
  <2>. QED BY <2>2, <2>3
<1>3. ASSUME NEW n \in Node, NEW what, Truth(what, status[n]), ~Plan(n)
      PROVE  Truth(what, status'[n])
  BY <1>1, <1>2, <1>3 DEF Terminal
<1>4. \A n \in Node : told[n] = "rejected" => ~Plan(n)
  BY SentIsNew DEF Plan, Handshake, InHand, Submitted, Frames
<1>5. \A n \in Node : Plan(n) => reply = NoReply
  BY DEF Plan, Handshake, InHand
<1>6. ASSUME UNCHANGED told, reply' = NoReply \/ UNCHANGED <<reply, sent>>
      PROVE  Outcomes'
  <2>1. WorkerKnowsTheTruth'
    <3>1. \A n \in Node : Truth(told[n], status[n]) => Truth(told[n], status'[n])
      BY <1>1, <1>3, <1>4 DEF Terminal
    <3>. QED BY <1>6, <3>1 DEF Outcomes, WorkerKnowsTheTruth
  <2>2. ASSUME reply' # NoReply, NEW n \in sent'
        PROVE  reply'[n] # "none" /\ Truth(reply'[n], status'[n])
    <3>1. n \in sent /\ reply # NoReply /\ ~Plan(n) /\ reply' = reply
      BY <1>5, <1>6, <2>2
    <3>2. Truth(reply[n], status[n]) /\ reply[n] # "none"
      BY <3>1 DEF Outcomes
    <3>. QED BY <1>3, <3>1, <3>2
  <2>. QED BY <2>1, <2>2 DEF Outcomes
<1>7. CASE TakeReply
  <2>1. UNCHANGED dag /\ reply' = NoReply
    BY <1>7 DEF TakeReply
  <2>2. \A n \in Node : told'[n] = IF n \in sent THEN reply[n] ELSE told[n]
    BY <1>7 DEF TakeReply
  <2>. QED BY <1>7, <2>1, <2>2 DEF TakeReply, Outcomes, WorkerKnowsTheTruth, dag
<1>8. CASE Tell
  <2>1. UNCHANGED <<dag, told, sent>> /\ pc \in {"respond", "reject"}
    BY <1>8 DEF Tell, Respond, Reject, Answer, Leave, Out, Over, worker
  <2>2. WorkerKnowsTheTruth'
    BY <2>1 DEF dag, Outcomes, WorkerKnowsTheTruth
  <2>3. CASE pc = "respond"
    <3>1. Settled /\ sent \subseteq Known /\ sent \subseteq relevant
      BY <2>3 DEF OpenNodes, Belong, Places, Frames, OnGraph
    <3>2. \A n \in sent : reply'[n] = Told(n)
      BY <1>8, <2>3, <3>1 DEF Tell, Respond, Reject, Answer, Leave, Out, Over
    <3>. QED BY <2>1, <2>2, <3>1, <3>2 DEF Outcomes, dag, Told, Settled, Terminal
  <2>4. CASE pc = "reject"
    <3>1. sent \intersect Known = {}
      BY <2>4, SentIsNew DEF Frames, Handshake, InHand, Unread, Over, Ending
    <3>2. \A n \in sent : reply'[n] = "rejected"
      BY <1>8, <2>4 DEF Tell, Respond, Reject, Answer, Leave, Out, Over
    <3>. QED BY <2>1, <2>2, <3>1, <3>2 DEF Outcomes, dag, Known
  <2>. QED BY <2>1, <2>3, <2>4
<1>9. ASSUME Worker, ~TakeReply PROVE UNCHANGED told /\ (reply' = NoReply \/ UNCHANGED <<reply, sent>>)
  BY <1>9 DEF Worker, CreateNode, After, Execute, EndProgram, WorkerDies, pipe, Handshake
<1>10. CASE Out \/ Inside \/ Aside \/ Close \/ TurnToRead \/ TakeFrame
  BY <1>6, <1>10 DEF Out, Unwind, Inside, Plan, AllPlanned, Pass, Aside, Close, TurnToRead, TakeFrame,
                     ReceiveGraph, worker, pipe
<1>. QED BY <1>6, <1>7, <1>8, <1>9, <1>10, StepKinds

-----------------------------------------------------------------------------
(* Which set of the scheduler each open node is in.                          *)

(* A ready node stays so until something is done to it. *)
LEMMA ReadyStays ==
  ASSUME DagTypeOK, [Move]_dag, NEW n \in Node, Ready(n), status'[n] = "planned"
  PROVE  Ready(n)'
<1>1. needs' = needs /\ \A d \in Node : status[d] \in Terminal => status'[d] = status[d]
  <2>1. [DagNext]_dag
    BY DEF Move, DagNext
  <2>. QED BY <2>1, MoveKeeps, EndsAreFinal
<1>. QED BY <1>1 DEF Ready, Terminal, DagTypeOK

(* Outside of a wave the open nodes are the planned ones of the closure.     *)
LEMMA OpenIsPlanned ==
  ASSUME Typed, Frames, OpenNodes, pc \in {"loop", "scan"}
  PROVE  \A n \in Node : status[n] \notin Terminal \union {"none"} => n \in Planned
<1>1. flight = {} /\ hand = 0 /\ pc \notin Ending /\ sent \subseteq relevant
  BY DEF OpenNodes, Places, Frames, OnGraph, InWave, Ending
<1>2. 0 \notin Node
  BY RunConfig
<1>3. \A n \in Node : status[n] # "started" /\ (status[n] = "planned" => n \in relevant)
  BY <1>1, <1>2 DEF OpenNodes, Belong
<1>. QED BY <1>3 DEF Typed, DagTypeOK, Planned

(* Steps that leave the nodes and the sets they are in as they are.          *)
LEMMA OpenQuiet ==
  ASSUME RunInv, Typed',
         \/ Worker \/ Top \/ ReceiveNothing \/ ReceiveDone \/ ReceiveGraph \/ Respond
         \/ Reject \/ AllPlanned \/ Loop \/ Prepared \/ Finish
         \/ (\E n \in Node : BodyEnd(n)) \/ Expire \/ InterruptWait \/ Interrupt \/ Crash
         \/ UNCHANGED vars
  PROVE  OpenNodes'
<1> USE DEF RunInv, Typed, DagTypeOK, Between, InHand, OnGraph, InWave, Over, Ending
<1>1. UNCHANGED dag
  BY SilentSteps DEF vars
<1>2. Settled' = Settled /\ \A n \in Node : Ready(n)' = Ready(n) /\ status'[n] = status[n]
  BY <1>1 DEF Settled, Known, Ready, dag
<1>3. Settled => \A n \in Node : status[n] \notin {"planned", "started"}
  BY DEF Settled, Known, Terminal, Failures
<1>4. CASE Worker
  <2>1. pc \notin InHand \union Over /\ UNCHANGED <<pc, pool>> /\ UNCHANGED scan
    BY <1>4, WorkerStep DEF Worker, CreateNode, After, Execute, TakeReply, EndProgram, WorkerDies, pass
  <2>2. Settled
    BY <2>1 DEF OpenNodes, Belong
  <2>3. Belong'
    BY <1>2, <1>3, <2>1, <2>2 DEF OpenNodes, Belong, pool
  <2>4. Places'
    BY <2>1 DEF OpenNodes, Places, pool, Done
  <2>. QED BY <2>3, <2>4 DEF OpenNodes
<1>5. ASSUME NEW next \in Ending \union {"finish"}, NEW how, Unwind(next, how), next \in Ending \/ Settled
      PROVE  OpenNodes'
  <2>1. Belong'
    BY <1>2, <1>3, <1>5 DEF Unwind, Belong
  <2>2. Places'
    BY <1>5 DEF Unwind, Places
  <2>. QED BY <2>1, <2>2 DEF OpenNodes
<1>6. ASSUME UNCHANGED <<sent, scan, queue, staged, rest, hand, flight, settled>>,
             pc' \in Between \union {"plan", "reject"}, pc \in Between \union {"respond", "reject"}
      PROVE  OpenNodes'
  <2>1. Belong'
    BY <1>2, <1>3, <1>6 DEF OpenNodes, Belong
  <2>2. Places'
    BY <1>6 DEF OpenNodes, Places, Done
  <2>. QED BY <2>1, <2>2 DEF OpenNodes
<1>7. CASE Top \/ ReceiveNothing \/ ReceiveDone \/ ReceiveGraph \/ Respond \/ Reject
  BY <1>5, <1>6, <1>7 DEF Top, ReceiveNothing, ReceiveDone, ReceiveGraph, Respond, Reject, Answer, Go,
     Leave, pass, pipe, pool, OpenNodes, Belong
<1>8. CASE Interrupt \/ Crash
  BY <1>5, <1>8 DEF Interrupt, Crash, Interrupted
<1>9. CASE AllPlanned
  <2>1. Belong'
    BY <1>2, <1>9 DEF AllPlanned, Go, OpenNodes, Belong, pipe, pool
  <2>2. Places'
    BY <1>9 DEF AllPlanned, Go, OpenNodes, Places, pool, Done
  <2>. QED BY <2>1, <2>2 DEF OpenNodes
<1>10. CASE Loop
  <2>1. Planned = {} => Settled
    BY <1>10, OpenIsPlanned DEF Loop, Settled, Known
  <2>2. Belong'
    BY <1>2, <1>10, <2>1 DEF Loop, Go, OpenNodes, Belong, pipe, pool
  <2>3. Places'
    BY <1>10 DEF Loop, Go, OpenNodes, Places, pool, pass, Done
  <2>. QED BY <2>2, <2>3 DEF OpenNodes
<1>11. CASE Prepared \/ Finish
  <2>1. Belong'
    BY <1>2, <1>11 DEF Prepared, Finish, Go, OpenNodes, Belong, pipe, pool
  <2>2. Places'
    BY <1>11 DEF Prepared, Finish, Go, OpenNodes, Places, pool, pass, Done
  <2>. QED BY <2>1, <2>2 DEF OpenNodes
<1>12. CASE (\E n \in Node : BodyEnd(n)) \/ Expire \/ InterruptWait \/ UNCHANGED vars
  <2>1. /\ UNCHANGED <<sent, scan, queue, staged, rest, hand, flight, settled>>
        /\ (pc' = pc \/ (pc = "await" /\ pc' = "drain"))
        /\ Done \subseteq Done'
    BY <1>12 DEF BodyEnd, BodyEndsAs, Expire, InterruptWait, Go, vars, pipe, pool, pass, Done, Results
  <2>2. Belong'
    BY <1>2, <2>1 DEF OpenNodes, Belong
  <2>3. Places'
    BY <2>1 DEF OpenNodes, Places
  <2>. QED BY <2>2, <2>3 DEF OpenNodes
<1>. QED BY <1>4, <1>7, <1>8, <1>9, <1>10, <1>11, <1>12

(* Steps that do something to a node.                                        *)
LEMMA OpenMoves ==
  ASSUME RunInv, Typed', [RunNext]_vars,
         \/ (\E n \in Node : Plan(n)) \/ Scan \/ Scanned \/ Prepare \/ Wave \/ Abort
         \/ InterruptApproval
  PROVE  OpenNodes'
<1> USE DEF RunInv, Typed, DagTypeOK, Between, InHand, OnGraph, InWave, Over, Ending
<1>1. ASSUME NEW n \in Node, Plan(n) PROVE OpenNodes'
  <2>1. /\ queue = {} /\ staged = {} /\ rest = {} /\ flight = {} /\ hand = 0 /\ pc = "plan"
        /\ UNCHANGED <<pipe, pass, pool, pc>> /\ n \in sent /\ status' = [status EXCEPT ![n] = "planned"]
    BY <1>1 DEF Plan, PlanNode, OpenNodes, Places
  <2>2. Belong'
    BY <2>1 DEF OpenNodes, Belong, pipe, pool
  <2>3. Places'
    BY <2>1 DEF OpenNodes, Places, pass, pool, Done
  <2>. QED BY <2>2, <2>3 DEF OpenNodes
<1>2. CASE Scan
  <2>1. /\ queue = {} /\ staged = {} /\ rest = {} /\ flight = {} /\ hand = 0 /\ pc = "scan" /\ settled = {}
        /\ UNCHANGED <<pipe, pool, pc>>
    BY <1>2 DEF Scan, OpenNodes, Places
  <2>2. \A m \in Node : status'[m] = status[m] \/ status'[m] = "upstream_failed"
    BY <1>2 DEF Scan, BlockNode, dag
  <2>3. Belong'
    BY <2>1, <2>2 DEF OpenNodes, Belong, pipe, pool
  <2>4. Places'
    BY <2>1 DEF OpenNodes, Places, pool, Done
  <2>. QED BY <2>3, <2>4 DEF OpenNodes
<1>3. CASE Scanned
  <2>1. /\ queue = {} /\ staged = {} /\ rest = {} /\ flight = {} /\ hand = 0 /\ pc = "scan" /\ settled = {}
        /\ scan = {} /\ UNCHANGED <<pipe, scan, staged, rest, hand, flight, settled, body>>
    BY <1>3 DEF Scanned, OpenNodes, Places
  <2>2. \A m \in Node : m \in Planned => status'[m] = status[m] \/ status'[m] = "not_executed"
    BY <1>3 DEF Scanned, Drop, Lost, Planned, dag
  <2>3. \A m \in Node : m \notin Planned => status'[m] = status[m]
    BY <1>3 DEF Scanned, Drop, dag
  <2>4. pc' = "respond" => Settled'
    BY <1>3, <2>3, OpenIsPlanned DEF Scanned, Go, Drop, Lost, Planned, Settled, Known, Terminal, Failures
  <2>5. pc' \in {"respond", "prepare", "loop"}
    BY <1>3 DEF Scanned, Go
  <2>6. \A m \in queue' : Ready(m)'
    BY <1>3, <2>1 DEF Scanned, ReadyNodes, Ready, dag
  <2>7. Belong'
    BY <2>1, <2>2, <2>3, <2>4, <2>5, <2>6 DEF OpenNodes, Belong, pipe
  <2>8. Places'
    BY <1>3, <2>1, <2>5 DEF Scanned, Go, OpenNodes, Places, Done
  <2>. QED BY <2>7, <2>8 DEF OpenNodes
<1>4. CASE Prepare
  <2> DEFINE n == Min(queue)
  <2>1. n \in queue /\ n \in Node /\ n \notin staged /\ status[n] = "planned"
    BY <1>4, MinIsIn DEF Prepare, OpenNodes, Belong, Places, Ready
  <2> HIDE DEF n
  <2>2. /\ rest = {} /\ flight = {} /\ hand = 0 /\ settled = {} /\ scan = {} /\ pc = "prepare"
        /\ queue' = queue \ {n} /\ UNCHANGED <<pipe, pc, scan, rest, hand, flight, settled, body>>
    BY <1>4 DEF Prepare, OpenNodes, Places, pass, n
  <2>3. /\ \A m \in Node \ {n} : status'[m] = status[m]
        /\ \/ status'[n] \in {"refused", "not_executed"} /\ staged' = staged
           \/ status'[n] = "planned" /\ staged' = staged \union {n}
    BY <1>4, <2>1 DEF Prepare, Put, Drop, Lost, dag, n
  <2>4. [Move]_dag
    BY <1>4, StepMoves DEF Prepare, Plan
  <2>5. \A m \in queue' \union staged' : Ready(m)'
    <3>1. \A m \in queue' \union staged' : m \in Node /\ Ready(m) /\ status'[m] = "planned"
      BY <2>1, <2>2, <2>3 DEF OpenNodes, Belong, Ready
    <3>. QED BY <2>4, <3>1, ReadyStays
  <2>6. Belong'
    BY <2>1, <2>2, <2>3, <2>5 DEF OpenNodes, Belong, pipe
  <2>7. Places'
    BY <2>1, <2>2, <2>3 DEF OpenNodes, Places, Done
  <2>. QED BY <2>6, <2>7 DEF OpenNodes
<1>5. CASE Wave
  <2>1. /\ queue = {} /\ rest = {} /\ flight = {} /\ hand = 0 /\ settled = {} /\ scan = {} /\ pc = "wave"
        /\ NextWave \subseteq staged /\ UNCHANGED <<pipe, scan, queue, hand, flight, settled, body>>
    BY <1>5 DEF Wave, OpenNodes, Places, pass, NextWave
  <2>2. /\ \A m \in Node : status'[m] = status[m] \/ status'[m] = "not_executed"
        /\ \/ staged' = {} /\ rest' = {} /\ pc' \in {"loop", "wave"}
           \/ UNCHANGED dag /\ pc' = "fill" /\ rest' = NextWave /\ staged' = staged \ NextWave
    BY <1>5, <2>1 DEF Wave, Go, Drop, Lost, dag, OpenNodes, Belong, Ready
  <2>3. \A m \in staged' \union rest' : Ready(m)'
    <3>1. CASE UNCHANGED dag
      <4>1. staged' \union rest' \subseteq staged
        BY <2>1, <2>2
      <4>2. \A m \in Node : Ready(m)' = Ready(m)
        BY <3>1 DEF dag, Ready
      <4>. QED BY <4>1, <4>2 DEF OpenNodes, Belong
    <3>. QED BY <2>2, <3>1
  <2>4. Belong'
    BY <2>1, <2>2, <2>3 DEF OpenNodes, Belong, pipe
  <2>5. Places'
    BY <2>1, <2>2 DEF OpenNodes, Places, Done
  <2>. QED BY <2>4, <2>5 DEF OpenNodes
<1>6. CASE Abort
  <2>1. /\ queue = {} /\ staged = {} /\ rest = {} /\ flight = {} /\ hand = 0 /\ settled = {} /\ scan = {}
        /\ UNCHANGED <<pass, pool>> /\ pc' = "closed"
    BY <1>6 DEF Abort, Go, OpenNodes, Places
  <2>2. \A m \in Node : status'[m] \notin {"planned", "started"}
    BY <1>6 DEF Abort, Drop, Lost, WithStatus
  <2>3. Settled'
    BY <2>2 DEF Settled, Known
  <2>4. Belong'
    BY <2>1, <2>2, <2>3 DEF Belong, pool
  <2>5. Places'
    BY <2>1 DEF OpenNodes, Places, pool, pass, Done
  <2>. QED BY <2>4, <2>5 DEF OpenNodes
<1>7. CASE InterruptApproval
  <2>1. Unwind("abort", "interrupted")
    BY <1>7 DEF InterruptApproval, Interrupted
  <2>2. Belong' /\ Places'
    BY <2>1 DEF Unwind, Belong, Places
  <2>. QED BY <2>2 DEF OpenNodes
<1>. QED BY <1>1, <1>2, <1>3, <1>4, <1>5, <1>6, <1>7

(* A wave starts a node of rest, holds it, hands it to its thread and commits *)
(* what the thread returned.                                                 *)
LEMMA OpenWave ==
  ASSUME RunInv, Typed', [RunNext]_vars,
         Fill \/ Launch \/ Submit \/ Await \/ (\E n \in Node : Commit(n)) \/ Drain
  PROVE  OpenNodes'
<1> USE DEF RunInv, Typed, DagTypeOK, Between, InHand, OnGraph, InWave, Over, Ending
<1>1. /\ pc \in InWave /\ queue = {} /\ scan = {} /\ ~\E n \in Node : Plan(n)
      /\ [Move]_dag /\ 0 \notin Node
  <2>1. pc \in InWave
    BY DEF Fill, Launch, Submit, Await, Commit, Drain
  <2>2. ~\E n \in Node : Plan(n)
    BY <2>1 DEF Plan
  <2>3. [Move]_dag /\ 0 \notin Node
    BY <2>2, StepMoves, RunConfig
  <2>. QED BY <2>1, <2>2, <2>3 DEF OpenNodes, Places
<1>2. ASSUME NEW n \in Node, Ready(n), status'[n] = status[n]
      PROVE  Ready(n)'
  BY <1>1, <1>2, ReadyStays DEF Ready
<1>3. CASE Fill
  <2>1. CASE Room /\ Put(hand', "started") /\ hand' = Min(rest) /\ rest' = rest \ {hand'} /\ pc' = "launch"
    <3> DEFINE n == Min(rest)
    <3>1. n \in rest /\ n \in Node
      BY <2>1, MinIsIn DEF Room
    <3> HIDE DEF n
    <3>2. /\ hand' = n /\ rest' = rest \ {n} /\ status[n] = "planned" /\ status'[n] = "started"
          /\ n \notin staged /\ n \notin flight /\ \A m \in Node \ {n} : status'[m] = status[m]
      BY <2>1, <3>1 DEF n, Put, OpenNodes, Belong, Places, Ready
    <3>3. hand = 0 /\ settled = {} /\ UNCHANGED <<pipe, scan, queue, staged, flight, settled, body>> /\ pc' = "launch"
      BY <1>3, <2>1 DEF Fill, Go, OpenNodes, Places, pass
    <3>4. \A m \in staged \union rest' : Ready(m)'
      BY <1>2, <3>1, <3>2 DEF OpenNodes, Belong
    <3>5. Belong'
      BY <1>1, <3>1, <3>2, <3>3, <3>4 DEF OpenNodes, Belong, pipe
    <3>6. Places'
      BY <1>1, <3>1, <3>2, <3>3 DEF OpenNodes, Places, Done
    <3>. QED BY <3>5, <3>6 DEF OpenNodes
  <2>2. CASE UNCHANGED <<dag, rest, hand>> /\ (pc' = "await" \/ (pc' = "wave" /\ rest = {} /\ flight = {}))
    <3>1. /\ pc = "fill" /\ (pc' = "await" \/ (pc' = "wave" /\ rest = {} /\ flight = {}))
          /\ UNCHANGED <<pipe, scan, queue, staged, rest, hand, flight, settled, body>>
      BY <1>3, <2>2 DEF Fill, pass
    <3>2. \A m \in Node : Ready(m)' = Ready(m) /\ status'[m] = status[m]
      BY <2>2 DEF dag, Ready
    <3>3. Belong'
      BY <3>1, <3>2 DEF OpenNodes, Belong, pipe
    <3>4. Places'
      BY <3>1 DEF OpenNodes, Places, Done
    <3>. QED BY <3>3, <3>4 DEF OpenNodes
  <2>. QED BY <1>3, <2>1, <2>2 DEF Fill, Go
<1>4. CASE Launch \/ Submit
  <2>1. /\ hand \in Node /\ hand \notin flight /\ status[hand] = "started" /\ settled = {}
        /\ UNCHANGED <<pipe, scan, queue, staged, rest, settled>>
    BY <1>4 DEF Launch, Submit, OpenNodes, Belong, Places, pass
  <2>2. \/ /\ hand' = 0 /\ pc' = "await" /\ status' = [status EXCEPT ![hand] = "cancelled"]
           /\ UNCHANGED <<body, flight>>
        \/ hand' = hand /\ pc' = "submit" /\ UNCHANGED <<dag, body, flight>>
        \/ hand' = 0 /\ pc' = "fill" /\ UNCHANGED dag /\ flight' = flight \union {hand}
    BY <1>4 DEF Launch, Submit, Put, Go
  <2>3. \A m \in staged \union rest : Ready(m)'
    <3>1. \A m \in staged \union rest : m \in Node /\ Ready(m) /\ m # hand
      BY <2>1 DEF OpenNodes, Belong, Ready
    <3>2. \A m \in Node \ {hand} : status'[m] = status[m]
      BY <2>1, <2>2 DEF dag
    <3>. QED BY <1>2, <3>1, <3>2
  <2>4. Belong'
    BY <1>1, <2>1, <2>2, <2>3 DEF OpenNodes, Belong, pipe, dag
  <2>5. Places'
    BY <1>1, <2>1, <2>2 DEF OpenNodes, Places
  <2>. QED BY <2>4, <2>5 DEF OpenNodes
<1>5. CASE Await
  <2>1. /\ hand = 0 /\ pc = "await" /\ settled = {} /\ UNCHANGED <<pipe, scan, queue, staged, hand, flight, body>>
        /\ \/ flight = {} /\ rest' = {} /\ pc' = "wave" /\ settled' = {} /\ Drop(rest)
           \/ UNCHANGED <<dag, rest>> /\ settled' = Done /\ pc' = "commit"
           \/ UNCHANGED <<dag, rest, settled>> /\ pc' = "fill"
    BY <1>5 DEF Await, Go, pass, OpenNodes, Places
  <2>2. /\ \A m \in Node : status'[m] = status[m] \/ (status'[m] = "not_executed" /\ status[m] = "planned")
        /\ \A m \in staged : status'[m] = status[m]
    BY <2>1 DEF Drop, Lost, dag, OpenNodes, Belong, Places, Ready
  <2>3. \A m \in staged : Ready(m)'
    BY <1>2, <2>2 DEF OpenNodes, Belong
  <2>4. \A m \in rest' : Ready(m)'
    BY <2>1 DEF OpenNodes, Belong, dag, Ready
  <2>5. Belong'
    BY <1>1, <2>1, <2>2, <2>3, <2>4 DEF OpenNodes, Belong, pipe
  <2>6. Places'
    BY <1>1, <2>1 DEF OpenNodes, Places, Done
  <2>. QED BY <2>5, <2>6 DEF OpenNodes
<1>6. ASSUME NEW n \in flight, Put(n, body[n]), body[n] \in Results, flight' = flight \ {n},
             settled' = settled \ {n}, pc \in {"commit", "drain"}, pc' \in InWave \ {"launch", "submit"},
             settled' # {} => pc' = "commit",
             UNCHANGED <<pipe, scan, queue, staged, rest, hand, body>>
      PROVE  OpenNodes'
  <2>1. /\ hand = 0 /\ status[n] = "started" /\ n \in Node /\ status'[n] \in Results
        /\ \A m \in Node \ {n} : status'[m] = status[m]
    BY <1>6 DEF OpenNodes, Belong, Places, Put
  <2>2. \A m \in staged \union rest : Ready(m)'
    <3>1. \A m \in staged \union rest : m \in Node /\ Ready(m) /\ m # n
      BY <2>1 DEF OpenNodes, Belong, Ready
    <3>. QED BY <1>2, <2>1, <3>1
  <2>3. Belong'
    BY <1>1, <1>6, <2>1, <2>2 DEF OpenNodes, Belong, pipe, Results
  <2>4. Places'
    BY <1>1, <1>6, <2>1 DEF OpenNodes, Places, Done
  <2>. QED BY <2>3, <2>4 DEF OpenNodes
<1>7. ASSUME NEW n \in Node, Commit(n) PROVE OpenNodes'
  BY <1>6, <1>7 DEF Commit, Go, OpenNodes, Places, Done, pass
<1>8. CASE Drain
  <2>1. CASE Interrupted("abort")
    BY <2>1 DEF Interrupted, Unwind, OpenNodes, Belong, Places
  <2>2. settled = {} /\ \A n \in flight : body[n] \in Results
    BY <1>8 DEF Drain, OpenNodes, Places, Bodies, Running
  <2>. QED BY <1>6, <1>8, <2>1, <2>2 DEF Drain, pass
<1>. QED BY <1>3, <1>4, <1>5, <1>7, <1>8

(* So every open node stays accounted for.                                   *)
LEMMA OpenStep ==
  ASSUME RunInv, Typed', [RunNext]_vars
  PROVE  OpenNodes'
  BY OpenQuiet, OpenMoves, OpenWave DEF RunNext, Host

-----------------------------------------------------------------------------
(* The thread of each node.                                                  *)

(* What a step does to a started node: what its thread did is recorded, or   *)
(* it was never dispatched and is cancelled, or its outcome is unknown.      *)
LEMMA EndOfStarted ==
  ASSUME RunInv, [RunNext]_vars, NEW n \in Node, status[n] = "started", status'[n] # "started"
  PROVE  \/ n \in flight /\ body[n] \in Results /\ status'[n] = body[n]
         \/ n = hand /\ status'[n] = "cancelled"
         \/ status'[n] = "outcome_unknown"
<1> USE DEF RunInv, Typed, DagTypeOK
<1>1. CASE Drain
  BY <1>1 DEF Drain, dag, Put, Bodies, Running
<1>2. ASSUME NEW m \in Node, Commit(m) PROVE n \in flight /\ body[n] \in Results /\ status'[n] = body[n]
  BY <1>2 DEF Commit, Put, OpenNodes, Places, Done
<1>3. CASE Launch
  BY <1>3 DEF Launch, Put, dag
<1>4. CASE Abort
  BY <1>4 DEF Abort, Drop, Lost
<1>5. CASE (\E m \in Node : Plan(m)) \/ Scan
  BY <1>5 DEF Plan, PlanNode, Scan, BlockNode, dag
<1>6. CASE Scanned
  BY <1>6 DEF Scanned, Drop, Lost, dag
<1>7. CASE Prepare
  <2>1. status[Min(queue)] = "planned"
    BY <1>7, MinIsIn DEF Prepare, OpenNodes, Belong, Ready
  <2>. QED BY <1>7, <2>1 DEF Prepare, Drop, Lost, Put, dag
<1>8. CASE Wave \/ Await
  BY <1>8 DEF Wave, Await, Drop, Lost, dag
<1>9. CASE Fill
  BY <1>9 DEF Fill, Put, dag
<1>10. CASE InterruptApproval
  BY <1>10, MinIsIn DEF InterruptApproval, Put, OpenNodes, Belong, Ready
<1>11. CASE UNCHANGED dag
  BY <1>11 DEF dag
<1>. QED BY <1>1, <1>2, <1>3, <1>4, <1>5, <1>6, <1>7, <1>8, <1>9, <1>10, <1>11, SilentSteps
         DEF RunNext, Host, vars

(* Nothing else turns into the result of a thread.                           *)
LEMMA EndOfWaiting ==
  ASSUME RunInv, [RunNext]_vars, NEW n \in Node, status[n] \in {"none", "planned"}
  PROVE  status'[n] \notin Results \union {"outcome_unknown"}
<1> USE DEF RunInv, Typed, DagTypeOK, Results
<1>1. ASSUME NEW m \in Node, Plan(m) PROVE status'[n] \notin Results \union {"outcome_unknown"}
  BY <1>1 DEF Plan, PlanNode
<1>2. CASE [Move]_dag
  BY <1>2 DEF Move, StartNode, RefuseNode, BlockNode, FinishNode, DropNodes, Drop, Lost, Put, Ready, dag
<1>. QED BY <1>1, <1>2, StepMoves

(* What a step does to the pool. *)
LEMMA PoolMoves ==
  ASSUME RunInv, [RunNext]_vars
  PROVE  \/ Submit \/ (Fill /\ Put(hand', "started") /\ hand' = Min(rest) /\ Room)
         \/ (\E n \in Node : BodyEnd(n)) \/ Crash
         \/ /\ UNCHANGED body /\ hand' \in {hand, 0}
            /\ \/ flight' = flight
               \/ \E n \in flight : flight' = flight \ {n} /\ body[n] # "running"
               \/ pc' \in Ending /\ flight' = {}
<1> USE DEF RunInv
<1>1. CASE Worker \/ ReceiveGraph \/ (\E n \in Node : Plan(n)) \/ AllPlanned \/ Loop \/ Scan \/ Scanned \/ Prepare
           \/ Prepared \/ Wave \/ Fill \/ Launch \/ Await \/ Finish \/ Abort \/ Expire \/ InterruptWait \/ UNCHANGED vars
  BY <1>1 DEF Worker, CreateNode, After, Execute, TakeReply, EndProgram, WorkerDies, ReceiveGraph, Plan,
      AllPlanned, Loop, Scan, Scanned, Prepare, Prepared, Wave, Fill, Launch, Await, Finish, Abort, Expire, InterruptWait,
      pool, vars
<1>2. CASE Top \/ ReceiveNothing \/ ReceiveDone \/ Respond \/ Reject
  <2>1. flight = {} /\ hand = 0
    BY <1>2 DEF Top, ReceiveNothing, ReceiveDone, Respond, Reject, Answer, OpenNodes, Places, InWave
  <2>. QED BY <1>2, <2>1 DEF Top, ReceiveNothing, ReceiveDone, Respond, Reject, Answer, Leave, Unwind, pool
<1>3. CASE InterruptApproval \/ Interrupt
  BY <1>3 DEF InterruptApproval, Interrupt, Interrupted, Unwind, Ending
<1>4. ASSUME NEW n \in Node, Commit(n)
      PROVE  UNCHANGED <<body, hand>> /\ n \in flight /\ flight' = flight \ {n} /\ body[n] # "running"
  BY <1>4 DEF Commit, OpenNodes, Places, Done, Results
<1>5. CASE Drain
  BY <1>5 DEF Drain, Interrupted, Unwind, Ending, Running, Typed
<1>. QED BY <1>1, <1>2, <1>3, <1>4, <1>5 DEF RunNext, Host

(* Once the run is aborted or closed, it stays so.                           *)
LEMMA EndingStays ==
  ASSUME [RunNext]_vars, RunInv, pc \in Ending \union {"closed"}
  PROVE  pc' \in Ending \union {"closed"}
<1>1. ~Worker
  BY WorkerStep DEF RunInv, Over
<1>. QED BY <1>1 DEF RunNext, Host, Top, ReceiveNothing, ReceiveDone, ReceiveGraph, Respond, Reject, Answer,
         Plan, AllPlanned, Loop, Scan, Scanned, Prepare, Prepared, Wave, Fill, Launch, Submit, Await, Commit, Drain,
         Finish, Abort, Go, Expire, InterruptWait, InterruptApproval, Interrupt, Interrupted, Unwind, Crash,
         BodyEnd, BodyEndsAs, vars, Ending

(* A body and the record of its node go together.                            *)
LEMMA BodiesStep ==
  ASSUME RunInv, Typed', OpenNodes', [RunNext]_vars
  PROVE  Bodies'
<1> USE DEF RunInv, Typed, DagTypeOK, Results
<1> DEFINE Fits(s, b) == /\ s \in Results => b = s
                         /\ s \notin Results \union {"started", "outcome_unknown"} => b = "idle"
<1>1. ASSUME NEW n \in Node PROVE Fits(status'[n], body[n])
  <2>1. Fits(status[n], body[n])
    BY DEF Bodies
  <2>2. status[n] \in Terminal => status'[n] = status[n]
    BY StepRefines, EndsAreFinal
  <2>3. CASE status[n] \in {"none", "planned"}
    BY <2>1, <2>3, EndOfWaiting
  <2>4. CASE status[n] = "started" /\ status'[n] # "started"
    <3>1. n = hand => body[n] = "idle"
      BY RunConfig DEF Bodies
    <3>. QED BY <2>4, <3>1, EndOfStarted
  <2>. QED BY <2>1, <2>2, <2>3, <2>4 DEF Terminal
<1>2. \A n \in Node : Fits(status'[n], body'[n])
  <2>1. CASE UNCHANGED body
    BY <1>1, <2>1
  <2>2. CASE Submit
    BY <1>1, <2>2 DEF Submit, OpenNodes, Belong, Places, dag
  <2>3. CASE (\E n \in Node : BodyEnd(n)) \/ Crash
    BY <1>1, <2>3 DEF BodyEnd, BodyEndsAs, Crash
  <2>4. CASE Fill
    BY <1>1, <2>4 DEF Fill
  <2>. QED BY PoolMoves, <2>1, <2>2, <2>3, <2>4
<1>3. \A n \in flight' : body'[n] \in Results \union {"running"}
  <2>1. CASE UNCHANGED body /\ flight' \subseteq flight
    BY <2>1 DEF Bodies
  <2>2. CASE Submit
    BY <2>2 DEF Submit, Bodies, OpenNodes, Places
  <2>3. CASE (\E n \in Node : BodyEnd(n)) \/ Crash
    BY <2>3 DEF BodyEnd, BodyEndsAs, Crash, Unwind, Bodies
  <2>4. CASE Fill
    BY <2>4 DEF Fill, Bodies
  <2>. QED BY PoolMoves, <2>1, <2>2, <2>3, <2>4
<1>4. hand' # 0 => body'[hand'] = "idle"
  <2>1. CASE UNCHANGED body /\ hand' \in {hand, 0}
    BY <2>1 DEF Bodies
  <2>2. CASE Submit \/ Crash
    BY <2>2 DEF Submit, Crash, Unwind
  <2>3. CASE \E n \in Node : BodyEnd(n)
    BY <2>3 DEF BodyEnd, BodyEndsAs, Bodies
  <2>4. CASE Fill /\ hand' = Min(rest) /\ Room
    <3>1. Min(rest) \in Node /\ status[Min(rest)] = "planned"
      BY <2>4, MinIsIn DEF Room, OpenNodes, Belong, Ready
    <3>. QED BY <2>4, <3>1 DEF Fill, Bodies
  <2>. QED BY PoolMoves, <2>1, <2>2, <2>3, <2>4
<1>5. Running' \subseteq flight' \/ pc' \in Ending \union {"closed"}
  <2>1. CASE UNCHANGED body /\ pc' \notin Ending
    <3>1. Running' = Running
      BY <2>1 DEF Running
    <3>2. Running \subseteq flight => Running \subseteq flight'
      BY <2>1, PoolMoves DEF Submit, Fill, BodyEnd, BodyEndsAs, Crash, Running, Unwind, Ending
    <3>. QED BY <3>1, <3>2, EndingStays DEF Bodies
  <2>2. CASE Submit
    BY <2>2 DEF Submit, Running, Bodies, Ending
  <2>3. CASE \E n \in Node : BodyEnd(n)
    BY <2>3 DEF BodyEnd, BodyEndsAs, Running, Bodies
  <2>4. CASE Crash
    BY <2>4 DEF Crash, Unwind, Ending
  <2>5. CASE Fill
    BY <2>5 DEF Fill, Go, Running, Bodies, Ending
  <2>. QED BY PoolMoves, <2>1, <2>2, <2>3, <2>4, <2>5
<1>. QED BY <1>2, <1>3, <1>4, <1>5 DEF Bodies

-----------------------------------------------------------------------------
(* A pass without progress, the last dispatch, the bound on what runs, and   *)
(* the verdict.                                                              *)

LEMMA PassStep ==
  ASSUME RunInv, Typed', [RunNext]_vars
  PROVE  PassIsTrue'
<1> USE DEF RunInv, Typed, DagTypeOK
<1>1. SUFFICES ASSUME pc' = "scan", ~progress'
               PROVE  Planned' # {} /\ \A n \in Planned' \ scan' : Blockers(n)' = {}
  BY DEF PassIsTrue
<1>2. CASE Loop
  BY <1>1, <1>2 DEF Loop, Go, Planned, dag
<1>3. CASE Scan
  <2>1. UNCHANGED <<dag, relevant, progress>> /\ pc = "scan" /\ scan' = scan \ {Min(scan)} /\ Blockers(Min(scan)) = {}
    BY <1>1, <1>3 DEF Scan
  <2>. QED BY <1>1, <2>1 DEF PassIsTrue, Planned, Blockers, dag
<1>4. CASE UNCHANGED <<dag, pass, pc>>
  BY <1>1, <1>4 DEF PassIsTrue, Planned, Blockers, dag, pass
<1>. QED BY <1>1, <1>2, <1>3, <1>4, WorkerStep DEF RunNext, Host, Worker, CreateNode, After, Execute, TakeReply, EndProgram,
         WorkerDies, Top, ReceiveNothing, ReceiveDone, ReceiveGraph, Respond, Reject, Answer, Leave, Unwind,
         Plan, AllPlanned, Scanned, Prepare, Prepared, Wave, Fill, Launch, Submit, Await, Commit, Drain,
         Finish, Abort, Go, Expire, InterruptWait, InterruptApproval, Interrupt, Interrupted, Crash,
         BodyEnd, BodyEndsAs, vars, InHand, OnGraph

(* Only Launch leads to a dispatch, and it looks at the cancellation; nothing *)
(* takes a cancellation back.                                                *)
LEMMA DispatchStep ==
  ASSUME RunInv, Typed', [RunNext]_vars
  PROVE  LastDispatch'
<1> USE DEF RunInv
<1>1. CASE Submit
  BY <1>1 DEF Submit, clock, Typed, LastDispatch, Go
<1>2. ASSUME ~Submit
      PROVE  belated' = belated /\ (cancel => cancel') /\ (pc' = "submit" => pc = "submit" \/ ~cancel)
  <2>1. CASE Worker
    BY <2>1 DEF Worker, CreateNode, After, Execute, TakeReply, EndProgram, WorkerDies, clock, pool
  <2>2. CASE Top \/ ReceiveNothing \/ ReceiveDone \/ ReceiveGraph \/ Respond \/ Reject
    BY <2>2 DEF Top, ReceiveNothing, ReceiveDone, ReceiveGraph, Respond, Reject, Answer, Leave, Unwind, Go, clock, pool
  <2>3. CASE (\E n \in Node : Plan(n)) \/ AllPlanned \/ Loop \/ Scan \/ Scanned \/ Prepare \/ Prepared \/ Wave
    BY <2>3 DEF Plan, AllPlanned, Loop, Scan, Scanned, Prepare, Prepared, Wave, Go, clock, pool
  <2>4. CASE Fill \/ Launch \/ Await \/ (\E n \in Node : Commit(n)) \/ Drain \/ Finish \/ Abort
    BY <2>4 DEF Fill, Launch, Await, Commit, Drain, Finish, Abort, Interrupted, Unwind, Go, clock, pool
  <2>5. CASE (\E n \in Node : BodyEnd(n)) \/ Expire \/ InterruptWait \/ UNCHANGED vars
    BY <2>5 DEF BodyEnd, BodyEndsAs, Expire, InterruptWait, Go, clock, pool, vars
  <2>6. CASE InterruptApproval \/ Interrupt \/ Crash
    BY <2>6 DEF InterruptApproval, Interrupt, Crash, Interrupted, Unwind, clock
  <2>. QED BY <1>2, <2>1, <2>2, <2>3, <2>4, <2>5, <2>6 DEF RunNext, Host
<1>. QED BY <1>1, <1>2 DEF LastDispatch, Typed

(* The verdict is given once, at the end.                                    *)
LEMMA VerdictStep ==
  ASSUME RunInv, Typed', [RunNext]_vars
  PROVE  Verdicts'
<1> USE DEF RunInv
<1>1. CASE Finish
  BY <1>1 DEF Finish, Go, RunVerdict, Verdicts, dag, Known
<1>2. CASE Abort
  BY <1>2 DEF Abort, Go, Verdicts, Typed
<1>3. CASE pc = "closed"
  <2>1. ~Worker
    BY <1>3, WorkerStep DEF Over
  <2>2. UNCHANGED <<dag, run, pc>>
    BY <1>3, <2>1 DEF RunNext, Host, Top, ReceiveNothing, ReceiveDone, ReceiveGraph, Respond, Reject, Answer,
         Plan, AllPlanned, Loop, Scan, Scanned, Prepare, Prepared, Wave, Fill, Launch, Submit, Await, Commit, Drain,
         Finish, Abort, Expire, InterruptWait, InterruptApproval, Interrupt, Crash, BodyEnd, BodyEndsAs, vars, result
  <2>. QED BY <2>2 DEF Verdicts, dag, Known
<1>4. ASSUME pc # "closed", ~Finish, ~Abort PROVE run' = run
  BY <1>4 DEF RunNext, Host, Worker, CreateNode, After, Execute, TakeReply, EndProgram,
         WorkerDies, Top, ReceiveNothing, ReceiveDone, ReceiveGraph, Respond, Reject, Answer, Leave, Unwind,
         Plan, AllPlanned, Loop, Scan, Scanned, Prepare, Prepared, Wave, Fill, Launch, Submit, Await, Commit, Drain,
         Expire, InterruptWait, InterruptApproval, Interrupt, Interrupted, Crash,
         BodyEnd, BodyEndsAs, vars, result
<1>. QED BY <1>1, <1>2, <1>3, <1>4 DEF Verdicts

(* The files of a wave: of two nodes that change one, the later waits.       *)
LEMMA WaveIsApart ==
  ASSUME Typed
  PROVE  Apart(NextWave)
<1> SUFFICES ASSUME NEW m \in NextWave, NEW n \in NextWave, m # n, Target[m] = Target[n]
             PROVE  Target[n] = NoFile
  BY DEF Apart
<1>1. m \in staged /\ n \in staged /\ (m < n \/ n < m)
  BY RunConfig DEF NextWave, Typed
<1>. QED BY <1>1 DEF NextWave

(* Nodes come into hand from the wave, which is chosen while nothing runs.   *)
LEMMA BusyMoves ==
  ASSUME RunInv, Typed', [RunNext]_vars
  PROVE  \/ Busy' \subseteq Busy /\ rest' \subseteq rest
         \/ Busy' = {} /\ rest' = NextWave
         \/ /\ Fill /\ Room /\ hand = 0 /\ rest' \subseteq rest /\ hand' \in rest
            /\ Busy' = Busy \union {hand'}
<1> USE DEF RunInv, Busy
<1>1. CASE Wave
  BY <1>1 DEF Wave, OpenNodes, Places, InWave
<1>2. CASE Fill
  BY <1>2, MinIsIn, RunConfig DEF Fill, Room, OpenNodes, Places, Typed
<1>3. CASE Submit
  BY <1>3 DEF Submit, OpenNodes, Places
<1>4. CASE (\E n \in Node : BodyEnd(n)) \/ Crash
  BY <1>4 DEF BodyEnd, BodyEndsAs, Crash, Unwind
<1>5. ASSUME ~Wave, ~Fill, ~Submit PROVE rest' \subseteq rest
  <2>1. rest' = rest \/ rest' = {}
    BY <1>5 DEF RunNext, Host, Worker, CreateNode, After, Execute, TakeReply, EndProgram,
         WorkerDies, Top, ReceiveNothing, ReceiveDone, ReceiveGraph, Respond, Reject, Answer, Leave, Unwind,
         Plan, AllPlanned, Loop, Scan, Scanned, Prepare, Prepared, Launch, Await, Commit, Drain, Finish, Abort,
         Expire, InterruptWait, InterruptApproval, Interrupt, Interrupted, Crash,
         BodyEnd, BodyEndsAs, vars, pool
  <2>. QED BY <2>1
<1>. QED BY <1>1, <1>2, <1>3, <1>4, <1>5, PoolMoves

(* Nodes that are fewer than some finite set of them.                        *)
LEMMA FewerNodes ==
  ASSUME NEW S \in SUBSET Node, NEW T \in SUBSET S
  PROVE  Cardinality(S) \in Nat /\ Cardinality(T) \in Nat /\ Cardinality(T) <= Cardinality(S)
<1>1. IsFiniteSet(Node)
  BY FS_Interval, RunConfig
<1>2. IsFiniteSet(S)
  BY <1>1, FS_Subset
<1>. QED BY <1>2, FS_Subset, FS_CardinalityType

(* A body runs only for a node in hand.                                      *)
LEMMA BoundedStep ==
  ASSUME RunInv, Typed', OpenNodes', Bodies', [RunNext]_vars
  PROVE  Bounded'
<1> USE DEF RunInv
<1>1. Busy \subseteq Node /\ Busy' \subseteq Node /\ cap \in Nat /\ cap' = cap
  <2>1. cap' = cap
    BY DEF RunNext, Host, Worker, CreateNode, After, Execute, TakeReply, EndProgram,
         WorkerDies, Top, ReceiveNothing, ReceiveDone, ReceiveGraph, Respond, Reject, Answer, Leave, Unwind,
         Plan, AllPlanned, Loop, Scan, Scanned, Prepare, Prepared, Wave, Fill, Launch, Submit, Await, Commit, Drain,
         Finish, Abort, Expire, InterruptWait, InterruptApproval, Interrupt, Interrupted, Crash,
         BodyEnd, BodyEndsAs, vars, worker
  <2>. QED BY <2>1 DEF Typed, Busy
<1>2. Cardinality(Busy') <= cap
  <2>1. CASE Busy' \subseteq Busy
    BY <1>1, <2>1, FewerNodes DEF Bounded
  <2>2. CASE Busy' = {}
    BY <1>1, <2>2, FS_EmptySet
  <2>3. CASE Room /\ hand = 0 /\ Busy' = Busy \union {hand'} /\ hand' \in rest
    <3>1. Busy = flight /\ IsFiniteSet(flight) /\ Cardinality(flight) \in Nat
      <4>1. IsFiniteSet(Node)
        BY FS_Interval, RunConfig
      <4>. QED BY <2>3, <4>1, FS_Subset, FS_CardinalityType DEF Busy, Typed
    <3>2. Cardinality(Busy') <= Cardinality(flight) + 1
      BY <2>3, <3>1, FS_AddElement
    <3>3. Cardinality(flight) < cap
      BY <2>3 DEF Room
    <3>. QED BY <1>1, <3>1, <3>2, <3>3, FewerNodes
  <2>. QED BY <2>1, <2>2, <2>3, BusyMoves
<1>3. Apart((rest \union Busy)')
  <2>1. CASE (rest \union Busy)' \subseteq rest \union Busy
    BY <2>1 DEF Bounded, Apart
  <2>2. CASE Busy' = {} /\ rest' = NextWave
    BY <2>2, WaveIsApart
  <2>. QED BY <2>1, <2>2, BusyMoves
<1>4. Running' \subseteq Running \/ (Running' \subseteq flight' /\ flight' \subseteq Busy)
  <2>1. CASE Submit
    BY <2>1 DEF Submit, Bodies, Busy, Ending, Go, OpenNodes, Places
  <2>2. CASE UNCHANGED body
    BY <2>2 DEF Running
  <2>3. CASE (\E n \in Node : BodyEnd(n)) \/ Crash
    BY <2>3 DEF BodyEnd, BodyEndsAs, Crash, Running, Typed
  <2>. QED BY <2>1, <2>2, <2>3, PoolMoves DEF Fill
<1>5. Running \subseteq Node
  BY DEF Running
<1>6. Cardinality(Running') <= cap /\ Apart(Running')
  <2>1. CASE Running' \subseteq Running
    BY <1>1, <1>5, <2>1, FewerNodes DEF Bounded, Apart
  <2>2. CASE Running' \subseteq Busy
    BY <1>1, <2>2, FewerNodes DEF Bounded, Apart
  <2>. QED BY <1>4, <2>1, <2>2
<1>. QED BY <1>1, <1>2, <1>3, <1>6 DEF Bounded, Apart

-----------------------------------------------------------------------------
(* The invariant as a whole.                                                 *)

LEMMA RunStart == RunInit => RunInv
<1> SUFFICES ASSUME RunInit PROVE RunInv
  OBVIOUS
<1> USE DEF RunInit
<1>1. PICK s \in Settings : limit = s[1] /\ cap = s[2]
  OBVIOUS
<1>2. limit \in Nat /\ cap \in Nat
  BY <1>1, RunConfig
<1>3. DagTypeOK /\ Promise /\ Known = {}
  BY PromiseInit DEF DagInit, DagTypeOK, Known
<1>4. Typed
  <2>1. made \in 0 .. MaxMade /\ belated \in Nat
    BY RunConfig
  <2>2. after \in [Node -> SUBSET Node] /\ told \in [Node -> {"none", "ok", "error", "rejected"}]
    OBVIOUS
  <2>3. /\ reply \in [Node -> {"none", "ok", "error", "rejected"}]
        /\ body \in [Node -> Results \union {"idle", "running", "lost"}]
    BY DEF NoReply
  <2>. QED BY <1>2, <1>3, <2>1, <2>2, <2>3 DEF Typed, Between
<1>5. Handshake /\ Frames /\ Outcomes
  BY <1>3 DEF Handshake, Frames, Outcomes, WorkerKnowsTheTruth, InHand, OnGraph, InWave, Over, Ending,
              Made, NoReply
<1>6. OpenNodes
  BY <1>3 DEF OpenNodes, Belong, Places, DagInit, Settled, InWave
<1>7. Bodies /\ Running = {}
  BY DEF Bodies, DagInit, Results, Running
<1>8. Busy = {} /\ Cardinality({}) = 0
  BY FS_EmptySet DEF Busy
<1>9. PassIsTrue /\ LastDispatch /\ Verdicts
  BY DEF PassIsTrue, LastDispatch, Verdicts
<1>10. Bounded
  BY <1>2, <1>7, <1>8 DEF Bounded, Apart
<1>. QED BY <1>3, <1>4, <1>5, <1>6, <1>7, <1>9, <1>10 DEF RunInv

(* ... and every step keeps it.                                              *)
LEMMA RunStep ==
  ASSUME RunInv, [RunNext]_vars
  PROVE  RunInv'
<1>1. Typed'
  BY TypedStep
<1>2. OpenNodes'
  BY <1>1, OpenStep
<1>3. Bodies'
  BY <1>1, <1>2, BodiesStep
<1>4. Promise'
  BY StepRefines, PromiseStep DEF RunInv, Typed
<1>. QED BY <1>1, <1>2, <1>3, <1>4, HandshakeStep, FramesStep, OutcomesStep, PassStep, DispatchStep,
            BoundedStep, VerdictStep DEF RunInv

(* So it holds throughout.                                                   *)
LEMMA RunInvariant == RunSpec => []RunInv
  BY RunStart, RunStep, PTL DEF RunSpec

-----------------------------------------------------------------------------
(* What holds of every run.                                                  *)

(* The scheduler implements CodeDag over any number of frames, cancellations, *)
(* aborts and recoveries: each of its steps is a step of CodeDag or none.    *)
THEOREM SchedulerKeepsTheDag == RunSpec => KeepsTheDag
<1>1. RunInit => DagInit
  BY DEF RunInit
<1>2. RunInv /\ [RunNext]_vars => [DagNext]_dag
  BY StepRefines DEF RunInv
<1>. QED BY <1>1, <1>2, RunInvariant, PTL DEF RunSpec, KeepsTheDag, DagSpec

(* The worker is told the truth: what it holds as succeeded did succeed, and *)
(* a rejected node is never executed afterwards.                             *)
(* (_GraphClient.execute, execute_graph.)                                     *)
THEOREM WorkerIsToldTheTruth == RunSpec => []WorkerKnowsTheTruth
<1>1. RunInv => WorkerKnowsTheTruth
  BY DEF RunInv, Outcomes
<1>. QED BY <1>1, RunInvariant, PTL

(* What is recorded of a node is what its thread did. (code_mode.py:145-176.) *)
THEOREM RecordsAreTrue == RunSpec => []RecordIsTrue
<1>1. RunInv => RecordIsTrue
  <2> SUFFICES ASSUME RunInv, NEW n \in Node, pc = "closed", body[n] = "running"
               PROVE  status[n] = "outcome_unknown"
    BY DEF RunInv, Bodies, RecordIsTrue
  <2>1. status[n] # "started"
    BY DEF RunInv, OpenNodes, Belong, Settled, Known, Terminal, Failures
  <2>. QED BY <2>1 DEF RunInv, Bodies, Results
<1>. QED BY <1>1, RunInvariant, PTL

(* Never more bodies at once than max_parallel, nor two that change one file. *)
(* (_execute_staged_wave, _next_execution_wave.)                              *)
THEOREM FlightsAreBounded == RunSpec => []FlightIsBounded
<1>1. RunInv => FlightIsBounded
  BY DEF RunInv, Bounded, Apart, FlightIsBounded
<1>. QED BY <1>1, RunInvariant, PTL

(* A cancellation stops everything but the dispatch that is under way.       *)
(* (code_scheduler.py:346-358.)                                              *)
THEOREM CancellationStops == RunSpec => []OneDispatchAfterCancel
<1>1. RunInv => OneDispatchAfterCancel
  BY DEF RunInv, LastDispatch, OneDispatchAfterCancel
<1>. QED BY <1>1, RunInvariant, PTL

(* A closed run is settled, its record is never refused, and the scheduler   *)
(* never finds itself without progress. (_apply_code_run_finished.)          *)
THEOREM ClosedRunsAreSettled == RunSpec => []ClosedIsSettled
<1>1. RunInv => ClosedIsSettled
  BY DEF RunInv, Typed, Between, InHand, OnGraph, InWave, Over, Ending, OpenNodes, Belong, Verdicts,
         ClosedIsSettled
<1>. QED BY <1>1, RunInvariant, PTL

(* What the invariant does not say of types.                                 *)
FrameKinds == {"none", "graph", "value", "error"}
Verdict == {"none", "value", "error", "timeout", "exit", "protocol", "interrupted", "exception"}

Margin ==
  /\ <<limit, cap>> \in Settings /\ afters \in 0 .. MaxAfter
  /\ frame \in FrameKinds /\ late \in BOOLEAN /\ expired \in BOOLEAN
  /\ verdict \in Verdict /\ run \in {"active", "succeeded", "failed", "interrupted"}
  /\ interrupts \in 0 .. MaxInterrupts

LEMMA MarginIsKept ==
  ASSUME Margin, [RunNext]_vars
  PROVE  Margin'
<1> DEFINE Clock == late' \in BOOLEAN /\ expired' \in BOOLEAN
           Pressing == UNCHANGED interrupts \/ Pressed
           Onward == frame' \in FrameKinds /\ verdict' \in Verdict
           Fixed == UNCHANGED <<limit, cap, afters>>
           Recorded == run' \in {"active", "succeeded", "failed", "interrupted"}
<1>1. MaxAfter \in Nat /\ MaxInterrupts \in Nat
  BY RunConfig
<1>2. ASSUME Fixed, Clock, Pressing, Onward, Recorded PROVE Margin'
  <2>1. interrupts' \in 0 .. MaxInterrupts
    BY <1>1, <1>2 DEF Margin, Pressed
  <2>2. <<limit, cap>>' \in Settings /\ afters' \in 0 .. MaxAfter
    BY <1>2 DEF Margin
  <2>. QED BY <1>2, <2>1, <2>2 DEF Margin
<1>3. UNCHANGED clock => Clock
  BY DEF clock, Margin
<1>4. UNCHANGED interrupts => Pressing
  OBVIOUS
<1>5. /\ UNCHANGED run => Recorded
      /\ UNCHANGED <<frame, verdict>> => Onward
  BY DEF Margin
<1>6. \A next : \A how \in Verdict : Unwind(next, how) => Fixed /\ Onward /\ Recorded
  BY <1>5 DEF Unwind, FrameKinds
<1>7. \A how \in Verdict : Leave(how) => Margin'
  BY <1>2, <1>3, <1>4, <1>6 DEF Leave
<1>8. \A next : Interrupted(next) => Fixed /\ Onward /\ Recorded /\ Clock
  BY <1>3, <1>6 DEF Interrupted, Verdict
<1>9. ASSUME UNCHANGED <<worker, pipe, clock, result, interrupts>> PROVE Margin'
  BY <1>2, <1>3, <1>4, <1>5, <1>9 DEF worker, pipe, result
<1>10. CASE Worker
  <2>1. UNCHANGED <<limit, cap, clock, result, interrupts>>
    BY <1>10 DEF Worker, CreateNode, After, Execute, TakeReply, EndProgram, WorkerDies
  <2>2. afters' \in 0 .. MaxAfter
    BY <1>1, <1>10 DEF Worker, CreateNode, After, Execute, TakeReply, EndProgram, WorkerDies, Margin
  <2>3. frame' \in FrameKinds
    BY <1>10 DEF Worker, CreateNode, After, Execute, TakeReply, EndProgram, WorkerDies, Margin, pipe, FrameKinds
  <2>. QED BY <1>3, <1>4, <1>5, <2>1, <2>2, <2>3 DEF Margin, result
<1> HIDE DEF Clock, Pressing, Onward, Fixed, Recorded
<1>11. CASE Top \/ ReceiveNothing \/ ReceiveDone
  <2>1. ASSUME UNCHANGED <<dag, worker, pipe, pass, pool, clock, result, interrupts>> PROVE Margin'
    BY <1>9, <2>1
  <2>. QED BY <1>7, <1>11, <2>1 DEF Top, ReceiveNothing, ReceiveDone, Verdict
<1>12. CASE ReceiveGraph
  BY <1>2, <1>3, <1>4, <1>5, <1>12 DEF ReceiveGraph, worker, result, Fixed, Onward, Recorded, FrameKinds, Margin
<1>13. \A from, outcome : Answer(from, outcome) => Margin'
  <2> SUFFICES ASSUME NEW from, NEW outcome, Answer(from, outcome) PROVE Margin'
    OBVIOUS
  <2>1. ASSUME UNCHANGED <<worker, frame, clock, result, interrupts>> PROVE Margin'
    BY <1>2, <1>3, <1>4, <1>5, <2>1 DEF worker, result, Fixed
  <2>. QED BY <1>7, <2>1 DEF Answer, Verdict
<1>14. CASE Respond \/ Reject
  BY <1>13, <1>14 DEF Respond, Reject
<1>15. ASSUME NEW n \in Node, Plan(n) \/ Commit(n) \/ BodyEnd(n) PROVE Margin'
  BY <1>9, <1>15 DEF Plan, Commit, BodyEnd, BodyEndsAs
<1>16. CASE AllPlanned \/ Loop \/ Scan \/ Scanned \/ Prepare \/ Prepared
  BY <1>9, <1>16 DEF AllPlanned, Loop, Scan, Scanned, Prepare, Prepared
<1>17. CASE Wave \/ Fill \/ Launch \/ Submit \/ Await
  BY <1>9, <1>17 DEF Wave, Fill, Launch, Submit, Await
<1>18. CASE Drain
  <2>1. ASSUME UNCHANGED <<worker, pipe, clock, result>>, UNCHANGED interrupts PROVE Margin'
    BY <1>9, <2>1
  <2>2. ASSUME NEW next, Interrupted(next), UNCHANGED interrupts PROVE Margin'
    BY <1>2, <1>4, <1>8, <2>2
  <2>. QED BY <1>18, <2>1, <2>2 DEF Drain
<1>19. CASE Finish
  <2>1. UNCHANGED <<worker, pipe, clock, verdict, interrupts>> /\ run' \in {run, "succeeded", "failed"}
    BY <1>19 DEF Finish, RunVerdict
  <2>2. Recorded
    BY <2>1 DEF Recorded, Margin
  <2>. QED BY <1>2, <1>3, <1>4, <1>5, <2>1, <2>2 DEF worker, pipe, Fixed
<1>20. CASE Abort
  <2>1. UNCHANGED <<worker, pipe, late, expired, verdict, interrupts>> /\ run' \in {"interrupted", "failed"}
    BY <1>20 DEF Abort
  <2>. QED BY <1>2, <1>4, <1>5, <2>1 DEF worker, pipe, Fixed, Clock, Recorded, Margin
<1>21. CASE Expire
  <2>1. UNCHANGED <<worker, pipe, result, interrupts>>
    BY <1>21 DEF Expire
  <2>2. Clock
    BY <1>21 DEF Expire, Clock, Margin
  <2>. QED BY <1>2, <1>4, <1>5, <2>1, <2>2 DEF worker, pipe, result, Fixed
<1>22. CASE InterruptWait
  BY <1>2, <1>5, <1>22 DEF InterruptWait, worker, pipe, result, Fixed, Clock, Pressing, Margin
<1>23. CASE InterruptApproval \/ Interrupt
  BY <1>2, <1>8, <1>23 DEF InterruptApproval, Interrupt, Pressing
<1>24. CASE Crash
  BY <1>2, <1>3, <1>4, <1>6, <1>24 DEF Crash, Verdict
<1>25. CASE UNCHANGED vars
  BY <1>9, <1>25 DEF vars
<1>. QED BY <1>10, <1>11, <1>12, <1>14, <1>15, <1>16, <1>17, <1>18, <1>19, <1>20, <1>21, <1>22, <1>23, <1>24, <1>25
     DEF RunNext, Host

(* Every part of the state of a run has its type: the limits are the ones it *)
(* was configured with throughout, and the frames, replies and statuses are  *)
(* the ones the protocol knows. (code_runtime.py, code_scheduler.py.)         *)
THEOREM RunsAreTyped == RunSpec => []RunTypeOK
<1>1. RunInit => Margin
  <2> SUFFICES ASSUME RunInit PROVE Margin
    OBVIOUS
  <2>1. <<limit, cap>> \in Settings
    <3>1. PICK s \in Settings : limit = s[1] /\ cap = s[2]
      BY DEF RunInit
    <3>. QED BY <3>1, RunConfig
  <2>2. afters \in 0 .. MaxAfter /\ interrupts \in 0 .. MaxInterrupts
    BY RunConfig DEF RunInit
  <2>. QED BY <2>1, <2>2 DEF RunInit, Margin, FrameKinds, Verdict
<1>2. Margin /\ [RunNext]_vars => Margin'
  BY MarginIsKept
<1>3. RunInv /\ Margin => RunTypeOK
  <2> SUFFICES ASSUME Typed, Margin PROVE RunTypeOK
    BY DEF RunInv
  <2>1. pc \in Stages
    BY DEF Typed, Stages, Between, InHand, OnGraph, InWave, Over, Ending
  <2>2. /\ <<limit, cap>> \in Settings /\ afters \in 0 .. MaxAfter /\ interrupts \in 0 .. MaxInterrupts
        /\ frame \in {"none", "graph", "value", "error"}
        /\ verdict \in {"none", "value", "error", "timeout", "exit", "protocol", "interrupted", "exception"}
        /\ run \in {"active", "succeeded", "failed", "interrupted"}
    BY DEF Margin, FrameKinds, Verdict
  <2>3. {late, expired, cancel} \subseteq BOOLEAN
    BY DEF Typed, Margin
  <2>4. {sent, asked, relevant, scan, queue, staged, rest, flight, settled} \subseteq SUBSET Node
    BY DEF Typed
  <2>. QED BY <2>1, <2>2, <2>3, <2>4 DEF Typed, RunTypeOK
<1>. QED BY <1>1, <1>2, <1>3, RunInvariant, PTL DEF RunSpec
=============================================================================
