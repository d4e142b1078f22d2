-------------------------- MODULE FlowReachability --------------------------
(***************************************************************************)
(* The breadth-first search of checks.checkFlows: from the entry step of a *)
(* flow, along goto and status_map edges, to the steps it can reach.  The  *)
(* search runs whatever other rules the flow breaks, so an edge may lead   *)
(* to a name that is no step; reading the map there yields the zero step.  *)
(***************************************************************************)
EXTENDS ManifestChecks

CONSTANT FlowFamily         \* the flows that may be checked

(* The search is run on flows with one entry step; a Go map is finite.     *)
ASSUME FlowsAreFinite == \A f \in FlowFamily : IsFiniteSet(Targeted(f))
ASSUME FlowsHaveEntry == \A f \in FlowFamily : HasEntryStep(f)

VARIABLES
  flow,                     \* the flow under check, never assigned
  reachable,                \* the names marked so far
  queue                     \* the marked names still to be expanded

vars == <<flow, reachable, queue>>

Names == DOMAIN flow \cup Targeted(flow)
Queued == {queue[i] : i \in DOMAIN queue}

Init ==
  /\ flow \in FlowFamily
  /\ reachable = {EntryStep(flow)} /\ queue = <<EntryStep(flow)>>

(* Mutant of Fresh: the status_map of a step is not followed.              *)
FreshByGoto(step) == GotoTargets(step) \ reachable

(* The successors of a step that are not marked yet.                       *)
Fresh(step) == Successors(step) \ reachable

(* The orders in which the loop over next may append them: the goto comes  *)
(* first, the values of the status_map in the order of a map iteration.    *)
Orders(step) ==
  {order \in [1 .. Cardinality(Fresh(step)) -> Fresh(step)] :
     /\ \A name \in Fresh(step) : \E i \in DOMAIN order : order[i] = name
     /\ \A i \in DOMAIN order : order[i] = step.goto => i = 1}

(* Mutant of Rest: the head of the queue stays in it.                      *)
Whole(q) == q

Rest(q) == Tail(q)

(* Mutant of Marked: a name is marked when it is expanded.                 *)
MarkedLate(step) == reachable \cup {Head(queue)}

Marked(step) == reachable \cup Fresh(step)

(* One round of the loop: the head of the queue is expanded.               *)
Expand ==
  LET step == StepAt(flow, Head(queue)) IN
  /\ queue # <<>>
  /\ \E order \in Orders(step) : queue' = Rest(queue) \o order
  /\ reachable' = Marked(step)
  /\ UNCHANGED flow

Finished == queue = <<>> /\ UNCHANGED vars

Next == Expand \/ Finished

(* The loop does not block.                                                *)
Spec == Init /\ [][Next]_vars /\ WF_vars(Next)

-----------------------------------------------------------------------------
(* The search never runs into a name twice: what waits in the queue is     *)
(* marked, and waits there once.                                           *)
QueuedOnce ==
  /\ Queued \subseteq reachable
  /\ \A i, j \in DOMAIN queue : queue[i] = queue[j] => i = j

(* Nothing is lost: a successor of a marked name is marked itself, unless  *)
(* the name still waits to be expanded.                                    *)
Frontier ==
  \A s \in reachable \ Queued : Successors(StepAt(flow, s)) \subseteq reachable

(* When the search is over the marked names are the least set that holds   *)
(* the entry step and that no edge leaves, so a step reported unreachable  *)
(* is one that some closed set around the entry step misses, and no other. *)
SearchIsExact ==
  queue = <<>> =>
    /\ EntryStep(flow) \in reachable /\ ClosedUnderEdges(flow, reachable)
    /\ \A S \in SUBSET Names :
         EntryStep(flow) \in S /\ ClosedUnderEdges(flow, S) => reachable \subseteq S

(* The fixpoint that CheckFlow uses in place of the search is its result.  *)
FixpointIsSearch == queue = <<>> => reachable = Reachable(flow, EntryStep(flow))

(* The search comes to an end, also around a cycle.                        *)
SearchEnds == <>(queue = <<>>)

=============================================================================
