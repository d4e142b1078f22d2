----------------------- MODULE FlowReachabilityProofs -----------------------
(***************************************************************************)
(* The search of checkFlows is exact for every finite flow, whatever order *)
(* the map iteration yields: what it marks is the least set around the     *)
(* entry step that no edge leaves.  The invariant is the usual one of a    *)
(* graph search: a marked name is expanded, or it waits in the queue once. *)
(***************************************************************************)
EXTENDS FlowReachability, FiniteSetTheorems, SequenceTheorems, WellFoundedInduction,
        TLAPS

(* Every marked name lies in every closed set around the entry step.       *)
NothingExtra ==
  \A S \in SUBSET Names :
    EntryStep(flow) \in S /\ ClosedUnderEdges(flow, S) => reachable \subseteq S

SearchInv ==
  /\ flow \in FlowFamily
  /\ queue \in Seq(Names) /\ EntryStep(flow) \in reachable
  /\ QueuedOnce /\ Frontier /\ NothingExtra

-----------------------------------------------------------------------------
(* The successors of a name are names of the flow.                         *)
LEMMA SuccessorsAreNames ==
  ASSUME NEW name
  PROVE  Successors(StepAt(flow, name)) \subseteq Targeted(flow)
<1>1. CASE name \in DOMAIN flow
  BY <1>1 DEF StepAt, Targeted
<1>2. CASE name \notin DOMAIN flow
  BY <1>2 DEF StepAt, ZeroStep, Successors, GotoTargets, StatusMapTargets
<1> QED
  BY <1>1, <1>2

(* An order in which fresh names are appended lists each of them once.     *)
LEMMA OrderLists ==
  ASSUME NEW step, IsFiniteSet(Fresh(step)), NEW order \in Orders(step)
  PROVE  /\ order \in Seq(Fresh(step))
         /\ Len(order) = Cardinality(Fresh(step))
         /\ {order[i] : i \in 1 .. Len(order)} = Fresh(step)
         /\ \A i, j \in 1 .. Len(order) : order[i] = order[j] => i = j
<1> DEFINE F == Fresh(step)
           n == Cardinality(F)
<1>1. n \in Nat
  BY FS_CardinalityType
<1>2. order \in [1 .. n -> F] /\ \A name \in F : \E i \in DOMAIN order : order[i] = name
  BY DEF Orders
<1> HIDE DEF F, n
<1>3. order \in Seq(F) /\ Len(order) = n
  BY <1>1, <1>2
<1>4. {order[i] : i \in 1 .. n} = F
  BY <1>2
<1>5. IsFiniteSet(1 .. n) /\ Cardinality(1 .. n) = n
  BY <1>1, FS_Interval
<1>6. order \in Surjection(1 .. n, F)
  BY <1>2 DEF Surjection
<1>7. order \in Injection(1 .. n, F)
  BY <1>5, <1>6, FS_SurjSameCardinalityImpliesInj DEF n
<1>8. \A i, j \in 1 .. n : order[i] = order[j] => i = j
  BY <1>7 DEF Injection, IsInjective
<1> QED
  BY <1>3, <1>4, <1>8 DEF F, n

LEMMA InitSearch == Init => SearchInv
<1> SUFFICES ASSUME Init PROVE SearchInv
  OBVIOUS
<1> DEFINE entry == EntryStep(flow)
<1>1. flow \in FlowFamily /\ reachable = {entry} /\ queue = <<entry>>
  BY DEF Init
<1>2. entry \in DOMAIN flow
  BY <1>1, FlowsHaveEntry DEF EntryStep, HasEntryStep
<1> HIDE DEF entry
<1>3. Queued = {entry}
  BY <1>1 DEF Queued
<1>4. queue \in Seq(Names)
  BY <1>1, <1>2 DEF Names
<1>5. QueuedOnce /\ Frontier
  BY <1>1, <1>3 DEF QueuedOnce, Frontier
<1>6. NothingExtra
  BY <1>1 DEF NothingExtra, entry
<1> QED
  BY <1>1, <1>4, <1>5, <1>6 DEF SearchInv, entry

LEMMA ExpandSearch == SearchInv /\ Expand => SearchInv'
<1> SUFFICES ASSUME SearchInv, Expand PROVE SearchInv'
  OBVIOUS
<1> DEFINE cur == Head(queue)
           step == StepAt(flow, cur)
           F == Fresh(step)
           rest == Tail(queue)
<1>1. queue # <<>> /\ flow' = flow /\ reachable' = reachable \cup F
  BY DEF Expand, Marked
<1>2. PICK order \in Orders(step) : queue' = rest \o order
  BY DEF Expand, Rest
<1>3. queue \in Seq(Names) /\ flow \in FlowFamily
  BY DEF SearchInv
<1>4. F \subseteq Successors(step) /\ F \subseteq Names /\ F \cap reachable = {}
  BY SuccessorsAreNames DEF Fresh, Names
<1>5. IsFiniteSet(F)
  <2>1. IsFiniteSet(Targeted(flow)) /\ F \subseteq Targeted(flow)
    BY <1>3, FlowsAreFinite, SuccessorsAreNames DEF Fresh
  <2> QED
    BY <2>1, FS_Subset
<1>6. /\ order \in Seq(F) /\ {order[i] : i \in 1 .. Len(order)} = F
      /\ \A i, j \in 1 .. Len(order) : order[i] = order[j] => i = j
  BY <1>5, OrderLists
<1>7. /\ cur = queue[1] /\ rest \in Seq(Names) /\ Len(rest) = Len(queue) - 1
      /\ \A i \in 1 .. Len(rest) : rest[i] = queue[i + 1]
  BY <1>1, <1>3, HeadTailProperties
<1> HIDE DEF cur, step, F, rest
<1>8. order \in Seq(Names)
  BY <1>4, <1>6
<1>9. /\ queue' \in Seq(Names) /\ Len(queue') = Len(rest) + Len(order)
      /\ \A i \in 1 .. Len(queue') :
           queue'[i] = IF i <= Len(rest) THEN rest[i] ELSE order[i - Len(rest)]
  BY <1>2, <1>7, <1>8, ConcatProperties
<1>10. Queued = {cur} \cup {rest[i] : i \in 1 .. Len(rest)}
  <2>1. DOMAIN queue = 1 .. Len(queue) /\ Len(queue) \in Nat /\ Len(queue) >= 1
    BY <1>1, <1>3
  <2>2. \A i \in 2 .. Len(queue) : i - 1 \in 1 .. Len(rest) /\ queue[i] = rest[i - 1]
    BY <1>7, <2>1
  <2>3. \A i \in 1 .. Len(rest) : i + 1 \in 2 .. Len(queue) /\ rest[i] = queue[i + 1]
    BY <1>7, <2>1
  <2>4. \A i \in DOMAIN queue : i = 1 \/ i \in 2 .. Len(queue)
    BY <2>1
  <2> QED
    <3>1. ASSUME NEW i \in DOMAIN queue
          PROVE  queue[i] \in {cur} \cup {rest[j] : j \in 1 .. Len(rest)}
      BY <1>7, <2>2, <2>4
    <3>2. cur \in Queued
      BY <1>7, <2>1 DEF Queued
    <3>3. ASSUME NEW i \in 1 .. Len(rest) PROVE rest[i] \in Queued
      <4>1. i + 1 \in DOMAIN queue /\ rest[i] = queue[i + 1]
        BY <2>1, <2>3
      <4> QED
        BY <4>1 DEF Queued
    <3> QED
      BY <3>1, <3>2, <3>3 DEF Queued
<1>11. Queued' = {rest[i] : i \in 1 .. Len(rest)} \cup F
  <2>1. DOMAIN queue' = 1 .. Len(queue') /\ Len(rest) \in Nat /\ Len(order) \in Nat
    BY <1>6, <1>7, <1>9
  <2>2. \A i \in 1 .. Len(rest) : i \in DOMAIN queue' /\ queue'[i] = rest[i]
    BY <1>9, <2>1
  <2>3. \A i \in 1 .. Len(order) :
          i + Len(rest) \in DOMAIN queue' /\ queue'[i + Len(rest)] = order[i]
    BY <1>9, <2>1
  <2>4. \A i \in DOMAIN queue' :
          \/ i \in 1 .. Len(rest) /\ queue'[i] = rest[i]
          \/ i - Len(rest) \in 1 .. Len(order) /\ queue'[i] = order[i - Len(rest)]
    BY <1>9, <2>1
  <2> QED
    <3>1. ASSUME NEW i \in DOMAIN queue'
          PROVE  queue'[i] \in {rest[j] : j \in 1 .. Len(rest)} \cup F
      BY <1>6, <2>4
    <3>2. ASSUME NEW i \in 1 .. Len(rest) PROVE rest[i] \in Queued'
      BY <2>2 DEF Queued
    <3>3. ASSUME NEW name \in F PROVE name \in Queued'
      <4>1. PICK i \in 1 .. Len(order) : name = order[i]
        BY <1>6
      <4> QED
        BY <2>3, <4>1 DEF Queued
    <3> QED
      BY <3>1, <3>2, <3>3 DEF Queued
<1>12. QueuedOnce'
  <2>1. Queued' \subseteq reachable'
    BY <1>1, <1>10, <1>11 DEF SearchInv, QueuedOnce
  <2>2. \A i, j \in 1 .. Len(rest) : rest[i] = rest[j] => i = j
    <3> SUFFICES ASSUME NEW i \in 1 .. Len(rest), NEW j \in 1 .. Len(rest),
                        rest[i] = rest[j]
                 PROVE  i = j
      OBVIOUS
    <3>1. i + 1 \in DOMAIN queue /\ j + 1 \in DOMAIN queue
      BY <1>3, <1>7
    <3>2. queue[i + 1] = queue[j + 1]
      BY <1>7
    <3>3. i + 1 = j + 1
      BY <3>1, <3>2 DEF SearchInv, QueuedOnce
    <3> QED
      BY <3>3
  <2>3. \A i \in 1 .. Len(rest) : \A j \in 1 .. Len(order) : rest[i] # order[j]
    BY <1>4, <1>6, <1>10 DEF SearchInv, QueuedOnce
  <2>4. Len(rest) \in Nat /\ Len(order) \in Nat /\ DOMAIN queue' = 1 .. Len(queue')
    BY <1>6, <1>7, <1>9
  <2>5. \A i, j \in DOMAIN queue' : queue'[i] = queue'[j] => i = j
    <3> SUFFICES ASSUME NEW i \in DOMAIN queue', NEW j \in DOMAIN queue',
                        queue'[i] = queue'[j]
                 PROVE  i = j
      OBVIOUS
    <3>1. CASE i <= Len(rest) /\ j <= Len(rest)
      BY <1>9, <2>2, <2>4, <3>1
    <3>2. CASE i <= Len(rest) /\ ~ (j <= Len(rest))
      BY <1>9, <2>3, <2>4, <3>2
    <3>3. CASE ~ (i <= Len(rest)) /\ j <= Len(rest)
      BY <1>9, <2>3, <2>4, <3>3
    <3>4. CASE ~ (i <= Len(rest)) /\ ~ (j <= Len(rest))
      <4>1. i - Len(rest) \in 1 .. Len(order) /\ j - Len(rest) \in 1 .. Len(order)
        BY <1>9, <2>4, <3>4
      <4>2. order[i - Len(rest)] = order[j - Len(rest)]
        BY <1>9, <2>4, <3>4
      <4>3. i - Len(rest) = j - Len(rest)
        BY <1>6, <4>1, <4>2
      <4> QED
        BY <2>4, <4>3
    <3> QED
      BY <3>1, <3>2, <3>3, <3>4
  <2> QED
    BY <2>1, <2>5 DEF QueuedOnce
<1>13. Frontier'
  <2> SUFFICES ASSUME NEW s \in reachable' \ Queued'
               PROVE  Successors(StepAt(flow, s)) \subseteq reachable'
    BY <1>1 DEF Frontier
  <2>1. s \in reachable
    BY <1>1, <1>11
  <2>2. CASE s = cur
    BY <1>1, <2>2 DEF F, Fresh, step
  <2>3. CASE s # cur
    BY <1>1, <1>10, <1>11, <2>1, <2>3 DEF SearchInv, Frontier
  <2> QED
    BY <2>2, <2>3
<1>14. NothingExtra'
  <2> SUFFICES ASSUME NEW S \in SUBSET Names, EntryStep(flow) \in S,
                      ClosedUnderEdges(flow, S)
               PROVE  reachable \cup F \subseteq S
    BY <1>1 DEF NothingExtra, Names
  <2>1. reachable \subseteq S
    BY DEF SearchInv, NothingExtra
  <2>2. cur \in S
    BY <1>10, <2>1 DEF SearchInv, QueuedOnce
  <2>3. Successors(step) \subseteq S
    BY <2>2 DEF ClosedUnderEdges, step
  <2> QED
    BY <1>4, <2>1, <2>3
<1>15. queue' \in Seq(Names') /\ EntryStep(flow') \in reachable' /\ flow' \in FlowFamily
  BY <1>1, <1>3, <1>9 DEF SearchInv, Names
<1> QED
  BY <1>12, <1>13, <1>14, <1>15 DEF SearchInv

LEMMA StepSearch == SearchInv /\ [Next]_vars => SearchInv'
<1> SUFFICES ASSUME SearchInv, [Next]_vars PROVE SearchInv'
  OBVIOUS
<1>1. CASE Expand
  BY <1>1, ExpandSearch
<1>2. CASE UNCHANGED vars
  <2>1. flow' = flow /\ reachable' = reachable /\ queue' = queue
    BY <1>2 DEF vars
  <2>2. Names' = Names /\ Queued' = Queued
    BY <2>1 DEF Names, Queued
  <2> QED
    BY <2>1, <2>2 DEF SearchInv, QueuedOnce, Frontier, NothingExtra
<1> QED
  BY <1>1, <1>2 DEF Next, Finished

THEOREM SearchInvariance == Spec => []SearchInv
BY InitSearch, StepSearch, PTL DEF Spec

(* No name is ever queued twice.                                           *)
THEOREM EachNameOnce == Spec => []QueuedOnce
<1>1. SearchInv => QueuedOnce
  BY DEF SearchInv
<1> QED
  BY <1>1, SearchInvariance, PTL

(* No successor of an expanded name is lost.                               *)
THEOREM NothingIsLost == Spec => []Frontier
<1>1. SearchInv => Frontier
  BY DEF SearchInv
<1> QED
  BY <1>1, SearchInvariance, PTL

(* When the search is over, exactly the steps reachable along goto and     *)
(* status_map edges are marked.                                            *)
THEOREM ExactSearch == Spec => []SearchIsExact
<1>1. SearchInv => SearchIsExact
  <2> SUFFICES ASSUME SearchInv, queue = <<>>
               PROVE  /\ EntryStep(flow) \in reachable
                      /\ ClosedUnderEdges(flow, reachable)
                      /\ NothingExtra
    BY DEF SearchIsExact, NothingExtra
  <2>1. Queued = {}
    BY DEF Queued
  <2> QED
    BY <2>1 DEF SearchInv, Frontier, ClosedUnderEdges
<1> QED
  BY <1>1, SearchInvariance, PTL


-----------------------------------------------------------------------------
(***************************************************************************)
(* CheckFlow does not run the search: it takes the last level of a         *)
(* fixpoint.  The levels grow by at least a name until no edge leaves one, *)
(* so the last of as many levels as there are names is closed.             *)
(***************************************************************************)
Grown(fl, S) == S \cup UNION {Successors(StepAt(fl, s)) : s \in S}

IsLevels(level, fl, entry, k) ==
  level = [n \in 0 .. k |-> IF n = 0 THEN {entry} ELSE Grown(fl, level[n - 1])]

(* A set of natural numbers that is not empty has a least element.         *)
LEMMA LeastNatural ==
  ASSUME NEW T \in SUBSET Nat, T # {}
  PROVE  \E i \in T : \A j \in T : i <= j
<1>1. PICK i \in T : \A j \in T : ~ (<<j, i>> \in OpToRel(<, Nat))
  BY NatLessThanWellFounded, WFMin
<1>2. \A j \in T : ~ (j < i)
  BY <1>1 DEF OpToRel
<1> QED
  BY <1>2

(* The recursion that defines the levels has a solution.                   *)
LEMMA LevelsExist ==
  ASSUME NEW fl, NEW entry, NEW k \in Nat
  PROVE  \E level : IsLevels(level, fl, entry, k)
<1> DEFINE T == {n \in Nat : ~ \E level : IsLevels(level, fl, entry, n)}
<1> SUFFICES ASSUME T # {} PROVE FALSE
  OBVIOUS
<1>1. PICK n \in T : \A j \in T : n <= j
  <2> T \in SUBSET Nat
    OBVIOUS
  <2> HIDE DEF T
  <2> QED
    BY LeastNatural
<1>2. CASE n = 0
  <2>1. IsLevels([i \in 0 .. 0 |-> {entry}], fl, entry, 0)
    BY DEF IsLevels
  <2> QED
    BY <1>1, <1>2, <2>1
<1>3. CASE n # 0
  <2>1. n - 1 \in Nat /\ n \in Nat /\ n - 1 \notin T
    BY <1>1, <1>3
  <2>2. PICK low : IsLevels(low, fl, entry, n - 1)
    BY <2>1
  <2> DEFINE level == [i \in 0 .. n |-> IF i = n THEN Grown(fl, low[n - 1]) ELSE low[i]]
  <2>3. \A i \in 0 .. n - 1 : low[i] = IF i = 0 THEN {entry} ELSE Grown(fl, low[i - 1])
    BY <2>2 DEF IsLevels
  <2>4. \A i \in 0 .. n :
          level[i] = IF i = 0 THEN {entry} ELSE Grown(fl, level[i - 1])
    <3>1. level[n] = Grown(fl, low[n - 1]) /\ level[n - 1] = low[n - 1]
      BY <2>1
    <3>2. \A i \in 0 .. n - 1 :
            level[i] = low[i] /\ (i # 0 => level[i - 1] = low[i - 1])
      BY <2>1
    <3> HIDE DEF level
    <3>3. \A i \in 0 .. n - 1 :
            level[i] = IF i = 0 THEN {entry} ELSE Grown(fl, level[i - 1])
      BY <2>3, <3>2
    <3>4. level[n] = IF n = 0 THEN {entry} ELSE Grown(fl, level[n - 1])
      BY <1>3, <3>1
    <3>5. \A i \in 0 .. n : i \in 0 .. n - 1 \/ i = n
      BY <2>1
    <3> QED
      BY <3>3, <3>4, <3>5
  <2>5. IsLevels(level, fl, entry, n)
    BY <2>4 DEF IsLevels
  <2> QED
    BY <1>1, <2>5
<1> QED
  BY <1>2, <1>3

LEMMA ReachableIsLevel ==
  ASSUME NEW fl, NEW entry, NEW k \in Nat, Cardinality(DOMAIN fl \cup Targeted(fl)) = k
  PROVE  \E level : IsLevels(level, fl, entry, k) /\ Reachable(fl, entry) = level[k]
<1> DEFINE level == CHOOSE level : IsLevels(level, fl, entry, k)
<1>1. IsLevels(level, fl, entry, k)
  BY LevelsExist, Zenon
<1>2. Reachable(fl, entry) = level[k]
  BY DEF Reachable, IsLevels, Grown
<1> QED
  BY <1>1, <1>2

(* The levels of a finite flow lie in every closed set around the entry,   *)
(* and the last one is closed.                                             *)
LEMMA LevelsAreLeast ==
  ASSUME NEW fl, NEW entry, NEW k \in Nat, NEW level, IsLevels(level, fl, entry, k),
         NEW S, entry \in S, ClosedUnderEdges(fl, S), NEW n \in 0 .. k
  PROVE  level[n] \subseteq S
<1> DEFINE T == {i \in 0 .. k : ~ (level[i] \subseteq S)}
<1> SUFFICES ASSUME T # {} PROVE FALSE
  OBVIOUS
<1>1. PICK i \in T : \A j \in T : i <= j
  <2> T \in SUBSET Nat
    OBVIOUS
  <2> HIDE DEF T
  <2> QED
    BY LeastNatural
<1>2. level[i] = IF i = 0 THEN {entry} ELSE Grown(fl, level[i - 1])
  BY DEF IsLevels
<1>3. i # 0
  BY <1>2
<1>4. level[i - 1] \subseteq S
  <2>1. i - 1 \in 0 .. k /\ i - 1 \notin T
    BY <1>1, <1>3
  <2> QED
    BY <2>1
<1>5. Grown(fl, level[i - 1]) \subseteq S
  BY <1>4 DEF Grown, ClosedUnderEdges
<1> QED
  BY <1>2, <1>3, <1>5

LEMMA LastLevelIsClosed ==
  ASSUME NEW fl, NEW entry, NEW names, IsFiniteSet(names), entry \in names,
         ClosedUnderEdges(fl, names), NEW level,
         IsLevels(level, fl, entry, Cardinality(names))
  PROVE  /\ level[Cardinality(names)] \subseteq names
         /\ entry \in level[Cardinality(names)]
         /\ ClosedUnderEdges(fl, level[Cardinality(names)])
<1> DEFINE k == Cardinality(names)
           T == {i \in 0 .. k : ~ (/\ entry \in level[i]
                                   /\ \/ ClosedUnderEdges(fl, level[i])
                                      \/ Cardinality(level[i]) > i)}
<1>1. k \in Nat
  BY FS_CardinalityType
<1>2. \A i \in 0 .. k : level[i] \subseteq names
  BY <1>1, LevelsAreLeast
<1>3. \A i \in 0 .. k : level[i] = IF i = 0 THEN {entry} ELSE Grown(fl, level[i - 1])
  BY DEF IsLevels
<1>4. \A i \in 0 .. k : IsFiniteSet(level[i]) /\ Cardinality(level[i]) \in Nat
                        /\ Cardinality(level[i]) <= k
  BY <1>2, FS_Subset, FS_CardinalityType
<1>5. T = {}
  <2> SUFFICES ASSUME T # {} PROVE FALSE
    OBVIOUS
  <2>1. PICK i \in T : \A j \in T : i <= j
    <3> T \in SUBSET Nat
      BY <1>1
    <3> HIDE DEF T
    <3> QED
      BY LeastNatural
  <2>2. i # 0
    <3>1. level[0] = {entry}
      BY <1>1, <1>3
    <3>2. Cardinality({entry}) = 1
      BY FS_Singleton
    <3> QED
      BY <3>1, <3>2
  <2> DEFINE low == level[i - 1]
  <2>3. /\ i - 1 \in 0 .. k /\ i \in 0 .. k /\ level[i] = Grown(fl, low)
        /\ entry \in low /\ (ClosedUnderEdges(fl, low) \/ Cardinality(low) > i - 1)
    <3>1. i - 1 \in 0 .. k /\ i \in 0 .. k /\ i - 1 \notin T
      BY <1>1, <2>1, <2>2
    <3> QED
      BY <1>3, <2>2, <3>1
  <2>4. low \subseteq level[i] /\ entry \in level[i]
    <3> HIDE DEF low, T
    <3> QED
      BY <2>3 DEF Grown
  <2>5. CASE ClosedUnderEdges(fl, low)
    <3>1. level[i] = low
      BY <2>3, <2>5 DEF Grown, ClosedUnderEdges
    <3> QED
      BY <2>1, <2>4, <2>5, <3>1
  <2>6. CASE ~ ClosedUnderEdges(fl, low)
    <3>1. Cardinality(low) > i - 1 /\ level[i] # low
      BY <2>3, <2>6 DEF Grown, ClosedUnderEdges
    <3>2. Cardinality(low) < Cardinality(level[i])
      <4>1. IsFiniteSet(level[i]) /\ Cardinality(level[i]) \in Nat /\ Cardinality(low) \in Nat
        BY <1>4, <2>3
      <4> HIDE DEF low
      <4>2. Cardinality(low) <= Cardinality(level[i])
            /\ (Cardinality(level[i]) = Cardinality(low) => level[i] = low)
        BY <2>4, <4>1, FS_Subset
      <4> QED
        BY <3>1, <4>1, <4>2
    <3>3. Cardinality(level[i]) > i
      <4>1. Cardinality(level[i]) \in Nat /\ Cardinality(low) \in Nat /\ i \in Nat
        BY <1>1, <1>4, <2>3
      <4> HIDE DEF low
      <4> QED
        BY <3>1, <3>2, <4>1
    <3> QED
      BY <2>1, <2>4, <3>3
  <2> QED
    BY <2>5, <2>6
<1>6. k \in 0 .. k /\ k \notin T
  BY <1>1, <1>5
<1>7. ~ (Cardinality(level[k]) > k)
  BY <1>1, <1>4
<1> QED
  BY <1>2, <1>6, <1>7

(* What CheckFlow computes is the least set around the entry step that no  *)
(* edge leaves, for every finite flow.                                     *)
LEMMA FixpointIsLeast ==
  ASSUME NEW fl \in FlowFamily
  PROVE  /\ EntryStep(fl) \in Reachable(fl, EntryStep(fl))
         /\ Reachable(fl, EntryStep(fl)) \subseteq DOMAIN fl \cup Targeted(fl)
         /\ ClosedUnderEdges(fl, Reachable(fl, EntryStep(fl)))
         /\ \A S : EntryStep(fl) \in S /\ ClosedUnderEdges(fl, S)
                     => Reachable(fl, EntryStep(fl)) \subseteq S
<1> DEFINE entry == EntryStep(fl)
           names == DOMAIN fl \cup Targeted(fl)
           k == Cardinality(names)
<1>1. entry \in DOMAIN fl /\ EntrySteps(fl) = {entry}
  BY FlowsHaveEntry DEF EntryStep, HasEntryStep
<1>2. IsFiniteSet(names)
  <2>1. names = Targeted(fl) \cup {entry}
    BY <1>1 DEF EntrySteps
  <2>2. IsFiniteSet(Targeted(fl))
    BY FlowsAreFinite
  <2> HIDE DEF names, entry
  <2> QED
    BY <2>1, <2>2, FS_AddElement
<1>3. ClosedUnderEdges(fl, names)
  BY DEF ClosedUnderEdges, StepAt, ZeroStep, Successors, GotoTargets, StatusMapTargets,
         Targeted
<1>4. k \in Nat
  BY <1>2, FS_CardinalityType
<1>5. PICK level : IsLevels(level, fl, entry, k) /\ Reachable(fl, entry) = level[k]
  BY <1>4, ReachableIsLevel
<1>6. entry \in names
  BY <1>1
<1> HIDE DEF names, entry
<1>7. /\ level[k] \subseteq names /\ entry \in level[k] /\ ClosedUnderEdges(fl, level[k])
  BY <1>2, <1>3, <1>5, <1>6, LastLevelIsClosed
<1>8. \A S : entry \in S /\ ClosedUnderEdges(fl, S) => level[k] \subseteq S
  <2> HIDE DEF k
  <2> k \in 0 .. k
    BY <1>4
  <2> QED
    BY <1>4, <1>5, LevelsAreLeast
<1> QED
  BY <1>5, <1>7, <1>8 DEF names, entry

(* The search of checkFlows, in whatever order it expands its queue, marks *)
(* the steps that the fixpoint of CheckFlow holds, and no other.           *)
THEOREM SearchIsFixpoint == Spec => []FixpointIsSearch
<1>1. SearchInv => FixpointIsSearch
  <2> SUFFICES ASSUME SearchInv, queue = <<>>
               PROVE  reachable = Reachable(flow, EntryStep(flow))
    BY DEF FixpointIsSearch
  <2> DEFINE fixpoint == Reachable(flow, EntryStep(flow))
  <2>1. /\ EntryStep(flow) \in fixpoint /\ fixpoint \subseteq Names
        /\ ClosedUnderEdges(flow, fixpoint)
        /\ \A S : EntryStep(flow) \in S /\ ClosedUnderEdges(flow, S) => fixpoint \subseteq S
    BY FixpointIsLeast DEF SearchInv, Names
  <2>2. Queued = {}
    BY DEF Queued
  <2>3. EntryStep(flow) \in reachable /\ ClosedUnderEdges(flow, reachable)
    BY <2>2 DEF SearchInv, Frontier, ClosedUnderEdges
  <2> HIDE DEF fixpoint
  <2>4. reachable \subseteq fixpoint
    BY <2>1 DEF SearchInv, NothingExtra
  <2> QED
    BY <2>1, <2>3, <2>4 DEF fixpoint
<1> QED
  BY <1>1, SearchInvariance, PTL
=============================================================================
