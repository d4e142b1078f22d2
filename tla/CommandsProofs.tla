--------------------------- MODULE CommandsProofs ---------------------------
(***************************************************************************)
(* Theorems about the commands for every set of repositories and every     *)
(* set of command lines, whatever the interpreter makes of a cassette.     *)
(* They follow from one inductive invariant that says, at each point of    *)
(* the three loops, which cassettes have a line, which have a result that  *)
(* waits for its line, and which are still to be run.                      *)
(***************************************************************************)
EXTENDS CommandContract, WellFoundedInduction, SequenceTheorems, TLAPS

Replays == command.name \in {"replay", "conformance-integrator"}
Inside == at \in {"run", "judge"}
Walking == at = "walk" \/ Inside

(* The slices the loops append to.                                         *)
IsSlice(s) == \E S : s \in Seq(S)
Slices == IsSlice(results) /\ IsSlice(report)

(* What is at hand at each point: a directory is being replayed only when  *)
(* it loads and is one the command has to replay.                          *)
Placed ==
  /\ repo \in Repositories
  /\ at \in {"main", "walk", "run", "judge", "exited"}
  /\ at = "main" => dirs = {} /\ report = <<>> /\ ~ failed /\ ~ checkedAny
  /\ ~ Inside => names = {} /\ results = <<>>
  /\ at = "judge" => names = {}
  /\ Walking => Replays /\ (command.name # "replay" => repo.providers # Nil)
  /\ Walking => dirs \subseteq (IF command.name = "replay" THEN {Target}
                                ELSE DOMAIN repo.providers)
  /\ Walking /\ command.name = "replay" => Subjects = {Target}
  /\ Inside => dir \in Subjects /\ dir \notin dirs /\ Loads(dir)
  /\ names \subseteq CassetteFiles(Current)
  /\ \A k \in DOMAIN results : results[k].cassette \in CassetteFiles(Current)
  /\ checkedAny => Subjects # {}

(* The exit status is the one the loops have come to.                      *)
Concluded ==
  /\ at = "exited" /\ checkedAny => dirs = {} /\ Replays
  /\ at = "exited" /\ exit = 0 /\ Replays =>
       (command.name = "replay" /\ Subjects = {}) \/ (checkedAny /\ dirs = {} /\ ~ failed)

(* No cassette is lost on its way from the directory to the report.        *)
Reported(p, n) == \E i \in LinesOf(p) : report[i].cassette = n
Waiting(n) == n \in names \/ \E k \in DOMAIN results : results[k].cassette = n
Covered ==
  Walking \/ checkedAny =>
    \A p \in Subjects :
      \/ p \in dirs
      \/ ~ Loads(p) /\ failed
      \/ Loads(p) /\ \A n \in CassetteFiles(Directory(repo, p)) :
                       Reported(p, n) \/ (Inside /\ p = dir /\ Waiting(n))

(* A line that passes shows what it should, and one that does not is not   *)
(* forgotten.                                                              *)
Judged ==
  \A i \in DOMAIN report :
    /\ report[i].ok => Shows(report[i].dir, report[i].cassette, report[i].result)
    /\ ~ failed => report[i].ok

(* The lines of a directory are in the order of its cassettes, before the  *)
(* results, which are before the names.                                    *)
Before(m, n) == Rank[m] < Rank[n]
Ordered ==
  /\ \A i \in DOMAIN report :
       /\ report[i].dir \notin dirs
       /\ report[i].cassette \in CassetteFiles(Directory(repo, report[i].dir))
  /\ \A i, j \in DOMAIN report :
       i < j /\ report[i].dir = report[j].dir => Before(report[i].cassette, report[j].cassette)
  /\ \A i, j \in DOMAIN results : i < j => Before(results[i].cassette, results[j].cassette)
  /\ \A i \in DOMAIN results : \A n \in names : Before(results[i].cassette, n)
  /\ Inside => \A i \in LinesOf(dir) :
       /\ \A k \in DOMAIN results : Before(report[i].cassette, results[k].cassette)
       /\ \A n \in names : Before(report[i].cassette, n)

(* The interpreter is at work only for the first of the names.             *)
Resting == pc # "idle" => at = "run" /\ names # {}

CommandInv == Slices /\ Placed /\ Concluded /\ Covered /\ Judged /\ Ordered

-----------------------------------------------------------------------------
(* A set of natural numbers that is not empty has a least element.         *)
LEMMA LeastRank ==
  ASSUME NEW T \in SUBSET Nat, T # {}
  PROVE  \E i \in T : \A j \in T : i <= j
<1>1. PICK i \in T : \A j \in T : ~ (<<j, i>> \in OpToRel(<, Nat))
  BY NatLessThanWellFounded, WFMin
<1>2. \A j \in T : ~ (j < i)
  BY <1>1 DEF OpToRel
<1> QED
  BY <1>2

(* The first of some ranked names is one of them and before the others.    *)
LEMMA FirstIsFirst ==
  ASSUME NEW names0, names0 # {}, names0 \subseteq DOMAIN Rank
  PROVE  /\ First(names0) \in names0
         /\ \A n \in names0 \ {First(names0)} : Rank[First(names0)] < Rank[n]
<1> DEFINE R == {Rank[n] : n \in names0}
<1>1. R \in SUBSET Nat /\ R # {}
  BY RanksAreDistinct
<1>2. PICK i \in R : \A j \in R : i <= j
  <2> HIDE DEF R
  <2> QED BY <1>1, LeastRank
<1>3. PICK n \in names0 : Rank[n] = i
  BY <1>2
<1>4. \A m \in names0 \ {n} : Rank[n] < Rank[m]
  BY <1>2, <1>3, RanksAreDistinct
<1> QED
  BY <1>4 DEF First

(* A name alone is the first.                                              *)
LEMMA FirstOfOne == ASSUME NEW n PROVE First({n}) = n
  BY DEF First

(* What append does to a slice.                                            *)
LEMMA SliceAppend ==
  ASSUME NEW s, IsSlice(s), NEW e
  PROVE  /\ IsSlice(Append(s, e)) /\ Len(s) \in Nat /\ DOMAIN s = 1 .. Len(s)
         /\ DOMAIN Append(s, e) = 1 .. Len(s) + 1
         /\ \A i \in DOMAIN s : Append(s, e)[i] = s[i]
         /\ Append(s, e)[Len(s) + 1] = e
<1>1. PICK S : s \in Seq(S)
  BY DEF IsSlice
<1>2. s \in Seq(S \cup {e})
  BY <1>1
<1>3. Append(s, e) \in Seq(S \cup {e})
  BY <1>2
<1> QED
  BY <1>2, <1>3 DEF IsSlice

(* What it leaves when the first element is taken off.                     *)
LEMMA SliceTail ==
  ASSUME NEW s, IsSlice(s), s # <<>>
  PROVE  /\ IsSlice(Tail(s)) /\ Len(s) \in Nat \ {0} /\ DOMAIN s = 1 .. Len(s)
         /\ DOMAIN Tail(s) = 1 .. Len(s) - 1
         /\ \A i \in DOMAIN Tail(s) : Tail(s)[i] = s[i + 1]
         /\ Head(s) = s[1]
<1>1. PICK S : s \in Seq(S)
  BY DEF IsSlice
<1>2. Tail(s) \in Seq(S)
  BY <1>1
<1> QED
  BY <1>1, <1>2 DEF IsSlice

-----------------------------------------------------------------------------
LEMMA InitInv == CommandInit => CommandInv
<1> SUFFICES ASSUME CommandInit PROVE CommandInv
  OBVIOUS
<1>0. report = <<>> /\ results = <<>>
  BY DEF CommandInit
<1>1. IsSlice(<<>>)
  BY DEF IsSlice
<1>2. Slices
  BY <1>1 DEF CommandInit, Slices
<1>3. Placed
  <2>1. \A k \in DOMAIN results : FALSE
    BY <1>0
  <2> QED
    BY <2>1, Zenon DEF CommandInit, Placed, Inside, Walking
<1>4. Concluded /\ Covered
  BY DEF CommandInit, Concluded, Covered, Inside, Walking
<1>5. Judged /\ Ordered
  <2>1. (\A i \in DOMAIN report : FALSE) /\ (\A i \in DOMAIN results : FALSE)
    BY <1>0
  <2> QED
    BY <2>1, Zenon DEF CommandInit, Judged, Ordered, LinesOf, Inside
<1> QED
  BY <1>2, <1>3, <1>4, <1>5 DEF CommandInv

(* What a command has to replay is settled by what it was given.           *)
LEMMA SameSubjects == UNCHANGED <<repo, command>> => Subjects' = Subjects
<1> SUFFICES ASSUME UNCHANGED <<repo, command>> PROVE Subjects' = Subjects
  OBVIOUS
<1>1. Target' = Target
  BY DEF Target
<1> QED
  BY <1>1 DEF Subjects

(* The interpreter's steps are none of the commands' own.                  *)
LEMMA StutterInv == CommandInv /\ UNCHANGED commandVars => CommandInv'
<1> SUFFICES ASSUME CommandInv, UNCHANGED commandVars PROVE CommandInv'
  OBVIOUS
<1>1. UNCHANGED <<repo, command, at, dirs, dir, names, results, report, failed, checkedAny,
                  exit>>
  BY DEF commandVars
<1>2. Subjects' = Subjects /\ Replays' = Replays /\ Inside' = Inside /\ Walking' = Walking
  BY <1>1, SameSubjects DEF Replays, Inside, Walking
<1>3. Slices' /\ Judged'
  BY <1>1 DEF CommandInv, Slices, Judged, Shows, Golden
<1>4. Placed'
  BY <1>1, <1>2 DEF CommandInv, Placed, Current, Loads, Target
<1>5. Concluded'
  BY <1>1, <1>2 DEF CommandInv, Concluded
<1>6. Covered'
  BY <1>1, <1>2 DEF CommandInv, Covered, Loads, Reported, Waiting, LinesOf
<1>7. Ordered'
  BY <1>1, <1>2 DEF CommandInv, Ordered, LinesOf
<1> QED
  BY <1>3, <1>4, <1>5, <1>6, <1>7 DEF CommandInv

(* A command that ends at once.                                            *)
LEMMA AtOnceInv == CommandInv /\ (Main \/ Validate \/ RunLint \/ RunCatalog \/ ReplayNothing)
                   => CommandInv'
<1> SUFFICES ASSUME CommandInv, Main \/ Validate \/ RunLint \/ RunCatalog \/ ReplayNothing
             PROVE  CommandInv'
  OBVIOUS
<1>1. at = "main" /\ at' = "exited"
      /\ UNCHANGED <<repo, command, dirs, dir, names, results, report, failed, checkedAny>>
  BY DEF Main, Validate, RunLint, RunCatalog, ReplayNothing, Exit
<1>2. exit' = 0 /\ Replays => command.name = "replay" /\ Subjects = {}
  <2>1. CASE Main \/ Validate \/ RunLint \/ RunCatalog
    <3>1. \/ command.name \notin {"replay", "conformance-integrator"}
          \/ command.name \in {"validate", "lint", "catalog"}
      BY <2>1 DEF Main, Validate, RunLint, RunCatalog
    <3> QED
      BY <3>1 DEF Replays
  <2>2. CASE ReplayNothing
    <3>1. command.name = "replay" /\ (IsNativeProvider(Directory(repo, Target)) \/ exit' = 1)
      BY <2>2 DEF ReplayNothing, Exit
    <3> QED
      BY <3>1 DEF Subjects
  <2> QED
    BY <2>1, <2>2
<1>3. Slices' /\ Judged'
  BY <1>1 DEF CommandInv, Slices, Judged, Shows, Golden
<1>4. Subjects' = Subjects
  BY <1>1, SameSubjects
<1>5. Placed'
  BY <1>1, <1>4 DEF CommandInv, Placed, Inside, Walking, Current
<1>6. Concluded' /\ Covered'
  BY <1>1, <1>2, <1>4 DEF CommandInv, Placed, Concluded, Covered, Inside, Walking, Replays
<1>7. Ordered'
  BY <1>1 DEF CommandInv, Placed, Ordered, LinesOf, Inside
<1> QED
  BY <1>3, <1>5, <1>6, <1>7 DEF CommandInv

-----------------------------------------------------------------------------
(* What the conformance command replays, spelled out.                      *)
LEMMA ConformanceSubjects ==
  ASSUME command.name # "replay", repo.providers # Nil
  PROVE  Subjects = {p \in DOMAIN repo.providers :
                       IsProvider(Directory(repo, p)) /\ ~ IsNativeProvider(Directory(repo, p))}
  BY DEF Subjects, Providers, Directory

(* A command that sets out on its directories.                             *)
LEMMA BeginInv == CommandInv /\ (Replay \/ Conformance) => CommandInv'
<1> SUFFICES ASSUME CommandInv, Replay \/ Conformance PROVE CommandInv'
  OBVIOUS
<1> DEFINE Visited == IF command.name = "replay" THEN {Target} ELSE DOMAIN repo.providers
<1>1. /\ at = "main" /\ Replays
      /\ UNCHANGED <<repo, command, names, results, report, failed, checkedAny>>
      /\ \/ /\ at' = "walk" /\ dirs' = Visited
            /\ command.name # "replay" => repo.providers # Nil
            /\ command.name = "replay" => ~ IsNativeProvider(Directory(repo, Target))
         \/ at' = "exited" /\ exit' = 1 /\ dirs' = dirs
  <2>1. CASE Replay
    BY <2>1 DEF Replay, Begin, Replays
  <2>2. CASE Conformance
    <3>1. command.name = "conformance-integrator" /\ at = "main"
      BY <2>2 DEF Conformance
    <3> QED
      BY <2>2, <3>1 DEF Conformance, Begin, Exit, Replays
  <2> QED
    BY <2>1, <2>2
<1>2. Subjects' = Subjects /\ Replays' = Replays /\ Target' = Target
  BY <1>1, SameSubjects DEF Replays, Target
<1>3. names = {} /\ results = <<>> /\ report = <<>> /\ ~ failed /\ ~ checkedAny
  BY <1>1 DEF CommandInv, Placed, Inside
<1>4. command.name = "replay" /\ at' = "walk" => Subjects = {Target}
  BY <1>1 DEF Subjects
<1>5. at' = "walk" => Subjects \subseteq Visited
  BY <1>1, <1>4, ConformanceSubjects
<1>6. Slices'
  BY <1>1 DEF CommandInv, Slices
<1>7. (\A i \in DOMAIN report' : FALSE) /\ (\A k \in DOMAIN results' : FALSE)
  BY <1>1, <1>3
<1>8. Placed'
  BY <1>1, <1>2, <1>3, <1>4, <1>7, Zenon DEF CommandInv, Placed, Inside, Walking
<1>9. Concluded' /\ Covered'
  <2>1. at' = "walk" \/ exit' # 0
    BY <1>1
  <2>2. Concluded'
    BY <1>1, <1>3, <2>1, Zenon DEF Concluded
  <2>3. Covered'
    BY <1>1, <1>2, <1>3, <1>5, Zenon DEF Covered, Inside, Walking
  <2> QED
    BY <2>2, <2>3
<1>10. Judged' /\ Ordered'
  BY <1>1, <1>3, <1>7, Zenon DEF Judged, Ordered, LinesOf, Inside
<1> QED
  BY <1>6, <1>8, <1>9, <1>10 DEF CommandInv

(* A directory that is passed over is none the command has to replay.      *)
LEMMA SkipInv == CommandInv /\ Skip => CommandInv'
<1> SUFFICES ASSUME CommandInv, Skip PROVE CommandInv'
  OBVIOUS
<1>1. /\ at = "walk" /\ at' = "walk" /\ dirs' = dirs \ {First(dirs)} /\ Skipped(First(dirs))
      /\ UNCHANGED <<repo, command, dir, names, results, report, failed, checkedAny>>
  BY DEF Skip
<1>2. Subjects' = Subjects /\ Replays' = Replays /\ Target' = Target
  BY <1>1, SameSubjects DEF Replays, Target
<1>3. First(dirs) \notin Subjects
  BY <1>1, ConformanceSubjects DEF CommandInv, Placed, Walking, Skipped
<1>4. Slices' /\ Judged'
  BY <1>1 DEF CommandInv, Slices, Judged, Shows, Golden
<1>5. Placed'
  BY <1>1, <1>2 DEF CommandInv, Placed, Inside, Walking, Current
<1>6. Concluded' /\ Covered'
  BY <1>1, <1>2, <1>3 DEF CommandInv, Concluded, Covered, Inside, Walking, Loads, Reported,
     LinesOf
<1>7. Ordered'
  BY <1>1 DEF CommandInv, Ordered, Inside, LinesOf
<1> QED
  BY <1>4, <1>5, <1>6, <1>7 DEF CommandInv

(* Every cassette of a directory has a place in the order of names.        *)
LEMMA RankedFiles ==
  ASSUME NEW r \in Repositories, NEW p
  PROVE  CassetteFiles(Directory(r, p)) \subseteq DOMAIN Rank
<1>1. CASE r.providers # Nil /\ p \in DOMAIN r.providers
  BY <1>1, NamesAreRanked DEF Directory
<1>2. CASE ~ (r.providers # Nil /\ p \in DOMAIN r.providers)
  <2>1. Directory(r, p) = Absent /\ Absent.cassettes = Nil
    BY <1>2, Zenon DEF Directory, Absent
  <2> QED
    BY <2>1 DEF CassetteFiles
<1> QED
  BY <1>1, <1>2

(* A directory is opened only if it is one the command has to replay, and  *)
(* one that does not load is a failure.                                    *)
LEMMA OpenInv == CommandInv /\ Open => CommandInv'
<1> SUFFICES ASSUME CommandInv, Open PROVE CommandInv'
  OBVIOUS
<1> DEFINE d == First(dirs)
<1>1. /\ at = "walk" /\ dirs # {} /\ dirs' = dirs \ {d} /\ ~ Skipped(d) /\ checkedAny'
      /\ \/ /\ Loads(d) /\ at' = "run" /\ dir' = d /\ failed' = failed
            /\ names' = DOMAIN LoadCassettes(Directory(repo, d))
         \/ ~ Loads(d) /\ failed' /\ at' = at /\ dir' = dir /\ names' = names
      /\ UNCHANGED <<repo, command, results, report>>
  BY DEF Open
<1>2. Subjects' = Subjects /\ Replays' = Replays /\ Target' = Target
  BY <1>1, SameSubjects DEF Replays, Target
<1>3. d \in dirs
  <2>1. CASE command.name = "replay"
    <3>1. dirs = {Target}
      BY <1>1, <2>1 DEF CommandInv, Placed, Walking
    <3> QED
      BY <3>1, FirstOfOne
  <2>2. CASE command.name # "replay"
    <3>1. dirs \subseteq DOMAIN Rank
      BY <1>1, <2>2, NamesAreRanked DEF CommandInv, Placed, Walking
    <3> QED
      BY <1>1, <3>1, FirstIsFirst
  <2> QED
    BY <2>1, <2>2
<1>4. d \in Subjects
  <2>1. CASE command.name = "replay"
    BY <1>1, <1>3, <2>1 DEF CommandInv, Placed, Walking
  <2>2. CASE command.name # "replay"
    BY <1>1, <1>3, <2>2, ConformanceSubjects DEF CommandInv, Placed, Walking, Skipped
  <2> QED
    BY <2>1, <2>2
<1>5. at' = "run" => names' = CassetteFiles(Directory(repo, d))
  BY <1>1 DEF LoadCassettes, Loads
<1>6. names = {} /\ results = <<>> /\ (\A k \in DOMAIN results : FALSE)
  BY <1>1 DEF CommandInv, Placed, Inside
<1>7. Slices'
  BY <1>1 DEF CommandInv, Slices
<1>8. Placed'
  <2>1. \A k \in DOMAIN results' : FALSE
    BY <1>1, <1>6
  <2> QED
    BY <1>1, <1>2, <1>3, <1>4, <1>5, <1>6, <2>1
    DEF CommandInv, Placed, Inside, Walking, Current, Loads
<1>9. Concluded' /\ Covered'
  BY <1>1, <1>2, <1>3, <1>5, <1>6
  DEF CommandInv, Concluded, Covered, Inside, Walking, Loads, Reported, Waiting, LinesOf
<1>10. Judged'
  <2>1. (~ failed' => ~ failed) /\ UNCHANGED <<repo, command, report>>
    BY <1>1
  <2> QED
    BY <2>1, Zenon DEF CommandInv, Judged, Shows, Golden
<1>11. Ordered'
  BY <1>1, <1>3, <1>6 DEF CommandInv, Ordered, Inside, LinesOf
<1> QED
  BY <1>7, <1>8, <1>9, <1>10, <1>11 DEF CommandInv

(* A run that comes back leaves its result behind the earlier ones, and no *)
(* other name is taken off the list.                                       *)
LEMMA CollectInv == CommandInv /\ Resting /\ Collect => CommandInv'
<1> SUFFICES ASSUME CommandInv, Resting, Collect PROVE CommandInv'
  OBVIOUS
<1> DEFINE n == First(names)
<1> DEFINE r == [cassette |-> n, result |-> Outcome]
<1>1. /\ at = "run" /\ names' = names \ {n} /\ results' = Append(results, r)
      /\ UNCHANGED <<repo, command, at, dirs, dir, report, failed, checkedAny, exit>>
  BY DEF Collect
<1>2. names # {}
  BY DEF Collect, Resting
<1>3. Subjects' = Subjects /\ Replays' = Replays /\ Target' = Target /\ Inside' = Inside
  BY <1>1, SameSubjects DEF Replays, Target, Inside
<1>4. n \in names /\ \A m \in names \ {n} : Before(n, m)
  <2>1. CassetteFiles(Current) \subseteq DOMAIN Rank
    BY RankedFiles DEF CommandInv, Placed, Current
  <2>2. names \subseteq DOMAIN Rank
    BY <2>1 DEF CommandInv, Placed
  <2> QED
    BY <1>2, <2>2, FirstIsFirst DEF Before
<1>5. /\ IsSlice(results') /\ Len(results) \in Nat /\ DOMAIN results = 1 .. Len(results)
      /\ DOMAIN results' = 1 .. Len(results) + 1
      /\ \A k \in DOMAIN results : results'[k] = results[k]
      /\ results'[Len(results) + 1] = r
  BY <1>1, SliceAppend DEF CommandInv, Slices
<1>6. Slices'
  BY <1>1, <1>5 DEF CommandInv, Slices
<1>7. \A k \in DOMAIN results' : \/ k \in DOMAIN results /\ results'[k] = results[k]
                                 \/ k = Len(results) + 1 /\ results'[k].cassette = n
  BY <1>5
<1>8. Placed'
  BY <1>1, <1>3, <1>4, <1>7 DEF CommandInv, Placed, Walking, Inside, Current, Loads
<1>9. Concluded'
  BY <1>1, <1>3 DEF CommandInv, Concluded
<1>10. Covered'
  <2>1. \A m : Waiting(m) => Waiting(m)'
    BY <1>1, <1>5 DEF Waiting
  <2>2. \A p, m : Reported(p, m)' <=> Reported(p, m)
    BY <1>1 DEF Reported, LinesOf
  <2>3. \A p : Loads(p)' <=> Loads(p)
    BY <1>1 DEF Loads
  <2> QED
    BY <1>1, <1>3, <2>1, <2>2, <2>3 DEF CommandInv, Covered, Walking
<1>11. Judged'
  BY <1>1 DEF CommandInv, Judged, Shows, Golden
<1>12. Ordered'
  <2>1. \A i, j \in DOMAIN results' : i < j => Before(results'[i].cassette, results'[j].cassette)
    BY <1>4, <1>5, <1>7 DEF CommandInv, Ordered
  <2>2. \A i \in DOMAIN results' : \A m \in names' : Before(results'[i].cassette, m)
    BY <1>1, <1>4, <1>7 DEF CommandInv, Ordered
  <2>3. \A i \in LinesOf(dir) :
          /\ \A k \in DOMAIN results' : Before(report[i].cassette, results'[k].cassette)
          /\ \A m \in names' : Before(report[i].cassette, m)
    BY <1>1, <1>4, <1>7 DEF CommandInv, Ordered, Inside
  <2> QED
    BY <1>1, <2>1, <2>2, <2>3 DEF CommandInv, Ordered, LinesOf, Before
<1> QED
  BY <1>6, <1>8, <1>9, <1>10, <1>11, <1>12 DEF CommandInv

(* The moves between the loops.                                            *)
LEMMA CollectedInv == CommandInv /\ Collected => CommandInv'
<1> SUFFICES ASSUME CommandInv, Collected PROVE CommandInv'
  OBVIOUS
<1>1. /\ at = "run" /\ at' = "judge" /\ names = {}
      /\ UNCHANGED <<repo, command, dirs, dir, names, results, report, failed, checkedAny>>
  BY DEF Collected
<1>2. Subjects' = Subjects /\ Replays' = Replays /\ Target' = Target
  BY <1>1, SameSubjects DEF Replays, Target
<1>3. Slices' /\ Judged'
  BY <1>1 DEF CommandInv, Slices, Judged, Shows, Golden
<1>4. Placed'
  BY <1>1, <1>2 DEF CommandInv, Placed, Inside, Walking, Current, Loads
<1>5. Concluded' /\ Covered'
  BY <1>1, <1>2
  DEF CommandInv, Concluded, Covered, Inside, Walking, Loads, Reported, Waiting, LinesOf
<1>6. Ordered'
  BY <1>1 DEF CommandInv, Ordered, Inside, LinesOf, Before
<1> QED
  BY <1>3, <1>4, <1>5, <1>6 DEF CommandInv

(* A result becomes a line.                                                *)
LEMMA JudgeInv == CommandInv /\ Judge => CommandInv'
<1> SUFFICES ASSUME CommandInv, Judge PROVE CommandInv'
  OBVIOUS
<1> DEFINE r == Head(results)
<1>1. /\ at = "judge" /\ results # <<>> /\ results' = Tail(results)
      /\ report' = Append(report, Line(r)) /\ failed' = (failed \/ ~ Passes(r))
      /\ UNCHANGED <<repo, command, at, dirs, dir, names, checkedAny, exit>>
  BY DEF Judge
<1>2. Subjects' = Subjects /\ Replays' = Replays /\ Target' = Target /\ Inside' = Inside
  BY <1>1, SameSubjects DEF Replays, Target, Inside
<1>3. /\ IsSlice(results') /\ Len(results) \in Nat \ {0} /\ DOMAIN results = 1 .. Len(results)
      /\ DOMAIN results' = 1 .. Len(results) - 1
      /\ \A k \in DOMAIN results' : results'[k] = results[k + 1]
      /\ r = results[1]
  BY <1>1, SliceTail DEF CommandInv, Slices
<1> DEFINE l == Line(r)
<1> DEFINE last == Len(report) + 1
<1>4. /\ IsSlice(report') /\ Len(report) \in Nat /\ DOMAIN report = 1 .. Len(report)
      /\ DOMAIN report' = 1 .. last
      /\ \A i \in DOMAIN report : report'[i] = report[i]
      /\ report'[last] = l
  BY <1>1, SliceAppend DEF CommandInv, Slices
<1>5. /\ l.dir = dir /\ l.cassette = r.cassette /\ l.result = r.result
      /\ l.ok = Passes(r)
  BY DEF Line
<1>6. \A i \in DOMAIN report' : \/ i \in DOMAIN report /\ report'[i] = report[i]
                                \/ i = last /\ report'[i] = l
  BY <1>4
<1>7. Slices'
  BY <1>3, <1>4 DEF Slices
<1>8. r.cassette \in CassetteFiles(Current)
  BY <1>3 DEF CommandInv, Placed
<1>9. Placed'
  BY <1>1, <1>2, <1>3 DEF CommandInv, Placed, Walking, Inside, Current, Loads
<1>10. Concluded'
  BY <1>1 DEF Concluded
<1>11. Covered'
  <2>1. \A p, m : Reported(p, m) => Reported(p, m)'
    BY <1>4 DEF Reported, LinesOf
  <2>2. \A m : Waiting(m) => Waiting(m)' \/ Reported(dir, m)'
    <3> SUFFICES ASSUME NEW m, Waiting(m) PROVE Waiting(m)' \/ Reported(dir, m)'
      OBVIOUS
    <3>1. CASE m \in names
      BY <1>1, <3>1 DEF Waiting
    <3>2. CASE m = r.cassette
      <4>1. last \in DOMAIN report' /\ report'[last].dir = dir /\ report'[last].cassette = m
        BY <1>4, <1>5, <3>2
      <4> QED
        BY <1>1, <4>1 DEF Reported, LinesOf
    <3>3. ASSUME NEW k \in DOMAIN results, k # 1, results[k].cassette = m
          PROVE  Waiting(m)'
      <4>1. k - 1 \in DOMAIN results' /\ results'[k - 1] = results[k]
        BY <1>3, <3>3
      <4> QED
        BY <3>3, <4>1 DEF Waiting
    <3> QED
      BY <1>3, <3>1, <3>2, <3>3 DEF Waiting
  <2>3. \A p : Loads(p)' <=> Loads(p)
    BY <1>1 DEF Loads
  <2> QED
    BY <1>1, <1>2, <2>1, <2>2, <2>3 DEF CommandInv, Covered, Walking
<1>12. Judged'
  <2>1. Passes(r) <=> Shows(dir, r.cassette, r.result)
    BY DEF Passes, Shows, MatchesGolden, Current
  <2>2. \A p, m, x : Shows(p, m, x)' <=> Shows(p, m, x)
    BY <1>1 DEF Shows, Golden
  <2> QED
    BY <1>1, <1>5, <1>6, <2>1, <2>2 DEF CommandInv, Judged
<1>13. Ordered'
  <2>1. \A i \in LinesOf(dir) : Before(report[i].cassette, r.cassette)
    BY <1>1, <1>3 DEF CommandInv, Ordered, Inside
  <2>2. \A i, j \in DOMAIN report' :
          i < j /\ report'[i].dir = report'[j].dir
          => Before(report'[i].cassette, report'[j].cassette)
    BY <1>4, <1>5, <1>6, <2>1 DEF CommandInv, Ordered, LinesOf
  <2>3. \A k \in DOMAIN results' : Before(r.cassette, results'[k].cassette)
    BY <1>3 DEF CommandInv, Ordered
  <2>4. \A m \in names : Before(r.cassette, m)
    BY <1>3 DEF CommandInv, Ordered
  <2>5. \A i \in DOMAIN report' : i \in LinesOf(dir) \/ report'[i] = l \/ report'[i].dir # dir
    BY <1>6 DEF LinesOf
  <2>6. \A i \in LinesOf(dir)' :
          /\ \A k \in DOMAIN results' : Before(report'[i].cassette, results'[k].cassette)
          /\ \A m \in names' : Before(report'[i].cassette, m)
    BY <1>1, <1>3, <1>4, <1>5, <1>6, <2>3, <2>4, <2>5 DEF CommandInv, Ordered, LinesOf, Inside
  <2>7. \A i, j \in DOMAIN results' :
          i < j => Before(results'[i].cassette, results'[j].cassette)
    BY <1>3 DEF CommandInv, Ordered
  <2>8. \A i \in DOMAIN results' : \A m \in names' : Before(results'[i].cassette, m)
    BY <1>1, <1>3 DEF CommandInv, Ordered
  <2>9. \A i \in DOMAIN report' :
          /\ report'[i].dir \notin dirs'
          /\ report'[i].cassette \in CassetteFiles(Directory(repo', report'[i].dir))
    BY <1>1, <1>5, <1>6, <1>8 DEF CommandInv, Ordered, Placed, Inside, Current
  <2> QED
    BY <1>1, <2>2, <2>6, <2>7, <2>8, <2>9 DEF Ordered, Before
<1> QED
  BY <1>7, <1>9, <1>10, <1>11, <1>12, <1>13 DEF CommandInv

(* A directory is closed when nothing waits, and the command concludes     *)
(* when no directory is left.                                              *)
LEMMA CloseInv == CommandInv /\ Close => CommandInv'
<1> SUFFICES ASSUME CommandInv, Close PROVE CommandInv'
  OBVIOUS
<1>1. /\ at = "judge" /\ at' = "walk" /\ results = <<>> /\ dir' = ""
      /\ UNCHANGED <<repo, command, dirs, names, results, report, failed, checkedAny>>
  BY DEF Close
<1>2. Subjects' = Subjects /\ Replays' = Replays /\ Target' = Target
  BY <1>1, SameSubjects DEF Replays, Target
<1>3. names = {} /\ \A k \in DOMAIN results : FALSE
  <2>1. names = {}
    BY <1>1, Zenon DEF CommandInv, Placed
  <2>2. results = <<>>
    BY <1>1
  <2>3. \A k \in DOMAIN results : FALSE
    BY <2>2
  <2> QED
    BY <2>1, <2>3
<1>4. Slices' /\ Judged'
  BY <1>1 DEF CommandInv, Slices, Judged, Shows, Golden
<1>5. Placed'
  BY <1>1, <1>2, <1>3, Zenon DEF CommandInv, Placed, Inside, Walking
<1>6. Concluded'
  BY <1>1, <1>2 DEF CommandInv, Concluded
<1>7. Covered'
  <2>1. \A m : ~ Waiting(m)
    BY <1>3 DEF Waiting
  <2>2. \A p : Loads(p)' <=> Loads(p)
    BY <1>1 DEF Loads
  <2>3. \A p, m : Reported(p, m)' <=> Reported(p, m)
    BY <1>1 DEF Reported, LinesOf
  <2> QED
    BY <1>1, <1>2, <2>1, <2>2, <2>3 DEF CommandInv, Covered, Inside, Walking
<1>8. Ordered'
  BY <1>1, <1>3 DEF CommandInv, Ordered, Inside, LinesOf, Before
<1> QED
  BY <1>4, <1>5, <1>6, <1>7, <1>8 DEF CommandInv

LEMMA ConcludeInv == CommandInv /\ Conclude => CommandInv'
<1> SUFFICES ASSUME CommandInv, Conclude PROVE CommandInv'
  OBVIOUS
<1>1. /\ at = "walk" /\ at' = "exited" /\ dirs = {}
      /\ exit' = 0 => ~ failed /\ checkedAny
      /\ UNCHANGED <<repo, command, dirs, dir, names, results, report, failed, checkedAny>>
  BY DEF Conclude, Exit
<1>2. Subjects' = Subjects /\ Replays' = Replays /\ Target' = Target
  BY <1>1, SameSubjects DEF Replays, Target
<1>3. Slices' /\ Judged'
  BY <1>1 DEF CommandInv, Slices, Judged, Shows, Golden
<1>4. Placed'
  BY <1>1, <1>2 DEF CommandInv, Placed, Inside, Walking, Current
<1>5. Concluded'
  BY <1>1, <1>2 DEF CommandInv, Placed, Concluded, Walking
<1>6. Covered'
  BY <1>1, <1>2
  DEF CommandInv, Covered, Inside, Walking, Loads, Reported, Waiting, LinesOf
<1>7. Ordered'
  BY <1>1 DEF CommandInv, Ordered, Inside, LinesOf, Before
<1> QED
  BY <1>3, <1>4, <1>5, <1>6, <1>7 DEF CommandInv

(* No step of a command leaves a run behind, and a run of the interpreter  *)
(* changes nothing of the command.                                         *)
LEMMA RestingInv == CommandInv /\ Resting /\ [CommandNext]_allVars => Resting'
<1> SUFFICES ASSUME CommandInv, Resting, [CommandNext]_allVars PROVE Resting'
  OBVIOUS
<1>1. CASE Main \/ Validate \/ RunLint \/ RunCatalog \/ ReplayNothing
  <2>1. at = "main" /\ pc' = pc
    BY <1>1 DEF Main, Validate, RunLint, RunCatalog, ReplayNothing, Exit, runVars, vars
  <2> QED
    BY <2>1 DEF Resting
<1>2. CASE Replay \/ Conformance
  <2>1. at = "main" /\ pc' = pc
    BY <1>2 DEF Replay, Conformance, Begin, Exit, runVars, vars
  <2> QED
    BY <2>1 DEF Resting
<1>3. CASE Skip \/ Open \/ Conclude
  <2>1. at = "walk" /\ pc' = pc
    BY <1>3 DEF Skip, Open, Conclude, Exit, runVars, vars
  <2> QED
    BY <2>1 DEF Resting
<1>4. CASE Collected \/ Judge \/ Close
  <2>1. (at = "judge" \/ names = {}) /\ pc' = pc
    BY <1>4 DEF Collected, Judge, Close, runVars, vars
  <2> QED
    BY <2>1 DEF Resting
<1>5. CASE RunCassette
  BY <1>5 DEF RunCassette, Resting, commandVars
<1>6. CASE Interpret
  BY <1>6 DEF Interpret, Resting, commandVars
<1>7. CASE Collect
  BY <1>7 DEF Collect, Resting
<1>8. CASE Exited \/ UNCHANGED allVars
  BY <1>8 DEF Exited, Resting, allVars, runVars, vars, commandVars
<1> QED
  BY <1>1, <1>2, <1>3, <1>4, <1>5, <1>6, <1>7, <1>8 DEF CommandNext

LEMMA NextInv == CommandInv /\ Resting /\ [CommandNext]_allVars => CommandInv'
<1> SUFFICES ASSUME CommandInv, Resting, [CommandNext]_allVars PROVE CommandInv'
  OBVIOUS
<1>1. CASE Main \/ Validate \/ RunLint \/ RunCatalog \/ ReplayNothing
  BY <1>1, AtOnceInv
<1>2. CASE Replay \/ Conformance
  BY <1>2, BeginInv
<1>3. CASE Skip
  BY <1>3, SkipInv
<1>4. CASE Open
  BY <1>4, OpenInv
<1>5. CASE Collect
  BY <1>5, CollectInv
<1>6. CASE Collected
  BY <1>6, CollectedInv
<1>7. CASE Judge
  BY <1>7, JudgeInv
<1>8. CASE Close
  BY <1>8, CloseInv
<1>9. CASE Conclude
  BY <1>9, ConcludeInv
<1>10. CASE RunCassette \/ Interpret \/ Exited \/ UNCHANGED allVars
  BY <1>10, StutterInv DEF RunCassette, Interpret, Exited, allVars
<1> QED
  BY <1>1, <1>2, <1>3, <1>4, <1>5, <1>6, <1>7, <1>8, <1>9, <1>10 DEF CommandNext

-----------------------------------------------------------------------------
(* The inductive invariant of the three loops holds for every command over *)
(* every repository.                                                       *)
THEOREM CommandInvariance == CommandSpec => [](CommandInv /\ Resting)
<1>1. CommandInit => CommandInv /\ Resting
  BY InitInv DEF CommandInit, Resting
<1>2. CommandInv /\ Resting /\ [CommandNext]_allVars => (CommandInv /\ Resting)'
  BY NextInv, RestingInv
<1> QED
  BY <1>1, <1>2, PTL DEF CommandSpec

(* Exit status 0 of replay and of conformance-integrator is earned by      *)
(* every cassette of every directory they have to replay.                  *)
THEOREM EarnedExit == CommandSpec => []ExitIsEarned
<1>1. CommandInv => ExitIsEarned
  <2> SUFFICES ASSUME CommandInv, Succeeded, Replays, NEW p \in Subjects
               PROVE  /\ Loads(p)
                      /\ \A n \in CassetteFiles(Directory(repo, p)) :
                           \E i \in LinesOf(p) :
                             report[i].cassette = n /\ Shows(p, n, report[i].result)
    BY DEF ExitIsEarned, Replays
  <2>1. checkedAny /\ dirs = {} /\ ~ failed /\ ~ Inside
    BY DEF CommandInv, Concluded, Succeeded, Inside
  <2>2. Loads(p) /\ \A n \in CassetteFiles(Directory(repo, p)) : Reported(p, n)
    BY <2>1 DEF CommandInv, Covered
  <2> QED
    BY <2>1, <2>2 DEF CommandInv, Judged, Reported, LinesOf
<1> QED
  BY <1>1, CommandInvariance, PTL

(* Every cassette file of a directory that loads has one line, in order,   *)
(* when the process ends.                                                  *)
THEOREM CassettesReported == CommandSpec => []EveryCassetteIsReported
<1>1. CommandInv => EveryCassetteIsReported
  <2> SUFFICES ASSUME CommandInv, at = "exited", checkedAny, NEW p \in Subjects, Loads(p)
               PROVE  /\ {report[i].cassette : i \in LinesOf(p)}
                            = CassetteFiles(Directory(repo, p))
                      /\ \A i, j \in LinesOf(p) :
                           i < j => Rank[report[i].cassette] < Rank[report[j].cassette]
    BY DEF EveryCassetteIsReported
  <2>1. dirs = {} /\ ~ Inside
    BY DEF CommandInv, Concluded, Inside
  <2>2. \A n \in CassetteFiles(Directory(repo, p)) : Reported(p, n)
    BY <2>1 DEF CommandInv, Covered
  <2>3. {report[i].cassette : i \in LinesOf(p)} \subseteq CassetteFiles(Directory(repo, p))
    BY DEF CommandInv, Ordered, LinesOf
  <2>4. \A i, j \in LinesOf(p) :
          i < j => Rank[report[i].cassette] < Rank[report[j].cassette]
    BY DEF CommandInv, Ordered, LinesOf, Before
  <2> QED
    BY <2>2, <2>3, <2>4 DEF Reported
<1> QED
  BY <1>1, CommandInvariance, PTL

=============================================================================
