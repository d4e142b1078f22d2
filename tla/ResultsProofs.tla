---------------------------- MODULE ResultsProofs ----------------------------
(***************************************************************************)
(* Theorems that carry what the static checks accept to the lines a replay *)
(* reports: each line is traced to the cassette and the manifest its       *)
(* result comes from, through the interpreter and both loops.              *)
(***************************************************************************)
EXTENDS CommandsProofs

(* A result is that of the cassette's operation, and a failure in it is    *)
(* one the manifest lists.                                                 *)
Stems(r, m, cas) ==
  r # Nil => /\ r.operation = cas.operation
             /\ r.failure # Nil =>
                  \E i \in DOMAIN m.errors : r.failure.failure_code = m.errors[i].failure_code

StemsFrom(p, n, r) ==
  Stems(r, Load(Directory(repo, p).manifest), LoadCassettes(Directory(repo, p))[n])

Traced ==
  /\ pc # "idle" => /\ manifest = Load(Current.manifest)
                    /\ cassette = LoadCassettes(Current)[First(names)]
                    /\ Stems(result, manifest, cassette)
  /\ \A k \in DOMAIN results : StemsFrom(dir, results[k].cassette, results[k].result)
  /\ \A i \in DOMAIN report :
       /\ report[i].dir \in Subjects /\ Loads(report[i].dir)
       /\ StemsFrom(report[i].dir, report[i].cassette, report[i].result)

-----------------------------------------------------------------------------
(* A manifest that loads is one the interpreter is given.                  *)
LEMMA LoadedManifest ==
  ASSUME NEW r \in Repositories, NEW p, Load(Directory(r, p).manifest) # Nil
  PROVE  /\ Load(Directory(r, p).manifest) \in Manifests
         /\ r.providers # Nil /\ p \in DOMAIN r.providers
<1>1. CASE r.providers # Nil /\ p \in DOMAIN r.providers
  BY <1>1, ManifestsAreLoaded DEF Directory
<1>2. CASE ~ (r.providers # Nil /\ p \in DOMAIN r.providers)
  <2>1. Directory(r, p) = Absent /\ Absent.manifest = Nil
    BY <1>2, Zenon DEF Directory, Absent
  <2> QED
    BY <2>1 DEF Load
<1> QED
  BY <1>1, <1>2

(* matchError returns an entry of the list.                                *)
LEMMA FirstMatchIsListed ==
  ASSUME NEW m \in Manifests, NEW doc, NEW http, Matching(m.errors, doc, http) # {}
  PROVE  FirstMatch(m.errors, doc, http) \in DOMAIN m.errors
<1> DEFINE M == Matching(m.errors, doc, http)
<1>1. M \subseteq DOMAIN m.errors /\ DOMAIN m.errors \subseteq Nat /\ M # {}
  BY ErrorsAreLists DEF Matching
<1>2. \E i \in M : \A j \in M : i <= j
  <2> HIDE DEF M
  <2> QED BY <1>1, LeastRank
<1>3. FirstMatch(m.errors, doc, http) \in M
  BY <1>2 DEF FirstMatch
<1> QED
  BY <1>1, <1>3

(* Whatever the interpreter returns stems from its arguments.              *)
LEMMA RunStems ==
  ASSUME manifest \in Manifests, Stems(result, manifest, cassette), Next
  PROVE  Stems(result', manifest', cassette') /\ UNCHANGED <<manifest, cassette>>
<1>1. ASSUME NEW stat, NEW na, NEW failure,
             failure # Nil =>
               \E i \in DOMAIN manifest.errors :
                 failure.failure_code = manifest.errors[i].failure_code
      PROVE  Stems(PaymentResult(cassette, state, stat, na, failure), manifest, cassette)
  BY <1>1 DEF Stems, PaymentResult
<1>2. CASE UNCHANGED <<manifest, cassette, result>>
  BY <1>2
<1>3. CASE TransportFailure
  BY <1>1, <1>3 DEF TransportFailure, Return
<1>4. CASE Leaf
  BY <1>1, <1>4 DEF Leaf, Return
<1>5. CASE MatchError
  <2> DEFINE f == FirstMatch(manifest.errors, Doc, Interaction.response.status)
             entry == manifest.errors[f]
  <2>1. f \in DOMAIN manifest.errors
    BY <1>5, FirstMatchIsListed DEF MatchError, MatchingEntries
  <2>2. result' = ErrorOutcome(cassette, state, entry) /\ UNCHANGED <<manifest, cassette>>
    BY <1>5 DEF MatchError, Return
  <2>3. Failure(entry.failure_code, entry.retry_class).failure_code = entry.failure_code
    BY DEF Failure
  <2>4. Stems(ErrorOutcome(cassette, state, entry), manifest, cassette)
    <3> HIDE DEF f
    <3> QED BY <1>1, <2>1, <2>3 DEF ErrorOutcome
  <2> QED
    BY <2>2, <2>4
<1>6. PrepareFails \/ Prepare \/ ReceiveWebhook \/ NoInteraction \/ AssertRequest
        \/ ReceiveResponse \/ NoErrorMatches \/ (\E k \in pending : PatchKey(k))
        \/ FollowStatusMap \/ EmitUnresolved \/ FollowGoto \/ Finished
      => UNCHANGED <<manifest, cassette, result>>
  BY DEF PrepareFails, Prepare, ReceiveWebhook, NoInteraction, AssertRequest,
         ReceiveResponse, NoErrorMatches, PatchKey, FollowStatusMap, EmitUnresolved,
         FollowGoto, Finished, Fail, Goto, Enter, vars
<1> QED
  BY <1>2, <1>3, <1>4, <1>5, <1>6 DEF Next

-----------------------------------------------------------------------------
LEMMA InitTraced == CommandInit => Traced
<1> SUFFICES ASSUME CommandInit PROVE Traced
  OBVIOUS
<1>1. report = <<>> /\ results = <<>>
  BY DEF CommandInit
<1>2. (\A i \in DOMAIN report : FALSE) /\ (\A k \in DOMAIN results : FALSE)
  BY <1>1
<1> QED
  BY <1>2, Zenon DEF CommandInit, Traced

(* What has been traced stays traced when nothing is run or judged.        *)
LEMMA KeepTraced ==
  ASSUME Traced, UNCHANGED <<repo, command, dir, names, results, report, runVars>>
  PROVE  Traced'
<1>1. UNCHANGED <<repo, command, dir, names, results, report, pc, manifest, cassette, result>>
  BY DEF runVars, vars
<1>2. Subjects' = Subjects
  BY <1>1, SameSubjects
<1> QED
  BY <1>1, <1>2 DEF Traced, StemsFrom, Current, Loads

(* A move between the loops, with no result at hand.                       *)
LEMMA MoveTraced ==
  ASSUME Traced, UNCHANGED <<repo, command, report>>, pc' = "idle", results' = <<>>
  PROVE  Traced'
<1>1. Subjects' = Subjects
  BY SameSubjects
<1>2. \A k \in DOMAIN results' : FALSE
  OBVIOUS
<1> QED
  BY <1>1, <1>2 DEF Traced, StemsFrom, Loads

(* Between two cassettes the interpreter is at rest.                       *)
LEMMA IdleOutside ==
  ASSUME CommandInv, Resting, at # "run"
  PROVE  pc = "idle" /\ (at # "judge" => results = <<>>)
  BY DEF CommandInv, Placed, Resting, Inside

(* A run starts from the cassette and the manifest of its directory, the   *)
(* interpreter's moves leave both alone, and its outcome is what is kept.  *)
LEMMA RunCassetteTraced == Traced /\ RunCassette => Traced'
<1> SUFFICES ASSUME Traced, RunCassette PROVE Traced'
  OBVIOUS
<1>1. /\ manifest' = Load(Current.manifest) /\ cassette' = LoadCassettes(Current)[First(names)]
      /\ result' = Nil /\ UNCHANGED <<repo, command, dir, names, results, report>>
  BY DEF RunCassette, commandVars
<1>2. Subjects' = Subjects
  BY <1>1, SameSubjects
<1> QED
  BY <1>1, <1>2 DEF Traced, StemsFrom, Stems, Current, Loads

LEMMA InterpretTraced == CommandInv /\ Resting /\ Traced /\ Interpret => Traced'
<1> SUFFICES ASSUME CommandInv, Resting, Traced, Interpret PROVE Traced'
  OBVIOUS
<1>1. /\ pc # "idle" /\ Next
      /\ UNCHANGED <<repo, command, dir, names, results, report>>
  BY DEF Interpret, commandVars
<1>2. Loads(dir) /\ repo \in Repositories
  BY <1>1 DEF CommandInv, Placed, Resting, Inside
<1>3. manifest \in Manifests
  BY <1>1, <1>2, LoadedManifest DEF Traced, Current, Loads
<1>4. Stems(result', manifest', cassette') /\ UNCHANGED <<manifest, cassette>>
  BY <1>1, <1>3, RunStems DEF Traced
<1>5. Subjects' = Subjects
  BY <1>1, SameSubjects
<1> QED
  BY <1>1, <1>4, <1>5 DEF Traced, StemsFrom, Current, Loads

LEMMA CollectTraced == CommandInv /\ Traced /\ Collect => Traced'
<1> SUFFICES ASSUME CommandInv, Traced, Collect PROVE Traced'
  OBVIOUS
<1> DEFINE r == [cassette |-> First(names), result |-> Outcome]
<1>1. /\ pc # "idle" /\ pc' = "idle" /\ results' = Append(results, r)
      /\ UNCHANGED <<repo, command, dir, report>>
  BY DEF Collect
<1>2. StemsFrom(dir, r.cassette, r.result)
  BY <1>1 DEF Traced, StemsFrom, Stems, Outcome, Current
<1>3. \A k \in DOMAIN results' : \/ k \in DOMAIN results /\ results'[k] = results[k]
                                 \/ results'[k] = r
  BY <1>1, SliceAppend DEF CommandInv, Slices
<1>4. Subjects' = Subjects
  BY <1>1, SameSubjects
<1> QED
  BY <1>1, <1>2, <1>3, <1>4 DEF Traced, StemsFrom, Loads

LEMMA JudgeTraced == CommandInv /\ Resting /\ Traced /\ Judge => Traced'
<1> SUFFICES ASSUME CommandInv, Resting, Traced, Judge PROVE Traced'
  OBVIOUS
<1> DEFINE r == Head(results)
           l == Line(r)
<1>1. /\ at = "judge" /\ results # <<>> /\ results' = Tail(results)
      /\ report' = Append(report, l) /\ UNCHANGED <<repo, command, dir, pc>>
  BY DEF Judge, runVars, vars
<1>2. r = results[1] /\ 1 \in DOMAIN results
      /\ \A k \in DOMAIN results' : k + 1 \in DOMAIN results /\ results'[k] = results[k + 1]
  BY <1>1, SliceTail DEF CommandInv, Slices
<1>3. \A i \in DOMAIN report' : \/ i \in DOMAIN report /\ report'[i] = report[i]
                                \/ report'[i] = l
  BY <1>1, SliceAppend DEF CommandInv, Slices
<1>4. l.dir = dir /\ l.cassette = r.cassette /\ l.result = r.result
  BY DEF Line
<1>5. dir \in Subjects /\ Loads(dir) /\ pc = "idle"
  BY <1>1, IdleOutside DEF CommandInv, Placed, Inside
<1>6. Subjects' = Subjects
  BY <1>1, SameSubjects
<1>7. StemsFrom(l.dir, l.cassette, l.result)
  BY <1>2, <1>4 DEF Traced
<1>8. \A k \in DOMAIN results' : StemsFrom(dir, results'[k].cassette, results'[k].result)
  BY <1>2 DEF Traced
<1> HIDE DEF l
<1>9. \A i \in DOMAIN report' :
        /\ report'[i].dir \in Subjects /\ Loads(report'[i].dir)
        /\ StemsFrom(report'[i].dir, report'[i].cassette, report'[i].result)
  BY <1>3, <1>4, <1>5, <1>7 DEF Traced
<1> QED
  BY <1>1, <1>5, <1>6, <1>8, <1>9 DEF Traced, StemsFrom, Loads

(* No step of a command loses the trail.                                   *)
LEMMA NextTraced ==
  CommandInv /\ Resting /\ Traced /\ [CommandNext]_allVars => Traced'
<1> SUFFICES ASSUME CommandInv, Resting, Traced, [CommandNext]_allVars PROVE Traced'
  OBVIOUS
<1>1. CASE Main \/ Validate \/ RunLint \/ RunCatalog \/ ReplayNothing \/ Skip \/ Conclude
             \/ Collected \/ Exited \/ UNCHANGED allVars
  <2>1. UNCHANGED <<repo, command, dir, names, results, report, runVars>>
    BY <1>1 DEF Main, Validate, RunLint, RunCatalog, ReplayNothing, Skip, Conclude,
       Collected, Exited, Exit, allVars, commandVars
  <2> QED
    BY <2>1, KeepTraced
<1>2. CASE Replay \/ Conformance
  <2>1. at = "main" /\ UNCHANGED <<repo, command, results, report, pc>>
    BY <1>2 DEF Replay, Conformance, Begin, Exit, runVars, vars
  <2> QED
    BY <2>1, IdleOutside, MoveTraced
<1>3. CASE Open
  <2>1. at = "walk" /\ UNCHANGED <<repo, command, results, report, pc>>
    BY <1>3 DEF Open, runVars, vars
  <2> QED
    BY <2>1, IdleOutside, MoveTraced
<1>4. CASE Close
  <2>1. at = "judge" /\ results = <<>> /\ UNCHANGED <<repo, command, results, report, pc>>
    BY <1>4 DEF Close, runVars, vars
  <2> QED
    BY <2>1, IdleOutside, MoveTraced
<1>5. CASE RunCassette
  BY <1>5, RunCassetteTraced
<1>6. CASE Interpret
  BY <1>6, InterpretTraced
<1>7. CASE Collect
  BY <1>7, CollectTraced
<1>8. CASE Judge
  BY <1>8, JudgeTraced
<1> QED
  BY <1>1, <1>2, <1>3, <1>4, <1>5, <1>6, <1>7, <1>8 DEF CommandNext

(* Every line of a report stems from the cassette and the manifest it is   *)
(* named after, for every command over every repository.                   *)
THEOREM Tracing == CommandSpec => []Traced
<1>1. CommandInit => Traced
  BY InitTraced
<1>2. CommandInv /\ Resting /\ Traced /\ [CommandNext]_allVars => Traced'
  BY NextTraced
<1> QED
  BY <1>1, <1>2, CommandInvariance, PTL DEF CommandSpec

-----------------------------------------------------------------------------
LEMMA RuleHolds == ASSUME NEW name, NEW broken, Rule(name, broken) = {} PROVE ~ broken
  BY DEF Rule

(* A manifest provider without findings is one whose manifest has none and *)
(* whose cassettes cover what it declares.                                 *)
LEMMA ValidProvider ==
  ASSUME NEW d, ~ IsNativeProvider(d), ValidateProvider(d) = {}
  PROVE  /\ Load(d.manifest) # Nil
         /\ CheckErrors(Load(d.manifest)) = {}
         /\ CheckRequiredFields(Load(d.manifest)) = {}
         /\ CheckOperationsAndCapabilities(Load(d.manifest)) = {}
         /\ CheckCassetteCoverage(Load(d.manifest).capabilities.operations,
                                  LoadedCassettes(d)) = {}
<1>1. ValidateManifestProvider(d) = {}
  BY DEF ValidateProvider
<1>2. d.manifest # Nil /\ Load(d.manifest) # Nil
  BY <1>1 DEF ValidateManifestProvider
<1>3. Load(d.manifest) = d.manifest.doc
  BY <1>2 DEF Load
<1>4. ManifestFindings(d.manifest.doc) = {} /\ Beside(d, d.manifest.doc) = {}
  BY <1>1, <1>2 DEF ValidateManifestProvider
<1>5. /\ CheckErrors(d.manifest.doc) = {} /\ CheckRequiredFields(d.manifest.doc) = {}
      /\ CheckOperationsAndCapabilities(d.manifest.doc) = {}
  BY <1>4 DEF ManifestFindings
<1>6. CheckCassetteCoverage(d.manifest.doc.capabilities.operations, LoadedCassettes(d)) = {}
  BY <1>4 DEF Beside
<1> QED
  BY <1>2, <1>3, <1>5, <1>6

(* Every code that a manifest without findings lists is a failure code.    *)
LEMMA ListedCodes ==
  ASSUME NEW m, CheckErrors(m) = {}, NEW i \in DOMAIN m.errors
  PROVE  m.errors[i].failure_code \in FailureCodes
<1> DEFINE entry == m.errors[i]
<1>1. CheckError(entry) = {}
  BY DEF CheckErrors
<1> HIDE DEF entry
<1>2. Rule("closed-enum", ErrorClosedEnum(entry)) = {}
  BY <1>1 DEF CheckError
<1>3. ~ ErrorClosedEnum(entry)
  BY <1>2, RuleHolds
<1> QED
  BY <1>3 DEF ErrorClosedEnum, entry

(* Messages without findings say something for every failure code.         *)
LEMMA MessagesComplete ==
  ASSUME NEW messages, messages # Nil, CheckMessages(messages) = {},
         NEW language \in DOMAIN messages, NEW code \in FailureCodes
  PROVE  LET said == messages[language].messages
         IN  code \in DOMAIN said /\ said[code] \notin {"", " "}
<1> DEFINE mc == messages[language]
<1>1. CheckCatalogue(language, mc) = {}
  BY DEF CheckMessages
<1> HIDE DEF mc
<1>2. Rule("missing-message",
           \E c \in FailureCodes : c \notin DOMAIN mc.messages \/ Blank(mc.messages[c])) = {}
  BY <1>1 DEF CheckCatalogue
<1>3. ~ \E c \in FailureCodes : c \notin DOMAIN mc.messages \/ Blank(mc.messages[c])
  BY <1>2, RuleHolds
<1> QED
  BY <1>3 DEF Blank, mc

(* A manifest without findings declares an operation.                      *)
LEMMA DeclaresOperations ==
  ASSUME NEW m, CheckRequiredFields(m) = {}, CheckOperationsAndCapabilities(m) = {}
  PROVE  m.capabilities.operations # {}
<1>1. ~ (\/ \E s \in {m.provider, m.spec_version, m.display_name, m.country} : Blank(s)
         \/ {} \in {m.currencies, DOMAIN m.environments, DOMAIN m.operations,
                    DOMAIN m.flows, DOMAIN m.errors})
  BY RuleHolds, Zenon DEF CheckRequiredFields
<1>2. DOMAIN m.operations # {}
  BY <1>1
<1>3. Rule("operations-mismatch", m.capabilities.operations # DOMAIN m.operations) = {}
  BY Zenon DEF CheckOperationsAndCapabilities
<1>4. m.capabilities.operations = DOMAIN m.operations
  BY <1>3, RuleHolds, Zenon
<1> QED
  BY <1>2, <1>4

(* Lint has validated every provider the integrator is run against.        *)
LEMMA LintedSubject ==
  ASSUME LintRepo(repo) = {}, NEW p, p \in Subjects, Load(Directory(repo, p).manifest) # Nil,
         repo \in Repositories, command.name # "replay" \/ IsProvider(Directory(repo, p))
  PROVE  ~ IsNativeProvider(Directory(repo, p)) /\ ValidateProvider(Directory(repo, p)) = {}
<1> DEFINE d == Directory(repo, p)
<1>1. repo.providers # Nil /\ p \in DOMAIN repo.providers
  BY LoadedManifest
<1>2. d = repo.providers[p]
  BY <1>1 DEF Directory
<1>3. ~ IsNativeProvider(d) /\ p \in Providers(repo)
  BY <1>1, <1>2 DEF Subjects, Providers
<1>4. CheckAllProviders(repo) = {}
  BY DEF LintRepo
<1>5. ValidateProvider(d) = {}
  BY <1>1, <1>2, <1>3, <1>4 DEF CheckAllProviders
<1> QED
  BY <1>3, <1>5

(* In a repository without lint findings every failure that is reported    *)
(* for one of its providers has a message in every language.               *)
THEOREM FailuresHaveMessages == CommandSpec => []EveryFailureHasMessage
<1>1. CommandInv /\ Traced => EveryFailureHasMessage
  <2> SUFFICES ASSUME CommandInv, Traced, repo.messages # Nil, LintRepo(repo) = {},
                      NEW i \in DOMAIN report, NEW language \in DOMAIN repo.messages,
                      IsProvider(Directory(repo, report[i].dir)),
                      report[i].result # Nil, report[i].result.failure # Nil
               PROVE  LET code == report[i].result.failure.failure_code
                          said == repo.messages[language].messages
                      IN  code \in DOMAIN said /\ said[code] \notin {"", " "}
    BY DEF EveryFailureHasMessage
  <2> DEFINE p == report[i].dir
             d == Directory(repo, p)
  <2>1. CheckMessages(repo.messages) = {}
    BY DEF LintRepo
  <2>2. p \in Subjects /\ Loads(p) /\ StemsFrom(p, report[i].cassette, report[i].result)
    BY DEF Traced
  <2>3. ~ IsNativeProvider(d) /\ ValidateProvider(d) = {}
    BY <2>2, LintedSubject DEF CommandInv, Placed, Loads
  <2>4. CheckErrors(Load(d.manifest)) = {}
    BY <2>3, ValidProvider
  <2>5. report[i].result.failure.failure_code \in FailureCodes
    BY <2>2, <2>4, ListedCodes DEF StemsFrom, Stems
  <2> QED
    BY <2>1, <2>5, MessagesComplete
<1> QED
  BY <1>1, CommandInvariance, Tracing, PTL

(* When a command that replays a provider without findings succeeds, every *)
(* operation the provider declares has a line with a result of its own.    *)
LEMMA OperationHasLine ==
  ASSUME CommandInv, Traced, ExitIsEarned, Succeeded, Replays,
         NEW p \in Subjects, ~ IsNativeProvider(Directory(repo, p)),
         ValidateProvider(Directory(repo, p)) = {},
         NEW op \in Load(Directory(repo, p).manifest).capabilities.operations
  PROVE  \E i \in LinesOf(p) : /\ report[i].result # Nil /\ report[i].result.operation = op
                               /\ Shows(p, report[i].cassette, report[i].result)
<1> DEFINE d == Directory(repo, p)
<1>1. CheckCassetteCoverage(Load(d.manifest).capabilities.operations, LoadedCassettes(d)) = {}
  BY ValidProvider
<1>2. Loads(p) /\ \A n \in CassetteFiles(d) :
        \E i \in LinesOf(p) : report[i].cassette = n /\ Shows(p, n, report[i].result)
  BY DEF ExitIsEarned, Replays
<1>3. LoadedCassettes(d) = LoadCassettes(d) /\ DOMAIN LoadCassettes(d) = CassetteFiles(d)
  BY <1>2 DEF LoadedCassettes, LoadCassettes, Loads
<1>4. op \in {c.operation : c \in ValuesOf(LoadCassettes(d))}
  BY <1>1, <1>3, RuleHolds DEF CheckCassetteCoverage
<1>5. PICK n \in CassetteFiles(d) : LoadCassettes(d)[n].operation = op
  BY <1>3, <1>4 DEF ValuesOf
<1>6. PICK i \in LinesOf(p) : report[i].cassette = n /\ Shows(p, n, report[i].result)
  BY <1>2
<1>7. i \in DOMAIN report /\ report[i].dir = p /\ report[i].result # Nil
  BY <1>6 DEF LinesOf, Shows
<1>8. report[i].result.operation = op
  BY <1>5, <1>6, <1>7 DEF Traced, StemsFrom, Stems
<1> QED
  BY <1>6, <1>7, <1>8

(* When validate finds nothing and replay --assert-golden succeeds, every  *)
(* declared operation has been shown to end in its golden result.          *)
THEOREM OperationsAreShown == CommandSpec => []EveryOperationIsShown
<1>1. CommandInv /\ Traced /\ ExitIsEarned => EveryOperationIsShown
  <2> SUFFICES ASSUME CommandInv, Traced, ExitIsEarned, Succeeded, command.name = "replay",
                      NEW p \in Subjects, ValidateProvider(Directory(repo, p)) = {},
                      NEW op \in Directory(repo, p).manifest.doc.capabilities.operations
               PROVE  \E i \in DOMAIN report :
                        report[i].ok /\ report[i].result.operation = op
    BY DEF EveryOperationIsShown
  <2>1. ~ IsNativeProvider(Directory(repo, p))
    BY DEF Subjects
  <2>2. Load(Directory(repo, p).manifest) = Directory(repo, p).manifest.doc
    BY <2>1, ValidProvider DEF Load
  <2>3. PICK i \in LinesOf(p) : report[i].result.operation = op
    BY <2>1, <2>2, OperationHasLine DEF Replays
  <2>4. i \in DOMAIN report
    BY DEF LinesOf
  <2>5. report[i].ok
    BY <2>4 DEF CommandInv, Judged, Concluded, Succeeded, Replays, LinesOf
  <2> QED
    BY <2>3, <2>4, <2>5
<1> QED
  BY <1>1, CommandInvariance, Tracing, EarnedExit, PTL

(* When lint finds nothing and conformance-integrator succeeds, there are  *)
(* providers, and the integrator has handled a result of every operation   *)
(* each of them declares.                                                  *)
THEOREM OperationsAreHandled == CommandSpec => []EveryOperationIsHandled
<1>1. CommandInv /\ Traced /\ ExitIsEarned => EveryOperationIsHandled
  <2> SUFFICES ASSUME CommandInv, Traced, ExitIsEarned, Succeeded,
                      command.name = "conformance-integrator", LintRepo(repo) = {}
               PROVE  EveryOperationIsHandled
    BY DEF EveryOperationIsHandled
  <2>1. Replays
    BY DEF Replays
  <2>2. Subjects # {}
    BY <2>1 DEF CommandInv, Placed, Concluded, Succeeded
  <2>3. ASSUME NEW p \in Subjects
        PROVE  /\ ~ IsNativeProvider(Directory(repo, p))
               /\ ValidateProvider(Directory(repo, p)) = {}
    <3>1. Loads(p)
      BY <2>3 DEF ExitIsEarned
    <3> QED
      BY <3>1, <2>3, LintedSubject DEF CommandInv, Placed, Loads
  <2>4. ASSUME NEW p \in Subjects
        PROVE  Load(Directory(repo, p).manifest).capabilities.operations # {}
    BY <2>3, <2>4, ValidProvider, DeclaresOperations
  <2>5. ASSUME NEW p \in Subjects,
               NEW op \in Load(Directory(repo, p).manifest).capabilities.operations
        PROVE  \E i \in LinesOf(p) :
                 /\ report[i].result # Nil /\ report[i].result.operation = op
                 /\ Handle(report[i].result) = ""
    <3>1. PICK i \in LinesOf(p) : /\ report[i].result # Nil
                                  /\ report[i].result.operation = op
                                  /\ Shows(p, report[i].cassette, report[i].result)
      BY <2>1, <2>3, <2>5, OperationHasLine
    <3>2. Handle(report[i].result) = ""
      BY <3>1 DEF Shows
    <3> QED
      BY <3>1, <3>2
  <2> QED
    BY <2>2, <2>4, <2>5 DEF EveryOperationIsHandled
<1> QED
  BY <1>1, CommandInvariance, Tracing, EarnedExit, PTL

=============================================================================
