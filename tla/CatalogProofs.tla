---------------------------- MODULE CatalogProofs ----------------------------
(***************************************************************************)
(* What the findings of `esiipayment lint` stand for.  A repository        *)
(* without any has a catalog: the checks of lint and the rows of the       *)
(* catalog read the same files, each in its own way.  And the greedy       *)
(* search for the sections of the provider template misses none exactly    *)
(* when they are there in their order.                                     *)
(***************************************************************************)
EXTENDS ResultsProofs, FiniteSetTheorems

(* A nil row is no row.                                                    *)
NilIsNoMap == \A S, T : Nil \notin [S -> T]

(* The catalog is the only thing its command ends with.                    *)
Written ==
  at = "exited" /\ command.name = "catalog" /\ Generates(repo) =>
    exit = 0 /\ printed \in Catalogs(repo)

(* A command that is not `catalog` never ends as one.                      *)
LEMMA NextWritten ==
  ASSUME CommandInv, Written, [CommandNext]_allVars
  PROVE  Written'
<1>1. CASE Main
  BY <1>1 DEF Main, Exit, Written
<1>2. CASE Validate \/ RunLint \/ ReplayNothing
  BY <1>2 DEF Validate, RunLint, ReplayNothing, Exit, Written
<1>3. CASE RunCatalog
  <2>1. CASE Generates(repo)
    <3>1. PICK rows \in Catalogs(repo) : Exit(0, rows)
      BY <1>3, <2>1 DEF RunCatalog
    <3> QED
      BY <3>1 DEF Exit, Written
  <2>2. CASE ~ Generates(repo)
    BY <1>3, <2>2 DEF RunCatalog, Exit, Written
  <2> QED
    BY <2>1, <2>2
<1>4. CASE Conformance
  BY <1>4 DEF Conformance, Begin, Exit, Written
<1>5. CASE Conclude
  <2>1. Replays
    BY <1>5 DEF CommandInv, Placed, Walking, Conclude
  <2> QED
    BY <1>5, <2>1 DEF Conclude, Exit, Written, Replays
<1>6. CASE Exited \/ UNCHANGED allVars
  BY <1>6 DEF Exited, allVars, commandVars, Written
<1>7. CASE Replay \/ Skip \/ Open \/ RunCassette \/ Interpret
  BY <1>7 DEF Replay, Begin, Skip, Open, RunCassette, Interpret, commandVars, Written
<1>8. CASE Collect \/ Collected \/ Judge \/ Close
  BY <1>8 DEF Collect, Collected, Judge, Close, Written
<1> QED
  BY <1>1, <1>2, <1>3, <1>4, <1>5, <1>6, <1>7, <1>8 DEF CommandNext

-----------------------------------------------------------------------------
LEMMA MapIsThere == ASSUME NilIsNoMap, NEW S, NEW T, NEW f \in [S -> T] PROVE f # Nil
  BY DEF NilIsNoMap

(* What is made of a document is a row.                                    *)
LEMMA RowIsThere ==
  ASSUME NilIsNoMap, NEW doc, NEW native
  PROVE  RowOf(doc, native) # Nil
<1> DEFINE row == RowOf(doc, native)
           keys == {"provider", "operations", "next_actions", "native"}
<1>1. row \in [keys -> {row[k] : k \in keys}]
  BY DEF RowOf
<1> QED
  BY <1>1, MapIsThere, Zenon

(* A document without a finding of checkClosedEnums names operations of    *)
(* the closed set, each of which has a column.                             *)
LEMMA OperationsHaveColumns ==
  ASSUME NEW doc, CheckClosedEnums(doc) = {}
  PROVE  doc.capabilities.operations \subseteq ToSet(OperationOrder)
<1>1. doc.capabilities.operations \subseteq Operations
  BY DEF CheckClosedEnums, Rule
<1>2. Operations \subseteq ToSet(OperationOrder)
  BY DEF Operations, OperationOrder, ToSet
<1> QED
  BY <1>1, <1>2

(* A directory without findings, native or not, has a row of its own, with *)
(* columns for all it declares, and metadata.                              *)
LEMMA SoundDirectory ==
  ASSUME NilIsNoMap, NEW d, ValidateProvider(d) = {}
  PROVE  /\ LoadRow(d) # Nil /\ Load(d.metadata) # Nil
         /\ Ticked(LoadRow(d)) = LoadRow(d).operations
<1> DEFINE native == IsNativeProvider(d)
           doc == Load(IF native THEN d.capabilities ELSE d.manifest)
<1>1. doc # Nil /\ CheckClosedEnums(doc) = {} /\ Beside(d, doc) = {}
  <2>1. CASE native
    BY <2>1 DEF ValidateProvider, ValidateNativeProvider
  <2>2. CASE ~ native
    <3>1. ValidateManifestProvider(d) = {}
      BY <2>2 DEF ValidateProvider
    <3>2. d.manifest # Nil /\ Load(d.manifest) # Nil
      BY <3>1 DEF ValidateManifestProvider
    <3>3. Load(d.manifest) = d.manifest.doc
      BY <3>2 DEF Load
    <3>4. ManifestFindings(d.manifest.doc) = {} /\ Beside(d, d.manifest.doc) = {}
      BY <3>1, <3>2 DEF ValidateManifestProvider
    <3>5. CheckClosedEnums(d.manifest.doc) = {}
      BY <3>4 DEF ManifestFindings
    <3> QED
      BY <2>2, <3>2, <3>3, <3>4, <3>5
  <2> QED
    BY <2>1, <2>2
<1>2. LoadRow(d) = RowOf(doc, native)
  BY <1>1 DEF LoadRow
<1>3. Load(d.metadata) # Nil
  BY <1>1 DEF Beside, Rule
<1>4. LoadRow(d).operations \subseteq ToSet(OperationOrder)
  BY <1>1, <1>2, OperationsHaveColumns DEF RowOf
<1> QED
  BY <1>2, <1>3, <1>4, RowIsThere DEF Ticked

(* A list that has each of finitely many things at most once, and as many  *)
(* places as there are things, has each of them.                           *)
LEMMA ListedOnce ==
  ASSUME NEW S, IsFiniteSet(S), NEW s \in SetToSeqs(S)
  PROVE  DOMAIN s = 1 .. Cardinality(S) /\ ToSet(s) = S
<1> DEFINE D == 1 .. Cardinality(S)
<1>1. Cardinality(S) \in Nat
  BY FS_CardinalityType
<1>2. IsFiniteSet(D) /\ Cardinality(D) = Cardinality(S)
  BY <1>1, FS_Interval
<1>3. s \in [D -> S] /\ \A i, j \in D : i # j => s[i] # s[j]
  BY DEF SetToSeqs
<1> HIDE DEF D
<1>4. s \in Injection(D, S)
  BY <1>3 DEF Injection, IsInjective
<1>5. s \in Surjection(D, S)
  BY <1>2, <1>4, FS_Injection
<1>6. ToSet(s) = S
  BY <1>3, <1>5 DEF Surjection, ToSet
<1> QED
  BY <1>3, <1>6 DEF D

(* In a repository without lint findings the catalog is complete, ordered  *)
(* and shows of each provider what it declares.                            *)
THEOREM LintedCatalog == ASSUME NilIsNoMap PROVE CommandSpec => []LintVouchesForCatalog
<1>1. CommandInit => Written
  BY DEF CommandInit, Written
<1>2. CommandInv /\ Written /\ [CommandNext]_allVars => Written'
  BY NextWritten
<1>3. CommandInv /\ Written => LintVouchesForCatalog
  <2> SUFFICES ASSUME CommandInv, Written, at = "exited", command.name = "catalog",
                      LintRepo(repo) = {}
               PROVE  /\ exit = 0 /\ ToSet(printed) = Providers(repo)
                      /\ \A i \in DOMAIN printed :
                           LET row == LoadRow(repo.providers[printed[i]])
                           IN  /\ Ticked(row) = row.operations
                               /\ i > 1 =>
                                    Rank[LoadRow(repo.providers[printed[i - 1]]).provider]
                                      <= Rank[row.provider]
    BY DEF LintVouchesForCatalog
  <2>1. CheckAllProviders(repo) = {}
    BY DEF LintRepo
  <2>2. repo.providers # Nil /\ \A p \in Providers(repo) : ValidateProvider(repo.providers[p]) = {}
    BY <2>1 DEF CheckAllProviders
  <2>3. \A p \in Providers(repo) :
          /\ LoadRow(repo.providers[p]) # Nil /\ Load(repo.providers[p].metadata) # Nil
          /\ Ticked(LoadRow(repo.providers[p])) = LoadRow(repo.providers[p]).operations
    BY <2>2, SoundDirectory
  <2>4. Generates(repo)
    BY <2>2, <2>3 DEF Generates
  <2>5. exit = 0 /\ printed \in Catalogs(repo)
    BY <2>4 DEF Written
  <2>6. IsFiniteSet(Providers(repo))
    <3>1. IsFiniteSet(DOMAIN repo.providers)
      BY <2>2, DirectoriesAreFinite DEF CommandInv, Placed
    <3> QED
      BY <3>1, FS_Subset DEF Providers
  <2>7. /\ DOMAIN printed = 1 .. Cardinality(Providers(repo))
        /\ ToSet(printed) = Providers(repo)
    BY <2>5, <2>6, ListedOnce DEF Catalogs
  <2>8. ASSUME NEW i \in DOMAIN printed
        PROVE  /\ Ticked(LoadRow(repo.providers[printed[i]]))
                    = LoadRow(repo.providers[printed[i]]).operations
               /\ i > 1 => Rank[LoadRow(repo.providers[printed[i - 1]]).provider]
                             <= Rank[LoadRow(repo.providers[printed[i]]).provider]
    <3>1. printed[i] \in Providers(repo)
      BY <2>7 DEF ToSet
    <3>2. Cardinality(Providers(repo)) \in Nat
      BY <2>6, FS_CardinalityType
    <3>3. i > 1 => i - 1 \in DOMAIN printed /\ i - 1 < i
      BY <2>7, <3>2
    <3>4. \A j, k \in DOMAIN printed :
            j < k => Rank[LoadRow(repo.providers[printed[j]]).provider]
                       <= Rank[LoadRow(repo.providers[printed[k]]).provider]
      BY <2>5 DEF Catalogs
    <3> QED
      BY <2>3, <3>1, <3>3, <3>4
  <2> QED
    BY <2>5, <2>7, <2>8
<1> QED
  BY <1>1, <1>2, <1>3, CommandInvariance, PTL DEF CommandSpec

-----------------------------------------------------------------------------
(* What lint has printed when it ends.                                     *)
Linted == at = "exited" /\ command.name = "lint" => printed = LintRepo(repo)

(* A command that is not `lint` never ends as one.                         *)
LEMMA NextLinted ==
  ASSUME CommandInv, Linted, [CommandNext]_allVars
  PROVE  Linted'
<1>1. CASE Main \/ Validate \/ RunCatalog \/ ReplayNothing
  BY <1>1 DEF Main, Validate, RunCatalog, ReplayNothing, Exit, Linted
<1>2. CASE RunLint
  BY <1>2 DEF RunLint, Exit, Linted
<1>3. CASE Conformance
  BY <1>3 DEF Conformance, Begin, Exit, Linted
<1>4. CASE Conclude
  <2>1. Replays
    BY <1>4 DEF CommandInv, Placed, Walking, Conclude
  <2> QED
    BY <1>4, <2>1 DEF Conclude, Exit, Linted, Replays
<1>5. CASE Exited \/ UNCHANGED allVars
  BY <1>5 DEF Exited, allVars, commandVars, Linted
<1>6. CASE Replay \/ Skip \/ Open \/ RunCassette \/ Interpret
  BY <1>6 DEF Replay, Begin, Skip, Open, RunCassette, Interpret, commandVars, Linted
<1>7. CASE Collect \/ Collected \/ Judge \/ Close
  BY <1>7 DEF Collect, Collected, Judge, Close, Linted
<1> QED
  BY <1>1, <1>2, <1>3, <1>4, <1>5, <1>6, <1>7 DEF CommandNext

-----------------------------------------------------------------------------
Section == "missing-template-section"

LEMMA OtherRule ==
  ASSUME NEW name, NEW broken, name # Section
  PROVE  Section \notin Rule(name, broken)
  BY DEF Rule

(* No check of a manifest reports the template's rule.                     *)
LEMMA ManifestsHaveNoSections == ASSUME NEW m PROVE Section \notin ManifestFindings(m)
<1>1. /\ Section \notin CheckRequiredFields(m) /\ Section \notin CheckSpecVersion(m.spec_version)
      /\ Section \notin CheckClosedEnums(m) /\ Section \notin CheckAuthNamespaces(m.auth)
  BY OtherRule DEF CheckRequiredFields, CheckSpecVersion, CheckClosedEnums,
                   CheckAuthNamespaces, Section
<1>2. Section \notin CheckAuth(m.auth) /\ Section \notin CheckOperationsAndCapabilities(m)
  BY OtherRule DEF CheckAuth, CheckOperationsAndCapabilities, Section
<1>3. Section \notin CheckWebhook(m)
  BY OtherRule DEF CheckWebhook, Section
<1>4. Section \notin CheckFlows(m)
  <2>1. ASSUME NEW flow PROVE Section \notin CheckFlow(flow)
    BY OtherRule DEF CheckFlow, Section
  <2> QED
    BY <2>1 DEF CheckFlows
<1>5. Section \notin CheckErrors(m)
  <2>1. ASSUME NEW entry PROVE Section \notin CheckError(entry)
    BY DEF CheckError, Rule, Section
  <2>2. Section \notin UNION {CheckError(m.errors[i]) : i \in DOMAIN m.errors}
    BY <2>1
  <2> DEFINE timeouts == {i \in DOMAIN m.errors : IsTimeout(m.errors[i])}
             each == UNION {CheckError(m.errors[i]) : i \in DOMAIN m.errors}
  <2>3. Section \notin Rule("missing-timeout-mapping", timeouts = {})
    BY OtherRule DEF Section
  <2>4. Section \notin Rule("duplicate-timeout-mapping", \E i, j \in timeouts : i # j)
    BY DEF Rule, Section
  <2>5. Section \notin Rule("ambiguous-error-match",
                           \E i, j \in DOMAIN m.errors :
                             i < j /\ SameMatch(m.errors[i], m.errors[j]))
    BY DEF Rule, Section
  <2> HIDE DEF Section
  <2> QED
    BY <2>2, <2>3, <2>4, <2>5 DEF CheckErrors
<1>6. Section \notin CheckSteps(m)
  <2>1. ASSUME NEW flow, NEW st
        PROVE  /\ Section \notin CheckPayload(st.emit)
               /\ Section \notin CheckNamespaces(flow, st) /\ Section \notin CheckTransforms(st)
    BY OtherRule DEF CheckPayload, CheckNamespaces, CheckTransforms, Section
  <2> QED
    BY <2>1 DEF CheckSteps
<1> QED
  BY <1>1, <1>2, <1>3, <1>4, <1>5, <1>6 DEF ManifestFindings

(* Nor does one of a provider's directory, of either kind.                 *)
LEMMA ProvidersHaveNoSections == ASSUME NEW d PROVE Section \notin ValidateProvider(d)
<1>1. ASSUME NEW doc PROVE Section \notin Beside(d, doc)
  <2>1. ASSUME NEW provider, NEW md PROVE Section \notin CheckMetadata(provider, md)
    BY DEF CheckMetadata, Rule, Section
  <2> QED
    BY <2>1, OtherRule DEF Beside, CheckCassetteCoverage, Section
<1>2. Section \notin ValidateManifestProvider(d)
  BY <1>1, ManifestsHaveNoSections, OtherRule DEF ValidateManifestProvider, Section
<1>3. Section \notin ValidateNativeProvider(d)
  <2>1. ASSUME NEW c
        PROVE  /\ Section \notin CheckNativeRequiredFields(c)
               /\ Section \notin CheckSpecVersion(c.spec_version)
               /\ Section \notin CheckClosedEnums(c)
    BY OtherRule DEF CheckNativeRequiredFields, CheckSpecVersion, CheckClosedEnums, Section
  <2>2. ASSUME NEW cassettes PROVE Section \notin CheckNativeGoldenFiles(d, cassettes)
    BY OtherRule DEF CheckNativeGoldenFiles, Section
  <2> QED
    BY <1>1, <2>1, <2>2, OtherRule DEF ValidateNativeProvider, Section
<1> QED
  BY <1>2, <1>3 DEF ValidateProvider

(* So lint reports it for the template alone.                              *)
LEMMA OnlyTheTemplate ==
  ASSUME NEW r
  PROVE  Section \in LintRepo(r) <=> Section \in CheckUseAProviderTemplate(r.template)
<1>1. Section \notin CheckNoCodeFiles(r.extensions) /\ Section \notin CheckSnippetReferences(r)
  BY OtherRule DEF CheckNoCodeFiles, CheckSnippetReferences, Section
<1>2. Section \notin CheckAllProviders(r)
  BY ProvidersHaveNoSections DEF CheckAllProviders, Section
<1>3. Section \notin CheckMessages(r.messages)
  <2>1. ASSUME NEW file, NEW mc PROVE Section \notin CheckCatalogue(file, mc)
    BY DEF CheckCatalogue, Rule, Section
  <2> QED
    BY <2>1 DEF CheckMessages
<1> QED
  BY <1>1, <1>2, <1>3 DEF LintRepo

-----------------------------------------------------------------------------
(* The first place of a section after a place.                             *)
LEMMA FoundAfterIsFirst ==
  ASSUME NEW T \in Seq(Nat), NEW n, NEW m \in Nat
  PROVE  LET found == FoundAfter(T, n, m)
         IN  /\ found # 0 => found \in DOMAIN T /\ m < found /\ T[found] = n
             /\ \A i \in DOMAIN T : m < i /\ T[i] = n => found # 0 /\ found <= i
<1> DEFINE I == {i \in m + 1 .. Len(T) : T[i] = n}
           after == {i \in DOMAIN T : m < i /\ T[i] = n}
<1>1. I = after /\ I \in SUBSET Nat
  <2>1. DOMAIN T = 1 .. Len(T) /\ Len(T) \in Nat
    OBVIOUS
  <2>2. \A i : i \in m + 1 .. Len(T) <=> i \in DOMAIN T /\ m < i
    BY <2>1
  <2> QED
    BY <2>1, <2>2
<1>2. FoundAfter(T, n, m) = IF I # {} THEN Min(I) ELSE 0
  BY DEF FoundAfter, SelectInSubSeq
<1>3. I # {} => Min(I) \in I /\ \A i \in I : Min(I) <= i
  <2>1. I # {} => \E i \in I : \A j \in I : i <= j
    <3> HIDE DEF I
    <3> QED
      BY <1>1, LeastRank
  <2> HIDE DEF I
  <2> QED
    BY <2>1 DEF Min
<1> HIDE DEF I, after
<1>4. IF after = {} THEN FoundAfter(T, n, m) = 0
      ELSE FoundAfter(T, n, m) \in after /\ \A i \in after : FoundAfter(T, n, m) <= i
  BY <1>1, <1>2, <1>3
<1>5. 0 \notin after
  BY DEF after
<1>6. /\ FoundAfter(T, n, m) # 0 => FoundAfter(T, n, m) \in after
      /\ \A i \in after : FoundAfter(T, n, m) # 0 /\ FoundAfter(T, n, m) <= i
  BY <1>4, <1>5
<1> QED
  BY <1>6 DEF after

LEMMA SearchOnAdvances ==
  ASSUME NEW T \in Seq(Nat), NEW n, NEW m \in Nat
  PROVE  SearchOn(T, n, m) \in Nat
<1>1. DOMAIN T \subseteq Nat
  OBVIOUS
<1> QED
  BY <1>1, FoundAfterIsFirst DEF SearchOn

(* The places of the search, one by one.                                   *)
IsTrail(place, T, k) ==
  /\ place \in [0 .. k -> Nat] /\ place[0] = 0
  /\ \A n \in 1 .. k : place[n] = SearchOn(T, n, place[n - 1])

LEMMA TrailExists ==
  ASSUME NEW T \in Seq(Nat), NEW k \in Nat
  PROVE  \E place : IsTrail(place, T, k)
<1> DEFINE W == {n \in Nat : ~ \E place : IsTrail(place, T, n)}
<1> SUFFICES ASSUME W # {} PROVE FALSE
  OBVIOUS
<1>1. PICK n \in W : \A j \in W : n <= j
  <2> W \in SUBSET Nat
    OBVIOUS
  <2> HIDE DEF W
  <2> QED
    BY LeastRank
<1>2. CASE n = 0
  <2>1. IsTrail([i \in 0 .. 0 |-> 0], T, 0)
    BY DEF IsTrail
  <2> QED
    BY <1>1, <1>2, <2>1
<1>3. CASE n # 0
  <2>1. n - 1 \in Nat /\ n \in Nat /\ n - 1 \notin W
    BY <1>1, <1>3
  <2>2. PICK low : IsTrail(low, T, n - 1)
    BY <2>1
  <2> DEFINE next  == SearchOn(T, n, low[n - 1])
             place == [i \in 0 .. n |-> IF i = n THEN next ELSE low[i]]
  <2>3. /\ low \in [0 .. n - 1 -> Nat] /\ low[0] = 0
        /\ \A i \in 1 .. n - 1 : low[i] = SearchOn(T, i, low[i - 1])
    BY <2>2 DEF IsTrail
  <2>4. low[n - 1] \in Nat /\ next \in Nat
    <3>1. low[n - 1] \in Nat
      BY <2>1, <2>3
    <3> QED
      BY <3>1, SearchOnAdvances
  <2> HIDE DEF next
  <2>5. place \in [0 .. n -> Nat] /\ place[0] = 0
    BY <1>3, <2>1, <2>3, <2>4
  <2>6. place[n] = next /\ place[n - 1] = low[n - 1]
    BY <2>1
  <2>7. \A i \in 1 .. n - 1 : place[i] = low[i] /\ place[i - 1] = low[i - 1]
    BY <2>1
  <2> HIDE DEF place
  <2>8. \A i \in 1 .. n - 1 : place[i] = SearchOn(T, i, place[i - 1])
    BY <2>3, <2>7
  <2>9. \A i \in 1 .. n : i \in 1 .. n - 1 \/ i = n
    BY <2>1
  <2>10. \A i \in 1 .. n : place[i] = SearchOn(T, i, place[i - 1])
    BY <2>6, <2>8, <2>9 DEF next
  <2>11. IsTrail(place, T, n)
    BY <2>5, <2>10 DEF IsTrail
  <2> QED
    BY <1>1, <2>11
<1> QED
  BY <1>2, <1>3

(* The search function of the check holds these places.                    *)
LEMMA SearchIsTrail ==
  ASSUME NEW T \in Seq(Nat)
  PROVE  \E place : IsTrail(place, T, 9) /\ SearchFrom(T) = [n \in 0 .. 9 |-> {place[n]}]
<1>1. PICK place : IsTrail(place, T, 9)
  BY TrailExists
<1> DEFINE Solves(f) ==
             f = [n \in 0 .. 9 |->
                    IF n = 0 THEN {0}
                    ELSE {SearchOn(T, RequiredTemplateSections[n], m) : m \in f[n - 1]}]
           held == [n \in 0 .. 9 |-> {place[n]}]
<1>2. /\ place[0] = 0
      /\ \A n \in 1 .. 9 : place[n] = SearchOn(T, n, place[n - 1])
  BY <1>1 DEF IsTrail
<1>3. \A n \in 1 .. 9 : RequiredTemplateSections[n] = n
  BY DEF RequiredTemplateSections
<1>4. Solves(held)
  <2>1. held[0] = {0}
    BY <1>2
  <2>2. ASSUME NEW n \in 1 .. 9
        PROVE  held[n] = {SearchOn(T, RequiredTemplateSections[n], m) : m \in held[n - 1]}
    <3>1. held[n] = {place[n]} /\ held[n - 1] = {place[n - 1]}
      OBVIOUS
    <3> HIDE DEF held
    <3>2. {SearchOn(T, n, m) : m \in {place[n - 1]}} = {SearchOn(T, n, place[n - 1])}
      OBVIOUS
    <3> QED
      BY <1>2, <1>3, <3>1, <3>2
  <2>3. \A n \in 0 .. 9 : n = 0 \/ n \in 1 .. 9
    OBVIOUS
  <2>4. held = [n \in 0 .. 9 |-> held[n]]
    OBVIOUS
  <2> HIDE DEF held
  <2>5. \A n \in 0 .. 9 :
          held[n] = IF n = 0 THEN {0}
                    ELSE {SearchOn(T, RequiredTemplateSections[n], m) : m \in held[n - 1]}
    BY <2>1, <2>2, <2>3
  <2> QED
    BY <2>4, <2>5
<1>5. PICK f : Solves(f) /\ SearchFrom(T) = f
  <2>1. SearchFrom(T) = CHOOSE f : Solves(f)
    BY DEF SearchFrom
  <2> HIDE DEF Solves
  <2> QED
    BY <1>4, <2>1
<1>6. f = held
  <2> DEFINE W == {n \in 0 .. 9 : f[n] # held[n]}
  <2>1. DOMAIN f = 0 .. 9 /\ f = [n \in 0 .. 9 |-> f[n]]
    BY <1>5
  <2> SUFFICES ASSUME W # {} PROVE FALSE
    BY <2>1
  <2>2. PICK n \in W : \A j \in W : n <= j
    <3> W \in SUBSET Nat
      OBVIOUS
    <3> HIDE DEF W
    <3> QED
      BY LeastRank
  <2>3. CASE n = 0
    BY <1>2, <1>5, <2>2, <2>3
  <2>4. CASE n # 0
    <3>1. n \in 0 .. 9 /\ n - 1 \in 0 .. 9 /\ n - 1 \notin W
      <4>1. n \in 0 .. 9
        BY <2>2
      <4>2. n - 1 \in 0 .. 9 /\ ~ (n <= n - 1)
        BY <4>1, <2>4
      <4> HIDE DEF W
      <4> QED
        BY <4>1, <4>2, <2>2
    <3>2. f[n - 1] = held[n - 1]
      BY <3>1
    <3>3. f[n] = {SearchOn(T, RequiredTemplateSections[n], m) : m \in f[n - 1]}
      BY <1>5, <2>4, <3>1
    <3>4. held[n] = {SearchOn(T, RequiredTemplateSections[n], m) : m \in held[n - 1]}
      BY <1>4, <2>4, <3>1
    <3> QED
      BY <2>2, <3>2, <3>3, <3>4
  <2> QED
    BY <2>3, <2>4
<1> QED
  BY <1>1, <1>5, <1>6

(* Nothing is missing when each section is found from the place before.    *)
LEMMA SectionsAreFound ==
  ASSUME NilIsNoMap, NEW T \in Seq(Nat)
  PROVE  \E place :
           /\ IsTrail(place, T, 9)
           /\ Section \notin CheckUseAProviderTemplate(T)
                <=> \A n \in 1 .. 9 : FoundAfter(T, n, place[n - 1]) # 0
<1>1. PICK place : IsTrail(place, T, 9) /\ SearchFrom(T) = [n \in 0 .. 9 |-> {place[n]}]
  BY SearchIsTrail
<1>2. DOMAIN RequiredTemplateSections = 1 .. 9 /\ \A n \in 1 .. 9 : RequiredTemplateSections[n] = n
  BY DEF RequiredTemplateSections
<1>3. \A n \in 1 .. 9 : SearchFrom(T)[n - 1] = {place[n - 1]}
  BY <1>1
<1>4. (\E n \in 1 .. 9 : \E m \in SearchFrom(T)[n - 1] : FoundAfter(T, n, m) = 0)
        <=> \E n \in 1 .. 9 : FoundAfter(T, n, place[n - 1]) = 0
  BY <1>3
<1>5. T # Nil
  <2>1. T \in [1 .. Len(T) -> Nat]
    OBVIOUS
  <2> QED
    BY <2>1, MapIsThere
<1>6. Section \in CheckUseAProviderTemplate(T)
        <=> \E n \in 1 .. 9 : \E m \in SearchFrom(T)[n - 1] : FoundAfter(T, n, m) = 0
  BY <1>2, <1>5 DEF CheckUseAProviderTemplate, Rule, Section
<1> QED
  BY <1>1, <1>4, <1>6

(* The places of the sections, all of them found, are a way to read them.  *)
LEMMA SearchReadsInOrder ==
  ASSUME NEW T \in Seq(Nat), NEW place, IsTrail(place, T, 9),
         \A n \in 1 .. 9 : FoundAfter(T, n, place[n - 1]) # 0
  PROVE  \E S \in SUBSET DOMAIN T :
           /\ Cardinality(S) = 9
           /\ \A k \in S : T[k] = Cardinality({j \in S : j <= k})
<1>1. /\ place \in [0 .. 9 -> Nat]
      /\ \A n \in 1 .. 9 :
           place[n] \in DOMAIN T /\ place[n - 1] < place[n] /\ T[place[n]] = n
  <2>1. place \in [0 .. 9 -> Nat] /\ \A n \in 1 .. 9 : place[n] = SearchOn(T, n, place[n - 1])
    BY DEF IsTrail
  <2>2. ASSUME NEW n \in 1 .. 9
        PROVE  place[n] \in DOMAIN T /\ place[n - 1] < place[n] /\ T[place[n]] = n
    <3>1. n - 1 \in 0 .. 9
      OBVIOUS
    <3>2. place[n - 1] \in Nat
      BY <2>1, <3>1
    <3>3. place[n] = FoundAfter(T, n, place[n - 1]) /\ place[n] # 0
      BY <2>1 DEF SearchOn
    <3> QED
      BY <3>2, <3>3, FoundAfterIsFirst
  <2> QED
    BY <2>1, <2>2
<1>2. (\A i \in 0 .. 9 : place[i] \in Nat) /\ \A i \in 1 .. 9 : place[i] \in Nat
  <2>1. \A i \in 1 .. 9 : i \in 0 .. 9
    OBVIOUS
  <2> QED
    BY <1>1, <2>1
<1>3. \A m, n \in 1 .. 9 : m < n => place[m] < place[n]
  <2> SUFFICES ASSUME NEW m \in 1 .. 9, {n \in m + 1 .. 9 : ~ (place[m] < place[n])} # {}
               PROVE  FALSE
    OBVIOUS
  <2> DEFINE W == {n \in m + 1 .. 9 : ~ (place[m] < place[n])}
  <2>1. PICK n \in W : \A j \in W : n <= j
    <3> W \in SUBSET Nat /\ W # {}
      OBVIOUS
    <3> HIDE DEF W
    <3> QED
      BY LeastRank
  <2>2. n \in m + 1 .. 9 /\ ~ (place[m] < place[n])
    BY <2>1
  <2>3. n - 1 = m \/ n - 1 \in m + 1 .. 9
    BY <2>2
  <2>4. n - 1 = m \/ place[m] < place[n - 1]
    <3>1. ~ (n <= n - 1)
      BY <2>2
    <3>2. n - 1 \notin W
      <4> HIDE DEF W
      <4> QED BY <2>1, <3>1
    <3> QED
      BY <2>3, <3>2
  <2>5. place[n - 1] < place[n] /\ place[m] \in Nat /\ place[n - 1] \in Nat /\ place[n] \in Nat
    <3>1. n \in 1 .. 9 /\ n - 1 \in 0 .. 9 /\ n \in 0 .. 9 /\ m \in 0 .. 9
      BY <2>2
    <3> QED
      BY <1>2, <1>1, <3>1
  <2> QED
    BY <2>2, <2>4, <2>5
<1> DEFINE Upto(n) == {place[i] : i \in 1 .. n}
           S == Upto(9)
<1>4. ASSUME NEW n \in 1 .. 9
      PROVE  Cardinality(Upto(n)) = n
  <2> DEFINE f == [i \in 1 .. n |-> place[i]]
  <2>1. \A i \in 1 .. n : i \in 1 .. 9 /\ place[i] \in Nat
    <3>1. \A i \in 1 .. n : i \in 1 .. 9 /\ i \in 0 .. 9
      OBVIOUS
    <3> QED
      BY <1>2, <3>1
  <2>2. \A i, j \in 1 .. n : place[i] = place[j] => i = j
    <3> SUFFICES ASSUME NEW i \in 1 .. n, NEW j \in 1 .. n, place[i] = place[j], i # j
                 PROVE  FALSE
      OBVIOUS
    <3>1. (i < j \/ j < i) /\ i \in 1 .. 9 /\ j \in 1 .. 9
      BY <2>1
    <3>2. place[i] < place[j] \/ place[j] < place[i]
      BY <1>3, <3>1
    <3>3. place[i] \in Nat /\ place[j] \in Nat
      BY <2>1
    <3> QED
      BY <3>2, <3>3
  <2>3. f \in Bijection(1 .. n, Upto(n))
    BY <2>2 DEF Bijection, Injection, Surjection, IsInjective
  <2> HIDE DEF f, Upto
  <2>4. ExistsBijection(1 .. n, Upto(n))
    BY <2>3, Zenon DEF ExistsBijection
  <2>5. n \in Nat
    OBVIOUS
  <2> QED
    BY <2>4, <2>5, FS_CountingElements, Zenon
<1>5. ASSUME NEW n \in 1 .. 9
      PROVE  {j \in S : j <= place[n]} = Upto(n)
  <2>1. ASSUME NEW i \in 1 .. 9
        PROVE  place[i] <= place[n] <=> i <= n
    <3>1. place[i] \in Nat /\ place[n] \in Nat
      BY <1>2
    <3>2. i < n \/ i = n \/ n < i
      OBVIOUS
    <3>3. (i < n => place[i] < place[n]) /\ (n < i => place[n] < place[i])
      BY <1>3
    <3> QED
      BY <3>1, <3>2, <3>3
  <2>2. \A i : i \in 1 .. n <=> i \in 1 .. 9 /\ i <= n
    OBVIOUS
  <2> QED
    BY <2>1, <2>2
<1>6. \A k \in S : T[k] = Cardinality({j \in S : j <= k})
  <2> SUFFICES ASSUME NEW n \in 1 .. 9
               PROVE  T[place[n]] = Cardinality({j \in S : j <= place[n]})
    OBVIOUS
  <2> HIDE DEF S, Upto
  <2> QED
    BY <1>1, <1>4, <1>5
<1>7. S \in SUBSET DOMAIN T
  BY <1>1
<1>8. Cardinality(S) = 9
  BY <1>4
<1> HIDE DEF S
<1> QED
  BY <1>6, <1>7, <1>8

(* A heading for each section, after the one of the section before.        *)
IsReading(places, T) ==
  /\ places \in [1 .. 9 -> DOMAIN T]
  /\ \A n \in 1 .. 9 : T[places[n]] = n
  /\ \A n \in 2 .. 9 : places[n - 1] < places[n]

(* There is one where the numbers of some headings count them.             *)
LEMMA HeadingsInOrder ==
  ASSUME NEW T \in Seq(Nat), NEW S \in SUBSET DOMAIN T, Cardinality(S) = 9,
         \A k \in S : T[k] = Cardinality({j \in S : j <= k})
  PROVE  \E places : IsReading(places, T)
<1> DEFINE Upto(k) == {j \in S : j <= k}
<1>1. IsFiniteSet(S) /\ S \subseteq Nat
  <2>1. DOMAIN T = 1 .. Len(T) /\ Len(T) \in Nat
    OBVIOUS
  <2>2. IsFiniteSet(DOMAIN T)
    BY <2>1, FS_Interval
  <2> QED
    BY <2>1, <2>2, FS_Subset
<1>2. ASSUME NEW k \in S
      PROVE  T[k] \in 1 .. 9 /\ IsFiniteSet(Upto(k)) /\ T[k] = Cardinality(Upto(k))
  <2>1. Upto(k) \in SUBSET S /\ Upto(k) # {}
    BY <1>1
  <2> HIDE DEF Upto
  <2>2. IsFiniteSet(Upto(k)) /\ Cardinality(Upto(k)) <= 9
    BY <1>1, <2>1, FS_Subset
  <2>3. Cardinality(Upto(k)) \in Nat /\ Cardinality(Upto(k)) # 0
    BY <2>1, <2>2, FS_CardinalityType, FS_EmptySet
  <2>4. T[k] = Cardinality(Upto(k))
    BY DEF Upto
  <2> QED
    BY <2>2, <2>3, <2>4
<1>3. ASSUME NEW k \in S, NEW l \in S, k < l
      PROVE  T[k] < T[l]
  <2>1. Upto(k) \in SUBSET Upto(l) /\ l \in Upto(l) /\ l \notin Upto(k)
    <3>1. \A j \in S : j \in Nat
      BY <1>1
    <3>2. k \in Nat /\ l \in Nat /\ ~ (l <= k) /\ \A j \in S : j <= k => j <= l
      BY <1>3, <3>1
    <3> QED
      BY <3>2
  <2>2. /\ IsFiniteSet(Upto(l)) /\ T[k] = Cardinality(Upto(k)) /\ T[l] = Cardinality(Upto(l))
        /\ T[k] \in 1 .. 9 /\ T[l] \in 1 .. 9
    BY <1>2
  <2> HIDE DEF Upto
  <2>3. Cardinality(Upto(k)) <= Cardinality(Upto(l))
    BY <2>1, <2>2, FS_Subset
  <2>4. Cardinality(Upto(l)) # Cardinality(Upto(k))
    BY <2>1, <2>2, FS_Subset
  <2> QED
    BY <2>2, <2>3, <2>4
<1> DEFINE number == [k \in S |-> T[k]]
<1>4. number \in Surjection(S, 1 .. 9)
  <2>1. \A k, l \in S : T[k] = T[l] => k = l
    <3> SUFFICES ASSUME NEW k \in S, NEW l \in S, T[k] = T[l], k # l
                 PROVE  FALSE
      OBVIOUS
    <3>1. k < l \/ l < k
      BY <1>1
    <3>2. T[k] < T[l] \/ T[l] < T[k]
      BY <1>3, <3>1
    <3>3. T[k] \in 1 .. 9 /\ T[l] \in 1 .. 9
      BY <1>2
    <3> QED
      BY <3>2, <3>3
  <2>2. number \in Injection(S, 1 .. 9)
    BY <1>2, <2>1 DEF Injection, IsInjective
  <2>3. IsFiniteSet(1 .. 9) /\ Cardinality(1 .. 9) = 9
    <3>1. 1 \in Int /\ 9 \in Int /\ ~ (1 > 9) /\ 9 - 1 + 1 = 9
      OBVIOUS
    <3> HIDE DEF number
    <3> QED
      BY <3>1, FS_Interval
  <2> HIDE DEF number
  <2> QED
    BY <2>2, <2>3, FS_Injection
<1>5. \A n \in 1 .. 9 : \E k \in S : T[k] = n
  BY <1>4 DEF Surjection
<1> DEFINE read == [n \in 1 .. 9 |-> CHOOSE k \in S : T[k] = n]
<1>6. \A n \in 1 .. 9 : read[n] \in S /\ T[read[n]] = n
  BY <1>5
<1>7. read \in [1 .. 9 -> DOMAIN T]
  BY <1>6
<1> HIDE DEF read
<1>8. ASSUME NEW n \in 2 .. 9
      PROVE  read[n - 1] < read[n]
  <2>1. n \in 1 .. 9 /\ n - 1 \in 1 .. 9
    OBVIOUS
  <2>2. read[n] \in S /\ read[n - 1] \in S /\ T[read[n]] = n /\ T[read[n - 1]] = n - 1
    BY <1>6, <2>1
  <2>3. read[n] # read[n - 1] /\ ~ (n < n - 1)
    BY <2>2
  <2>4. ~ (read[n] < read[n - 1])
    BY <1>3, <2>2, <2>3
  <2>5. read[n] \in Nat /\ read[n - 1] \in Nat
    BY <1>1, <2>2
  <2> QED
    BY <2>3, <2>4, <2>5
<1> QED
  BY <1>6, <1>7, <1>8 DEF IsReading

(* The greedy search keeps ahead of any such reading and misses nothing.   *)
LEMMA OrderIsFound ==
  ASSUME NEW T \in Seq(Nat), NEW place, IsTrail(place, T, 9),
         NEW read, IsReading(read, T)
  PROVE  \A n \in 1 .. 9 : FoundAfter(T, n, place[n - 1]) # 0
<1> DEFINE Ahead(n) == n = 0 \/ place[n] <= read[n]
<1>1. /\ place[0] = 0 /\ \A n \in 0 .. 9 : place[n] \in Nat
      /\ \A n \in 1 .. 9 : place[n] = SearchOn(T, n, place[n - 1])
  BY DEF IsTrail
<1>2. /\ \A n \in 1 .. 9 : read[n] \in DOMAIN T /\ T[read[n]] = n
                           /\ read[n] \in Nat /\ read[n] > 0
      /\ \A n \in 2 .. 9 : read[n - 1] < read[n]
  <2>1. \A k \in DOMAIN T : k \in Nat /\ k > 0
    <3>1. DOMAIN T = 1 .. Len(T) /\ Len(T) \in Nat
      OBVIOUS
    <3> QED
      BY <3>1
  <2>2. \A n \in 1 .. 9 : read[n] \in DOMAIN T
    BY DEF IsReading
  <2> QED
    BY <2>1, <2>2 DEF IsReading
<1>3. ASSUME NEW n \in 1 .. 9, Ahead(n - 1)
      PROVE  FoundAfter(T, n, place[n - 1]) # 0 /\ Ahead(n)
  <2>1. n - 1 \in 0 .. 9 /\ (n = 1 \/ (n \in 2 .. 9 /\ n - 1 \in 1 .. 9))
    OBVIOUS
  <2>2. place[n - 1] \in Nat
    BY <1>1, <2>1
  <2>3. place[n - 1] < read[n]
    <3>1. CASE n = 1
      <4>1. read[n] \in Nat /\ read[n] > 0
        BY <1>2
      <4>2. n - 1 = 0
        BY <3>1
      <4>3. place[n - 1] = 0
        BY <1>1, <4>2
      <4> QED
        BY <4>1, <4>3
    <3>2. CASE n \in 2 .. 9 /\ n - 1 \in 1 .. 9
      <4>1. n - 1 # 0
        BY <3>2
      <4>2. place[n - 1] <= read[n - 1]
        BY <1>3, <4>1
      <4>3. read[n - 1] < read[n]
        BY <1>2, <3>2
      <4>4. read[n - 1] \in Nat /\ read[n] \in Nat
        BY <1>2, <3>2
      <4> QED
        BY <2>2, <4>2, <4>3, <4>4
    <3> QED
      BY <2>1, <3>1, <3>2
  <2>4. FoundAfter(T, n, place[n - 1]) # 0 /\ FoundAfter(T, n, place[n - 1]) <= read[n]
    <3>1. read[n] \in DOMAIN T /\ T[read[n]] = n
      BY <1>2
    <3> QED
      BY <2>2, <2>3, <3>1, FoundAfterIsFirst
  <2> QED
    BY <1>1, <2>4 DEF SearchOn
<1>4. \A n \in 0 .. 9 : Ahead(n)
  <2> DEFINE W == {n \in 0 .. 9 : ~ Ahead(n)}
  <2> SUFFICES ASSUME W # {} PROVE FALSE
    OBVIOUS
  <2>1. PICK n \in W : \A j \in W : n <= j
    <3> W \in SUBSET Nat
      OBVIOUS
    <3> HIDE DEF W
    <3> QED
      BY LeastRank
  <2>2. n \in 0 .. 9 /\ ~ Ahead(n)
    BY <2>1
  <2> HIDE DEF Ahead
  <2>3. n \in 1 .. 9 /\ n - 1 \in 0 .. 9 /\ ~ (n <= n - 1)
    <3>1. n # 0
      BY <2>2 DEF Ahead
    <3> QED
      BY <2>2, <3>1
  <2>4. Ahead(n - 1)
    BY <2>1, <2>3
  <2> QED
    BY <1>3, <2>2, <2>3, <2>4
<1> HIDE DEF Ahead
<1>5. \A n \in 1 .. 9 : n - 1 \in 0 .. 9
  OBVIOUS
<1> QED
  BY <1>3, <1>4, <1>5

(* lint accepts the provider template exactly when its sections can be     *)
(* read in their order.                                                    *)
THEOREM TemplateOrder == ASSUME NilIsNoMap PROVE CommandSpec => []TemplateInOrder
<1>1. CommandInit => Linted
  BY DEF CommandInit, Linted
<1>2. CommandInv /\ Linted /\ [CommandNext]_allVars => Linted'
  BY NextLinted
<1>3. CommandInv /\ Linted => TemplateInOrder
  <2> SUFFICES ASSUME CommandInv, Linted, at = "exited", command.name = "lint",
                      repo.template # Nil
               PROVE  Section \notin printed
                        <=> \E S \in SUBSET DOMAIN repo.template :
                              /\ Cardinality(S) = 9
                              /\ \A k \in S :
                                   repo.template[k] = Cardinality({j \in S : j <= k})
    BY DEF TemplateInOrder, Section
  <2>1. repo.template \in Seq(Nat)
    BY TemplatesAreHeadings DEF CommandInv, Placed
  <2>2. Section \in printed <=> Section \in CheckUseAProviderTemplate(repo.template)
    BY OnlyTheTemplate DEF Linted
  <2>3. PICK place :
          /\ IsTrail(place, repo.template, 9)
          /\ Section \notin CheckUseAProviderTemplate(repo.template)
               <=> \A n \in 1 .. 9 : FoundAfter(repo.template, n, place[n - 1]) # 0
    BY <2>1, SectionsAreFound
  <2>4. ASSUME NEW S \in SUBSET DOMAIN repo.template, Cardinality(S) = 9,
               \A k \in S : repo.template[k] = Cardinality({j \in S : j <= k})
        PROVE  \A n \in 1 .. 9 : FoundAfter(repo.template, n, place[n - 1]) # 0
    <3>1. PICK places : IsReading(places, repo.template)
      BY <2>1, <2>4, HeadingsInOrder
    <3> QED
      BY <2>1, <2>3, <3>1, OrderIsFound
  <2>5. ASSUME \A n \in 1 .. 9 : FoundAfter(repo.template, n, place[n - 1]) # 0
        PROVE  \E S \in SUBSET DOMAIN repo.template :
                 /\ Cardinality(S) = 9
                 /\ \A k \in S : repo.template[k] = Cardinality({j \in S : j <= k})
    BY <2>1, <2>3, <2>5, SearchReadsInOrder
  <2> QED
    BY <2>2, <2>3, <2>4, <2>5
<1> QED
  BY <1>1, <1>2, <1>3, CommandInvariance, PTL DEF CommandSpec

=============================================================================
