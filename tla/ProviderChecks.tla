--------------------------- MODULE ProviderChecks ---------------------------
(***************************************************************************)
(* ValidateProvider: the checks of a provider directory as a whole, of     *)
(* either kind: a manifest.yaml (checks/manifest.go) or a                  *)
(* capabilities.yaml whose provider is native code (checks/native.go).     *)
(* A golden file is [text, value]: its text is "empty", "other" for no     *)
(* JSON, "json", or "canonical" when it is the canonical JSON of value.    *)
(***************************************************************************)
EXTENDS ManifestChecks, Repository

(* Mutant of CheckCassetteCoverage: any cassette will do.                  *)
CheckSomeCassette(operations, cassettes) ==
  Rule("missing-cassette-coverage", operations # {} /\ DOMAIN cassettes = {})

CheckCassetteCoverage(operations, cassettes) ==
  Rule("missing-cassette-coverage",
       ~ operations \subseteq {c.operation : c \in ValuesOf(cassettes)})

CheckMetadata(provider, md) ==
  LET dated == {md.docs_verified_on, md.verified_by} IN
  UNION {Rule("metadata-mismatch", md.provider # provider),
         Rule("closed-enum", \/ md.tier \notin MetadataTiers
                             \/ md.status \notin VerificationStatuses),
         Rule("verification-consistency",
              \/ md.status = "provisional" /\ dated # {Nil}
              \/ md.status = "verified" /\ Nil \in dated),
         Rule("tier-requires-maintainer",
              md.tier \in {"certified", "official"} /\ md.maintainers = {})}

CheckNativeRequiredFields(c) ==
  Rule("required-field",
       \/ \E s \in {c.provider, c.spec_version, c.display_name, c.country} : Blank(s)
       \/ c.implementation # "native" \/ c.currencies = {})

IsJson(golden) == golden.text \in {"json", "canonical"}

CheckNativeGoldenFiles(dir, cassettes) ==
  Rule("missing-golden-file", ~ DOMAIN cassettes \subseteq DOMAIN dir.expected)
  \cup Rule("malformed-golden-file",
            \E n \in DOMAIN cassettes \cap DOMAIN dir.expected : ~ IsJson(dir.expected[n]))

(* What does not load beside the document that names the provider.         *)
LoadedCassettes(dir) == IF LoadCassettes(dir) = Nil THEN EmptyMap ELSE LoadCassettes(dir)

Beside(dir, doc) ==
  Rule("parse", Load(dir.metadata) = Nil \/ LoadCassettes(dir) = Nil)
  \cup CheckCassetteCoverage(doc.capabilities.operations, LoadedCassettes(dir))
  \cup (IF Load(dir.metadata) = Nil THEN {} ELSE CheckMetadata(doc.provider, Load(dir.metadata)))

ValidateManifestProvider(dir) ==
  IF dir.manifest = Nil THEN {"io"}
  ELSE Rule("schema-header", ~ dir.manifest.header)
       \cup (IF Load(dir.manifest) = Nil THEN {"parse"}
             ELSE ManifestFindings(dir.manifest.doc) \cup Beside(dir, dir.manifest.doc))

ValidateNativeProvider(dir) ==
  LET c == Load(dir.capabilities) IN
  Rule("schema-header", ~ dir.capabilities.header)
  \cup (IF c = Nil THEN {"parse"}
        ELSE UNION {CheckNativeRequiredFields(c), CheckSpecVersion(c.spec_version),
                    CheckClosedEnums(c), CheckNativeGoldenFiles(dir, LoadedCassettes(dir)),
                    Beside(dir, c)})

ValidateProvider(dir) ==
  IF IsNativeProvider(dir) THEN ValidateNativeProvider(dir) ELSE ValidateManifestProvider(dir)

=============================================================================
