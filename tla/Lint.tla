-------------------------------- MODULE Lint --------------------------------
(***************************************************************************)
(* `esiipayment lint` (checks/lint.go), as the set of rules it reports for *)
(* a repository:                                                           *)
(*   extensions   of the files under providers/, vectors/ and schema/      *)
(*   messages     Nil, or a map from a file's language to Nil, for no      *)
(*                JSON, or to [language, messages]                         *)
(*   snippets     the references [target, section] of the pages in docs/   *)
(*   marks        for each file a reference may name, the section marks    *)
(*                <<"start" | "end", section>> in its text                 *)
(*   template     Nil, or the headings of TEMPLATE.md in their order, the  *)
(*                nine required sections being 1 .. 9                      *)
(***************************************************************************)
EXTENDS ProviderChecks, SequencesExt

ForbiddenCodeExtensions == {".cs", ".py", ".ts", ".js", ".go", ".php", ".rb", ".java"}
RequiredTemplateSections == <<1, 2, 3, 4, 5, 6, 7, 8, 9>>

(* Mutant of FoundAfter: every section is searched for from the top.       *)
FoundAnywhere(headings, section, from) ==
  SelectInSeq(headings, LAMBDA h : h = section)

(* The first place of a section after another, 0 when there is none.       *)
FoundAfter(headings, section, from) ==
  SelectInSubSeq(headings, from + 1, Len(headings), LAMBDA h : h = section)

(* A missing section does not move the place where the search goes on.     *)
SearchOn(headings, section, from) ==
  LET found == FoundAfter(headings, section, from) IN IF found = 0 THEN from ELSE found

(* That place, as the set that holds it, after so many sections.           *)
SearchFrom(headings) ==
  LET place[n \in 0 .. 9] ==
        IF n = 0 THEN {0}
        ELSE {SearchOn(headings, RequiredTemplateSections[n], from) : from \in place[n - 1]}
  IN  place

CheckUseAProviderTemplate(template) ==
  Rule("missing-template-section",
       /\ template # Nil
       /\ \E n \in DOMAIN RequiredTemplateSections : \E from \in SearchFrom(template)[n - 1] :
            FoundAfter(template, RequiredTemplateSections[n], from) = 0)

CheckSnippetReferences(repo) ==
  Rule("missing-snippet-target", \E r \in repo.snippets : r.target \notin DOMAIN repo.marks)
  \cup Rule("missing-snippet-section",
            \E r \in repo.snippets :
              /\ r.target \in DOMAIN repo.marks /\ r.section # ""
              /\ ~ {<<"start", r.section>>, <<"end", r.section>>} \subseteq repo.marks[r.target])

(* Mutant of CheckCatalogue: the messages are not counted.                 *)
CheckLanguage(file, mc) ==
  IF mc = Nil THEN {"parse"} ELSE Rule("messages-mismatch", mc.language # file)

CheckCatalogue(file, mc) ==
  IF mc = Nil THEN {"parse"}
  ELSE UNION {Rule("messages-mismatch", mc.language # file),
              Rule("missing-message",
                   \E code \in FailureCodes :
                     code \notin DOMAIN mc.messages \/ Blank(mc.messages[code])),
              Rule("closed-enum", ~ DOMAIN mc.messages \subseteq FailureCodes)}

CheckMessages(messages) ==
  IF messages = Nil THEN {}
  ELSE UNION {CheckCatalogue(file, messages[file]) : file \in DOMAIN messages}

CheckNoCodeFiles(extensions) ==
  Rule("no-code-in-data-dirs", extensions \cap ForbiddenCodeExtensions # {})

CheckAllProviders(repo) ==
  IF repo.providers = Nil THEN {"io"}
  ELSE UNION {ValidateProvider(repo.providers[p]) : p \in Providers(repo)}

LintRepo(repo) ==
  UNION {CheckNoCodeFiles(repo.extensions), CheckAllProviders(repo),
         CheckMessages(repo.messages), CheckSnippetReferences(repo),
         CheckUseAProviderTemplate(repo.template)}

=============================================================================
