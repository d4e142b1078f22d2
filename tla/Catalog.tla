------------------------------ MODULE Catalog -------------------------------
(***************************************************************************)
(* `esiipayment catalog` (internal/catalog): a row for each provider, of   *)
(* either kind, and the columns of the capability matrix.  The Markdown is *)
(* left out.                                                               *)
(***************************************************************************)
EXTENDS Repository, SequencesExt

(* The columns of the matrix: a second list of the operations.             *)
OperationOrder == <<"collect", "sync", "payout", "cancel", "refund", "webhook">>

(* loadRow, Nil on an error.                                               *)
RowOf(doc, native) ==
  [provider |-> doc.provider, operations |-> doc.capabilities.operations,
   next_actions |-> doc.capabilities.next_actions, native |-> native]

(* Mutant of LoadRow: the kind is decided by the manifest.                 *)
LoadRowByManifest(dir) ==
  LET native == dir.manifest = Nil
      doc    == Load(IF native THEN dir.capabilities ELSE dir.manifest)
  IN  IF doc = Nil THEN Nil ELSE RowOf(doc, native)

LoadRow(dir) ==
  LET native == IsNativeProvider(dir)
      doc    == Load(IF native THEN dir.capabilities ELSE dir.manifest)
  IN  IF doc = Nil THEN Nil ELSE RowOf(doc, native)

(* The first directory that does not load ends the whole of Generate.      *)
Generates(repo) ==
  /\ repo.providers # Nil
  /\ \A p \in Providers(repo) :
       /\ LoadRow(repo.providers[p]) # Nil
       /\ Load(repo.providers[p].metadata) # Nil

(* sort.Slice by slug: rows of one slug come in either order.              *)
Catalogs(repo) ==
  {s \in SetToSeqs(Providers(repo)) :
     \A i, j \in DOMAIN s :
       i < j => Rank[LoadRow(repo.providers[s[i]]).provider]
                  <= Rank[LoadRow(repo.providers[s[j]]).provider]}

(* The cells of the matrix that are ticked for a provider.                 *)
Ticked(row) == {op \in ToSet(OperationOrder) : op \in row.operations}

=============================================================================
