----------------------------- MODULE Repository -----------------------------
(***************************************************************************)
(* The checked-out repository as the tool finds it on disk (internal/      *)
(* model/load.go).  A YAML file is Nil when there is none, and otherwise   *)
(*   [header, doc]   whether its first line is the schema header the       *)
(*                   checks ask for, and what decodeStrict makes of it,    *)
(*                   Nil when it refuses the text                          *)
(* A directory under providers/ is                                         *)
(*   [is_dir, skeleton, manifest, capabilities, metadata, cassettes,       *)
(*    expected]                                                            *)
(* where skeleton tells a name that begins with "_", cassettes is Nil or a *)
(* map from file names to [yaml, doc], and expected a map from the names   *)
(* of cassettes to the golden file beside them.                            *)
(***************************************************************************)
EXTENDS Flows, FiniteSets

CONSTANT Rank               \* the place of a file name in the byte order

ASSUME RanksAreDistinct ==
  /\ Rank \in [DOMAIN Rank -> Nat]
  /\ \A m, n \in DOMAIN Rank : Rank[m] = Rank[n] => m = n

(* The names in the order sort.Strings and os.ReadDir give them.           *)
First(names) == CHOOSE n \in names : \A m \in names \ {n} : Rank[n] < Rank[m]

Absent ==
  [is_dir |-> TRUE, skeleton |-> FALSE, manifest |-> Nil, capabilities |-> Nil,
   metadata |-> Nil, cassettes |-> Nil, expected |-> EmptyMap]

IsNativeProvider(dir) == dir.capabilities # Nil

(* LoadManifest, LoadCapabilities and LoadMetadata; Nil where they fail.   *)
Load(file) == IF file = Nil THEN Nil ELSE file.doc

(* A file with any other extension is passed over in silence.              *)
CassetteFiles(dir) ==
  IF dir.cassettes = Nil THEN {}
  ELSE {n \in DOMAIN dir.cassettes : dir.cassettes[n].yaml}

(* One cassette that does not parse fails them all.                        *)
LoadCassettes(dir) ==
  IF \E n \in CassetteFiles(dir) : dir.cassettes[n].doc = Nil THEN Nil
  ELSE [n \in CassetteFiles(dir) |-> dir.cassettes[n].doc]

(* Every walk over providers/ passes over files and skeletons.             *)
IsProvider(dir) == dir.is_dir /\ ~ dir.skeleton
Providers(repo) == {p \in DOMAIN repo.providers : IsProvider(repo.providers[p])}

Directory(repo, name) ==
  IF repo.providers # Nil /\ name \in DOMAIN repo.providers
  THEN repo.providers[name] ELSE Absent

=============================================================================
