------------------------------- MODULE TreeCodec -------------------------------
(***************************************************************************)
(* Trees, blobs and the path map as values and as files: crates/core/src/  *)
(* tree.rs, blob.rs, hash.rs and crates/journal/src/pathmap.rs.            *)
(*                                                                         *)
(* No two objects have the same SHA-1: a hash is modelled by the object it *)
(* is the hash of.  Compression, headers and decimal lengths are left out: *)
(* what they serve for, to tell a file that was cut off from a complete    *)
(* one, is Torn.                                                           *)
(***************************************************************************)
EXTENDS Naturals

CONSTANTS
  Torn,       \* a file of which only a part has been written
  Corrupt     \* the answer of a reader that gives up

ASSUME CodecAssumption == Torn # Corrupt

-----------------------------------------------------------------------------
(* Entries.                                                                *)

Plain == \o100644
Executable == \o100755
Link == \o120000
Directory == \o040000

(* git_mode: a plain file has the mode it was given.                       *)
GitMode(e) ==
  CASE e.kind = "File" -> e.mode
    [] e.kind = "ExecutableFile" -> Executable
    [] e.kind = "Symlink" -> Link
    [] e.kind = "Tree" -> Directory

FromGitMode(mode) ==
  CASE mode = Directory -> "Tree"
    [] mode = Executable -> "ExecutableFile"
    [] mode = Link -> "Symlink"
    [] OTHER -> "File"

(* mode & 0o111.                                                           *)
AnyoneExecutes(mode) == \E bit \in {1, 8, 64} : (mode \div bit) % 2 = 1

FileEntry(mode, hash) ==
  IF AnyoneExecutes(mode)
  THEN [kind |-> "ExecutableFile", mode |-> Executable, hash |-> hash]
  ELSE [kind |-> "File", mode |-> Plain, hash |-> hash]

LinkEntry(hash) == [kind |-> "Symlink", mode |-> Link, hash |-> hash]

-----------------------------------------------------------------------------
(* Objects.                                                                *)

BlobOf(data) == [kind |-> "blob", body |-> data]

(* "<mode> <name>\0<hash>" for every entry.  They are sorted by name, so   *)
(* that the set of them says it all.                                       *)
Listing(tree) ==
  {[mode |-> GitMode(tree[p]), name |-> p, hash |-> tree[p].hash] : p \in DOMAIN tree}

TreeObject(tree) == [kind |-> "tree", body |-> Listing(tree)]

(* A mistake: every regular file is listed as 100644.                      *)
ListingPlain(tree) ==
  {[mode |-> IF tree[p].kind = "Symlink" THEN Link ELSE Plain, name |-> p, hash |-> tree[p].hash] : p \in DOMAIN tree}

(* The kind of an entry is derived from its mode.                          *)
Parsed(listing) ==
  [p \in {l.name : l \in listing} |->
     LET l == CHOOSE l \in listing : l.name = p
     IN  [kind |-> FromGitMode(l.mode), mode |-> l.mode, hash |-> l.hash]]

(* read_from_bytes: the data of a blob.                                    *)
BlobIn(bytes) ==
  IF bytes = Torn \/ bytes = Corrupt THEN Corrupt
  ELSE IF bytes.kind = "blob" THEN bytes.body ELSE Corrupt

(* Tree::deserialize.                                                      *)
TreeIn(bytes) ==
  IF bytes = Torn \/ bytes = Corrupt THEN Corrupt
  ELSE IF bytes.kind = "tree" THEN Parsed(bytes.body) ELSE Corrupt

-----------------------------------------------------------------------------
(* The path map: kind and mode of an entry are both written, and read      *)
(* back as they are.                                                       *)

KindByte == [k \in {"File", "ExecutableFile", "Symlink", "Tree"} |->
  CASE k = "File" -> 0 [] k = "ExecutableFile" -> 1 [] k = "Symlink" -> 2 [] k = "Tree" -> 3]

MapObject(map) ==
  [kind |-> "PMV2",
   body |-> {[name |-> p, byte |-> KindByte[map[p].kind], mode |-> map[p].mode,
              hash |-> map[p].hash] : p \in DOMAIN map}]

KindOf(byte) == CHOOSE k \in DOMAIN KindByte : KindByte[k] = byte

MapIn(bytes) ==
  IF bytes = Torn \/ bytes = Corrupt THEN Corrupt
  ELSE IF bytes.kind # "PMV2" THEN Corrupt
  ELSE [p \in {l.name : l \in bytes.body} |->
          LET l == CHOOSE l \in bytes.body : l.name = p
          IN  [kind |-> KindOf(l.byte), mode |-> l.mode, hash |-> l.hash]]

-----------------------------------------------------------------------------
(* Maps from paths to entries.                                             *)

NoEntries == [p \in {} |-> Corrupt]

With(map, path, entry) ==
  [p \in DOMAIN map \cup {path} |-> IF p = path THEN entry ELSE map[p]]

Without(map, path) == [p \in DOMAIN map \ {path} |-> map[p]]
===============================================================================
