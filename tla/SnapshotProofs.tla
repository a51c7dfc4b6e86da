---------------------------- MODULE SnapshotProofs ----------------------------
(***************************************************************************)
(* Proofs about Snapshot.tla, for any files, edits, commits and numbers of *)
(* errors and deaths: what is in the object store is whole and readable;   *)
(* what the journal records can be restored unless the power fails; what   *)
(* the loop records of a path was there, or where it led to.               *)
(*                                                                         *)
(* The first two rest on an invariant of the store and of what the writers *)
(* are at (SnapshotInv); the second also on where every name comes from    *)
(* (KeptInv); the third on what the loop knows of the files (FaithInv).    *)
(***************************************************************************)
EXTENDS Snapshot, TLAPS

(* Neither a torn file nor the answer Corrupt is a function: no record, no *)
(* object, no tree.                                                        *)
NoFunction(v) == v # [x \in DOMAIN v |-> v[x]]
MarksAreNoValues == NoFunction(Torn) /\ NoFunction(Corrupt)

-------------------------------------------------------------------------------
(* What files may hold, what links may, and the objects made of them.      *)

MayBe(p, v) ==
  \/ v \in Values[p] \/ \E fs \in StartFiles : v = Seen(fs[p])
  \/ p \in DOMAIN Commit /\ v = Commit[p]

(* A path may have become a link: what is read there may be of any file,   *)
(* and of two versions of it.                                              *)
IsFirst(x) == \E p \in Path : \E v : MayBe(p, v) /\ v.kind = "file" /\ x = v.data[1]
IsRest(x) == \E p \in Path : \E v : MayBe(p, v) /\ v.kind = "file" /\ x = v.data[2]

TextOfFile == {d \in Data \X Data : IsFirst(d[1]) /\ IsRest(d[2])}
TextOfLink(p) == {d \in Data \X Data : \E v : MayBe(p, v) /\ v.kind = "link" /\ d = v.data}

FileBlob == {BlobOf(d) : d \in TextOfFile}
LinkBlob(p) == {BlobOf(d) : d \in TextOfLink(p)}
Blob == FileBlob \cup UNION {LinkBlob(p) : p \in Path}

EntryAt(p) ==
  {[kind |-> "File", mode |-> Plain, hash |-> h] : h \in FileBlob}
    \cup {[kind |-> "ExecutableFile", mode |-> Executable, hash |-> h] : h \in FileBlob}
    \cup {[kind |-> "Symlink", mode |-> Link, hash |-> h] : h \in LinkBlob(p)}
EntrySet == UNION {EntryAt(p) : p \in Path}

Maps == {m \in UNION {[S -> EntrySet] : S \in SUBSET Path} :
           \A p \in DOMAIN m : m[p] \in EntryAt(p)}
TreeSet == {TreeObject(m) : m \in Maps}
MapSet == {MapObject(m) : m \in Maps}

LEMMA Modes ==
  /\ ~AnyoneExecutes(Plain) /\ AnyoneExecutes(Executable)
  /\ Plain # Link /\ Executable # Link /\ Plain # Executable
  /\ Directory \notin {Plain, Executable, Link}
  BY DEF AnyoneExecutes, Plain, Executable, Link, Directory

(* Kind, mode and hash of an entry survive the tree, though only mode and  *)
(* hash are written.                                                       *)
LEMMA EntryCodec ==
  ASSUME NEW e \in EntrySet
  PROVE  /\ e = [kind |-> FromGitMode(GitMode(e)), mode |-> GitMode(e), hash |-> e.hash]
         /\ e.hash \in Blob /\ GitMode(e) = e.mode
         /\ e.kind \in DOMAIN KindByte
<1>1. PICK p \in Path : e \in EntryAt(p)
  BY DEF EntrySet
<1>2. e.kind \in DOMAIN KindByte
  BY <1>1 DEF KindByte, EntryAt
<1>3. e.hash \in Blob
  BY <1>1 DEF EntryAt, Blob
<1> QED
  BY <1>1, <1>2, <1>3, Modes DEF EntryAt, FromGitMode, GitMode

LEMMA TreeCodecInverse ==
  ASSUME NEW m \in Maps
  PROVE  Parsed(Listing(m)) = m
<1>1. PICK S \in SUBSET Path : m \in [S -> EntrySet]
  BY DEF Maps
<1> DEFINE Line(p) == [mode |-> GitMode(m[p]), name |-> p, hash |-> m[p].hash]
           L == Listing(m)
<1>2. L = {Line(p) : p \in S}
  BY <1>1 DEF Listing
<1>3. {l.name : l \in L} = S
  <2>1. \A l \in L : l.name \in S
    BY <1>2
  <2>2. \A p \in S : Line(p) \in L /\ Line(p).name = p
    BY <1>2
  <2> HIDE DEF L, Line
  <2> QED
    BY <2>1, <2>2
<1>4. ASSUME NEW p \in S
      PROVE  (CHOOSE l \in L : l.name = p) = Line(p)
  BY <1>2, <1>4
<1>5. ASSUME NEW p \in S
      PROVE  m[p] = [kind |-> FromGitMode(Line(p).mode), mode |-> Line(p).mode,
                     hash |-> Line(p).hash]
  BY <1>1, <1>5, EntryCodec
<1>6. Parsed(L) = [p \in S |->
         LET l == CHOOSE l \in L : l.name = p
         IN  [kind |-> FromGitMode(l.mode), mode |-> l.mode, hash |-> l.hash]]
  BY <1>3 DEF Parsed
<1> HIDE DEF L, Line
<1>7. Parsed(L) = [p \in S |-> m[p]]
  BY <1>4, <1>5, <1>6
<1> QED
  BY <1>1, <1>7 DEF L

LEMMA Bytes ==
  ASSUME NEW k \in DOMAIN KindByte PROVE KindOf(KindByte[k]) = k
  BY DEF KindOf, KindByte

LEMMA MapCodecInverse ==
  ASSUME NEW m \in Maps, MarksAreNoValues
  PROVE  MapIn(MapObject(m)) = m
<1>1. PICK S \in SUBSET Path : m \in [S -> EntrySet]
  BY DEF Maps
<1> DEFINE Line(p) == [name |-> p, byte |-> KindByte[m[p].kind], mode |-> m[p].mode,
                       hash |-> m[p].hash]
           L == {Line(p) : p \in DOMAIN m}
<1>2. MapObject(m) = [kind |-> "PMV2", body |-> L]
  BY DEF MapObject
<1>3. MapObject(m) # Torn /\ MapObject(m) # Corrupt
  BY <1>2 DEF MarksAreNoValues, NoFunction
<1>4. {l.name : l \in L} = S
  <2>1. \A l \in L : l.name \in S
    BY <1>1
  <2>2. \A p \in S : Line(p) \in L /\ Line(p).name = p
    BY <1>1
  <2> HIDE DEF L, Line
  <2> QED
    BY <2>1, <2>2
<1>5. ASSUME NEW p \in S
      PROVE  (CHOOSE l \in L : l.name = p) = Line(p)
  BY <1>1, <1>5
<1>6. ASSUME NEW p \in S
      PROVE  m[p] = [kind |-> KindOf(Line(p).byte), mode |-> Line(p).mode,
                     hash |-> Line(p).hash]
  <2>1. m[p] \in EntrySet
    BY <1>1, <1>6
  <2>2. m[p] = [kind |-> m[p].kind, mode |-> m[p].mode, hash |-> m[p].hash]
    BY <2>1, EntryCodec
  <2> QED
    BY <2>1, <2>2, EntryCodec, Bytes
<1>7. MapIn(MapObject(m)) = [p \in S |->
         LET l == CHOOSE l \in L : l.name = p
         IN  [kind |-> KindOf(l.byte), mode |-> l.mode, hash |-> l.hash]]
  BY <1>2, <1>3, <1>4 DEF MapIn
<1> HIDE DEF L, Line
<1>8. MapIn(MapObject(m)) = [p \in S |-> m[p]]
  BY <1>5, <1>6, <1>7
<1> QED
  BY <1>1, <1>8

-------------------------------------------------------------------------------
(* The store.  A file under tmp/ingest that is renamed is complete; what   *)
(* is at its place is what its name says.                                  *)

Name == {PathMap} \cup Blob \cup TreeSet
Whole(name, bytes) == name \in Name /\ IF name = PathMap THEN bytes \in MapSet ELSE bytes = name

StepSet ==
  {"none", "probe", "create", "fill", "rename", "settle", "git", "cache", "done", "failed"}
IoSet == [step : StepSet, name : Name, bytes : MapSet \cup Blob \cup TreeSet \cup {Corrupt},
          onGit : BOOLEAN]

StoreInv ==
  /\ cached \subseteq DOMAIN disk
  /\ \A n \in DOMAIN disk : Whole(n, disk[n])
  /\ io \in [Writer -> IoSet]
  /\ \A w \in Writer :
       /\ io[w].step = "probe" => io[w].name # PathMap
       /\ io[w].step \in {"create", "fill", "rename"} => Whole(io[w].name, io[w].bytes)
       /\ io[w].step = "rename" /\ w \in DOMAIN tmp => tmp[w] = io[w].bytes
       /\ io[w].step \in {"settle", "git", "cache", "done"} => io[w].name \in DOMAIN disk

(* The name of an object tells what kind of object it is.                  *)
LEMMA Kinds ==
  /\ \A h \in Blob : h.kind = "blob" /\ h # PathMap
  /\ \A h \in TreeSet : h.kind = "tree" /\ h # PathMap
<1>1. \A d : BlobOf(d).kind = "blob"
  BY DEF BlobOf
<1>2. \A m : TreeObject(m).kind = "tree"
  BY DEF TreeObject
<1> QED
  BY <1>1, <1>2 DEF Blob, FileBlob, LinkBlob, TreeSet, PathMap

LEMMA ReadBack ==
  ASSUME MarksAreNoValues
  PROVE  /\ \A h \in Blob : BlobIn(h) # Corrupt /\ BlobOf(BlobIn(h)) = h
         /\ \A m \in Maps : TreeIn(TreeObject(m)) = m /\ m # Corrupt
<1>1. ASSUME NEW h \in Blob PROVE BlobIn(h) # Corrupt /\ BlobOf(BlobIn(h)) = h
  <2>1. PICK d \in Data \X Data : h = [kind |-> "blob", body |-> d]
    BY DEF Blob, FileBlob, LinkBlob, BlobOf, TextOfFile, TextOfLink
  <2>2. h # Torn /\ h # Corrupt
    BY <2>1 DEF MarksAreNoValues, NoFunction
  <2>3. d # Corrupt
    BY SnapshotAssumption
  <2> QED
    BY <2>1, <2>2, <2>3 DEF BlobIn, BlobOf
<1>2. ASSUME NEW m \in Maps PROVE TreeIn(TreeObject(m)) = m /\ m # Corrupt
  <2>1. TreeObject(m) = [kind |-> "tree", body |-> Listing(m)]
    BY DEF TreeObject
  <2>2. TreeObject(m) # Torn /\ TreeObject(m) # Corrupt
    BY <2>1 DEF MarksAreNoValues, NoFunction
  <2>3. TreeIn(TreeObject(m)) = Parsed(Listing(m))
    BY <2>1, <2>2 DEF TreeIn
  <2>4. m # Corrupt
    BY DEF Maps, MarksAreNoValues, NoFunction
  <2> QED
    BY <2>3, <2>4, TreeCodecInverse
<1> QED
  BY <1>1, <1>2

LEMMA WholeIsReadable == MarksAreNoValues /\ StoreInv => ObjectsWhole
<1> SUFFICES ASSUME MarksAreNoValues, StoreInv, NEW n \in DOMAIN disk
             PROVE  IF n = PathMap THEN MapIn(disk[n]) # Corrupt
                    ELSE IF IsBlob(n) THEN ReadBlob(n) # Corrupt
                    ELSE ReadTreeFile(n) # Corrupt
  BY DEF ObjectsWhole
<1>1. Whole(n, disk[n])
  BY DEF StoreInv
<1>2. CASE n = PathMap
  <2>1. PICK m \in Maps : disk[n] = MapObject(m)
    BY <1>1, <1>2 DEF Whole, MapSet
  <2> QED
    BY <1>2, <2>1, MapCodecInverse, ReadBack
<1>3. CASE n # PathMap /\ n \in Blob
  BY <1>1, <1>3, Kinds, ReadBack DEF Whole, IsBlob, ReadBlob
<1>4. CASE n # PathMap /\ n \in TreeSet
  <2>1. PICK m \in Maps : n = TreeObject(m)
    BY <1>4 DEF TreeSet
  <2>2. ~IsBlob(n) /\ disk[n] = n
    BY <1>1, <1>4, Kinds DEF Whole, IsBlob
  <2> QED
    BY <1>4, <2>1, <2>2, ReadBack DEF ReadTreeFile
<1> QED
  BY <1>1, <1>2, <1>3, <1>4 DEF Whole, Name

(* A write may begin with an object, or with a path map.                   *)
LEMMA WriteBegins ==
  ASSUME StoreInv, NEW w \in Writer, NEW name, NEW bytes,
         \/ name \in Blob \cup TreeSet /\ bytes \in Blob \cup TreeSet
         \/ name = PathMap /\ bytes \in MapSet,
         StartWrite(w, name, bytes), UNCHANGED <<disk, tmp>>, cached' \subseteq DOMAIN disk
  PROVE  StoreInv'
  BY Kinds DEF StoreInv, StartWrite, Whole, Name, IoSet, StepSet

LEMMA WriteEnds ==
  ASSUME StoreInv, NEW w \in Writer, NEW s \in {"none", "failed"},
         Step(w, s), UNCHANGED <<disk, tmp, cached>>
  PROVE  StoreInv'
  BY DEF StoreInv, Step, IoSet, StepSet

LEMMA WriteGoesOn ==
  ASSUME StoreInv, NEW w \in Writer, WriteStep(w)
  PROVE  StoreInv'
<1> USE DEF StoreInv, Step, IoSet, StepSet
<1>1. CASE Probe(w)
  BY <1>1 DEF Probe, Whole
<1>2. CASE Create(w)
  BY <1>2 DEF Create, With, TmpFile
<1>3. CASE Fill(w)
  BY <1>3 DEF Fill, With, TmpFile
<1>4. CASE Rename(w)
  BY <1>4 DEF Rename, With, Without, TmpFile
<1>5. CASE Settle(w)
  BY <1>5 DEF Settle
<1>6. CASE GitPut(w)
  BY <1>6 DEF GitPut
<1>7. CASE FillCache(w)
  BY <1>7 DEF FillCache
<1> QED
  BY <1>1, <1>2, <1>3, <1>4, <1>5, <1>6, <1>7 DEF WriteStep

LEMMA WriteStops ==
  ASSUME StoreInv, NEW w \in Writer, WriteFails(w)
  PROVE  StoreInv'
  BY DEF StoreInv, WriteFails, Step, IoSet, StepSet, Without, TmpFile

LEMMA DeathSpares ==
  ASSUME StoreInv, StoreDies
  PROVE  StoreInv'
<1>1. \A w \in Writer : io'[w] = Idle
  BY DEF StoreDies
<1>2. Idle \in IoSet /\ Idle.step = "none"
  BY DEF Idle, IoSet, StepSet, Name
<1>3. \A n \in DOMAIN disk' : n \in DOMAIN disk /\ disk'[n] = disk[n]
  BY DEF StoreDies
<1>4. io' \in [Writer -> IoSet]
  BY <1>2 DEF StoreDies
<1> QED
  BY <1>1, <1>2, <1>3, <1>4 DEF StoreInv, StoreDies

-------------------------------------------------------------------------------
(* The jobs.  What a job has read, it has read of files that there were;   *)
(* its draft is a map of such entries.                                     *)

Fields == DOMAIN NoJob
JobShape == job = [w \in Writer |-> job[w]] /\ \A w \in Writer : DOMAIN job[w] = Fields

JobOK(w) ==
  /\ job[w].draft \in Maps /\ job[w].todo \subseteq Path
  /\ job[w].step \in {"hash", "hashing", "read", "reading"} =>
       job[w].path \in Path /\ job[w].mode # Link
  /\ job[w].step \in {"hashing", "reading"} => IsFirst(job[w].part) /\ IsRest(job[w].rest)
  /\ job[w].step \in {"read", "reading"} => job[w].hash \in FileBlob
  /\ job[w].step = "blob" => /\ job[w].path \in Path
                             /\ EntryOf(job[w].mode, job[w].hash) \in EntryAt(job[w].path)
                             /\ io[w].name = job[w].hash
  /\ job[w].step = "tree" => /\ job[w].hash = TreeObject(job[w].draft)
                             /\ io[w].name = job[w].hash

JobsInv == JobShape /\ \A w \in Writer : JobOK(w)

FilesInv == files = [p \in Path |-> files[p]] /\ \A p \in Path : MayBe(p, Seen(files[p]))

SnapshotInv ==
  /\ StoreInv /\ JobsInv /\ FilesInv
  /\ map \in Maps /\ checkpoints \in Seq(TreeSet)

LEMMA FieldNames ==
  /\ Fields = {"step", "todo", "path", "mode", "tries", "open", "part", "rest", "mtime",
                "hash", "draft", "of"}
  /\ OfFile = {"open", "part", "rest", "mtime"}
  BY DEF Fields, NoJob, OfFile

LEMMA Becoming ==
  ASSUME JobShape, NEW w \in Writer, NEW fields, DOMAIN fields \subseteq Fields,
         Becomes(w, fields)
  PROVE  /\ JobShape'
         /\ \A v \in Writer : v # w => job'[v] = job[v]
         /\ \A x \in Fields : x \in DOMAIN fields => job'[w][x] = fields[x]
         /\ \A x \in Fields \ OfFile : x \notin DOMAIN fields => job'[w][x] = job[w][x]
  BY DEF JobShape, Becomes

LEMMA Seeing ==
  ASSUME NEW p \in Path, NEW v, MayBe(p, v)
  PROVE  /\ v \in Value
         /\ v.kind = "link" => /\ v.mode = Link /\ BlobOf(v.data) \in LinkBlob(p)
         /\ v.kind = "file" => /\ v.mode # Link /\ BlobOf(v.data) \in FileBlob
<1>1. v \in Value
  BY SnapshotAssumption DEF MayBe
<1> QED
  BY <1>1 DEF Value, LinkBlob, FileBlob, TextOfFile, TextOfLink, IsFirst, IsRest

LEMMA ReadText ==
  ASSUME NEW x, NEW y, IsFirst(x), IsRest(y)
  PROVE  BlobOf(<<x, y>>) \in FileBlob
<1>1. x \in Data /\ y \in Data
  BY Seeing DEF IsFirst, IsRest, Value
<1>2. <<x, y>> \in TextOfFile
  BY <1>1 DEF TextOfFile
<1> QED
  BY <1>2 DEF FileBlob

LEMMA NewEntry ==
  ASSUME NEW p \in Path
  PROVE  /\ \A h \in FileBlob : \A mode : mode # Link => EntryOf(mode, h) \in EntryAt(p)
         /\ \A h \in LinkBlob(p) : EntryOf(Link, h) \in EntryAt(p)
         /\ \A mode, h : EntryOf(mode, h) \in EntryAt(p) =>
                            EntryOf(mode, h).hash = h /\ h \in Blob
<1>1. \A mode, h : EntryOf(mode, h).hash = h
  BY DEF EntryOf, LinkEntry, FileEntry
<1>2. \A e \in EntryAt(p) : e.hash \in Blob
  BY DEF EntryAt, Blob
<1>3. \A h \in FileBlob : \A mode : mode # Link => EntryOf(mode, h) \in EntryAt(p)
  BY DEF EntryOf, FileEntry, EntryAt
<1>4. \A h \in LinkBlob(p) : EntryOf(Link, h) \in EntryAt(p)
  BY DEF EntryOf, LinkEntry, EntryAt
<1> QED
  BY <1>1, <1>2, <1>3, <1>4

LEMMA NewMaps ==
  /\ NoEntries \in Maps
  /\ \A m \in Maps, p \in Path : \A e \in EntryAt(p) : With(m, p, e) \in Maps
  /\ \A m \in Maps, p \in Path : Without(m, p) \in Maps
<1>1. NoEntries \in [{} -> EntrySet]
  BY DEF NoEntries
<1>2. ASSUME NEW m \in Maps, NEW p \in Path, NEW e \in EntryAt(p)
      PROVE  With(m, p, e) \in Maps
  <2>1. PICK S \in SUBSET Path : m \in [S -> EntrySet] /\ \A q \in S : m[q] \in EntryAt(q)
    BY DEF Maps
  <2>2. /\ With(m, p, e) \in [S \cup {p} -> EntrySet]
        /\ \A q \in S \cup {p} : With(m, p, e)[q] \in EntryAt(q)
    BY <2>1 DEF With, EntrySet
  <2> QED
    BY <2>2 DEF Maps
<1>3. ASSUME NEW m \in Maps, NEW p \in Path
      PROVE  Without(m, p) \in Maps
  <2>1. PICK S \in SUBSET Path : m \in [S -> EntrySet] /\ \A q \in S : m[q] \in EntryAt(q)
    BY DEF Maps
  <2>2. /\ Without(m, p) \in [S \ {p} -> EntrySet]
        /\ \A q \in S \ {p} : Without(m, p)[q] \in EntryAt(q)
    BY <2>1 DEF Without
  <2> QED
    BY <2>2 DEF Maps
<1> QED
  BY <1>1, <1>2, <1>3 DEF Maps

(* The other writers' jobs are as they were.                               *)
LEMMA OtherJobs ==
  ASSUME NEW w \in Writer, \A v \in Writer : JobOK(v),
         \A v \in Writer \ {w} : job'[v] = job[v] /\ io'[v].name = io[v].name,
         JobOK(w)'
  PROVE  \A v \in Writer : JobOK(v)'
<1> SUFFICES ASSUME NEW v \in Writer \ {w} PROVE JobOK(v)'
  OBVIOUS
<1> QED
  BY DEF JobOK

LEMMA IdleJob ==
  ASSUME NEW w \in Writer, job'[w] = NoJob
  PROVE  JobOK(w)'
  BY NewMaps DEF JobOK, NoJob

LEMMA JobSteps ==
  ASSUME JobsInv, NEW w \in Writer, NEW fields, DOMAIN fields \subseteq Fields,
         Becomes(w, fields), \A v \in Writer \ {w} : io'[v].name = io[v].name,
         JobOK(w)'
  PROVE  JobsInv'
  BY Becoming, OtherJobs DEF JobsInv

LEMMA Putting ==
  ASSUME JobsInv, NEW w \in Writer, NEW p \in Path, NEW entry \in EntryAt(p),
         Put(w, p, entry), \A v \in Writer \ {w} : io'[v].name = io[v].name
  PROVE  JobsInv'
<1> DEFINE fields == [step |-> "visit", todo |-> job[w].todo \ {p},
                      draft |-> With(job[w].draft, p, entry)]
<1>1. Becomes(w, fields) /\ DOMAIN fields \subseteq Fields
  BY FieldNames DEF Put
<1>2. /\ job'[w].step = "visit" /\ job'[w].todo = job[w].todo \ {p}
      /\ job'[w].draft = With(job[w].draft, p, entry)
  BY <1>1, Becoming, FieldNames DEF JobsInv
<1>3. JobOK(w)'
  BY <1>2, NewMaps DEF JobOK, JobsInv
<1> QED
  BY <1>1, <1>3, JobSteps

LEMMA Skipping ==
  ASSUME JobsInv, NEW w \in Writer, NEW p \in Path,
         Skip(w, p), \A v \in Writer \ {w} : io'[v].name = io[v].name
  PROVE  JobsInv'
<1> DEFINE fields == [step |-> "visit", todo |-> job[w].todo \ {p}]
<1>1. Becomes(w, fields) /\ DOMAIN fields \subseteq Fields
  BY FieldNames DEF Skip
<1>2. /\ job'[w].step = "visit" /\ job'[w].todo = job[w].todo \ {p}
      /\ job'[w].draft = job[w].draft
  BY <1>1, Becoming, FieldNames DEF JobsInv
<1>3. JobOK(w)'
  BY <1>2 DEF JobOK, JobsInv
<1> QED
  BY <1>1, <1>3, JobSteps

LEMMA Failing ==
  ASSUME JobsInv, NEW w \in Writer,
         Becomes(w, [step |-> "failed"]), \A v \in Writer \ {w} : io'[v].name = io[v].name
  PROVE  JobsInv'
<1>1. DOMAIN [step |-> "failed"] \subseteq Fields
  BY FieldNames
<1>2. job'[w].step = "failed" /\ job'[w].todo = job[w].todo /\ job'[w].draft = job[w].draft
  BY <1>1, Becoming, FieldNames DEF JobsInv
<1>3. JobOK(w)'
  BY <1>2 DEF JobOK, JobsInv
<1> QED
  BY <1>1, <1>3, JobSteps

LEMMA Storing ==
  ASSUME StoreInv, JobsInv, NEW w \in Writer, NEW p \in Path, NEW mode, NEW data,
         EntryOf(mode, BlobOf(data)) \in EntryAt(p),
         Store(w, p, mode, data), UNCHANGED <<disk, tmp, cached>>
  PROVE  StoreInv' /\ JobsInv'
<1> DEFINE hash == BlobOf(data)
           fields == [step |-> "blob", path |-> p, mode |-> mode, hash |-> hash]
<1>0. hash \in Blob
  BY NewEntry
<1> HIDE DEF hash
<1>1. CASE HasBlob(hash)
  <2>1. Put(w, p, EntryOf(mode, hash)) /\ UNCHANGED io
    BY <1>1 DEF Store, hash
  <2> QED
    BY <2>1, Putting DEF StoreInv, hash
<1>2. CASE ~HasBlob(hash)
  <2>1. Becomes(w, fields) /\ StartWrite(w, hash, hash) /\ DOMAIN fields \subseteq Fields
    BY <1>2, FieldNames DEF Store, hash
  <2>2. StoreInv'
    BY <1>0, <2>1, WriteBegins DEF StoreInv
  <2>3. io'[w].name = hash /\ \A v \in Writer \ {w} : io'[v].name = io[v].name
    BY <2>1 DEF StartWrite, StoreInv
  <2>4. /\ job'[w].step = "blob" /\ job'[w].path = p /\ job'[w].mode = mode
        /\ job'[w].hash = hash /\ job'[w].todo = job[w].todo
        /\ job'[w].draft = job[w].draft
    BY <2>1, Becoming, FieldNames DEF JobsInv
  <2>5. JobOK(w)'
    BY <2>3, <2>4 DEF JobOK, JobsInv, hash
  <2> QED
    BY <2>1, <2>2, <2>3, <2>5, JobSteps
<1> QED
  BY <1>1, <1>2

LEMMA Visiting ==
  ASSUME JobsInv, NEW w \in Writer, NEW paths \in SUBSET Path, NEW draft \in Maps,
         Visit(w, paths, draft), UNCHANGED io
  PROVE  JobsInv'
<1>1. job' = [job EXCEPT ![w] = [NoJob EXCEPT !.step = "visit", !.todo = paths,
                                   !.draft = draft, !.of = [p \in paths |-> ReadsAs(files, p)]]]
  BY DEF Visit
<1>2. JobShape' /\ \A v \in Writer \ {w} : job'[v] = job[v]
  BY <1>1 DEF JobsInv, JobShape, Fields
<1>3. job'[w].step = "visit" /\ job'[w].todo = paths /\ job'[w].draft = draft
  BY <1>1 DEF JobsInv, JobShape, NoJob
<1>4. JobOK(w)'
  BY <1>3 DEF JobOK
<1> QED
  BY <1>2, <1>4, OtherJobs DEF JobsInv

LEMMA JobEnds ==
  ASSUME JobsInv, NEW w \in Writer, job' = [job EXCEPT ![w] = NoJob],
         \A v \in Writer \ {w} : io'[v].name = io[v].name
  PROVE  JobsInv'
<1>1. JobShape' /\ job'[w] = NoJob /\ \A v \in Writer \ {w} : job'[v] = job[v]
  BY DEF JobsInv, JobShape, Fields
<1> QED
  BY <1>1, IdleJob, OtherJobs DEF JobsInv

-------------------------------------------------------------------------------
(* The actions.                                                            *)

LEMMA Editing ==
  ASSUME JobsInv, NEW p \in Path, NEW v \in Values[p], Edit(p, v), NEW w \in Writer
  PROVE  /\ JobShape'
         /\ \A x \in Fields \ {"open", "rest", "of"} : job'[w][x] = job[w][x]
         /\ DOMAIN job'[w].of = DOMAIN job[w].of
         /\ \A q \in DOMAIN job[w].of : job'[w].of[q] = job[w].of[q] \cup ReadsAs(files', q)
         /\ job'[w].open \in {job[w].open, job[w].open \ {p}}
         /\ \/ job'[w].rest = job[w].rest
            \/ v.kind = "file" /\ p \in job[w].open /\ job'[w].rest = v.data[2]
<1>1. PICK inPlace \in {files[p].kind = "file" /\ v.kind = "file", FALSE} :
        job' = [u \in Writer |-> [job[u] EXCEPT
                  !.open = IF inPlace THEN @ ELSE @ \ {p},
                  !.rest = IF inPlace /\ p \in job[u].open THEN v.data[2] ELSE @,
                  !.of = [q \in DOMAIN @ |-> @[q] \cup ReadsAs(files', q)]]]
  BY DEF Edit
<1> DEFINE opens == IF inPlace THEN job[w].open ELSE job[w].open \ {p}
           rests == IF inPlace /\ p \in job[w].open THEN v.data[2] ELSE job[w].rest
           ofs == [q \in DOMAIN job[w].of |-> job[w].of[q] \cup ReadsAs(files', q)]
<1>2. job'[w] = [job[w] EXCEPT !.open = opens, !.rest = rests, !.of = ofs]
  BY <1>1, FieldNames DEF JobsInv, JobShape
<1>3. JobShape'
  BY <1>1 DEF JobsInv, JobShape
<1>4. /\ opens \in {job[w].open, job[w].open \ {p}}
      /\ rests = job[w].rest \/ (v.kind = "file" /\ p \in job[w].open /\ rests = v.data[2])
      /\ DOMAIN ofs = DOMAIN job[w].of
      /\ \A q \in DOMAIN job[w].of : ofs[q] = job[w].of[q] \cup ReadsAs(files', q)
  BY <1>1
<1> HIDE DEF opens, rests, ofs
<1>5. /\ \A x \in Fields \ {"open", "rest", "of"} : job'[w][x] = job[w][x]
      /\ job'[w].open = opens /\ job'[w].rest = rests /\ job'[w].of = ofs
  BY <1>2, FieldNames DEF JobsInv, JobShape
<1> QED
  BY <1>3, <1>4, <1>5

LEMMA EditKeeps ==
  ASSUME SnapshotInv, NEW p \in Path, NEW v \in Values[p], Edit(p, v)
  PROVE  SnapshotInv'
<1>1. MayBe(p, v) /\ v \in Value
  BY Seeing DEF MayBe
<1>2. FilesInv'
  <2>1. PICK t : files' = [files EXCEPT ![p] = [kind |-> v.kind, mode |-> v.mode,
                                                data |-> v.data, mtime |-> t]]
    BY DEF Edit
  <2>2. Seen(files'[p]) = v
    BY <1>1, <2>1 DEF SnapshotInv, FilesInv, Seen, Value
  <2> QED
    BY <1>1, <2>1, <2>2 DEF SnapshotInv, FilesInv
<1>3. JobShape' /\ \A w \in Writer, x \in Fields \ {"open", "rest", "of"} : job'[w][x] = job[w][x]
  BY SnapshotAssumption, Editing DEF SnapshotInv
<1>4. UNCHANGED storeVars
  BY DEF Edit
<1>5. ASSUME NEW w \in Writer PROVE JobOK(w)'
  <2>1. /\ job'[w].step = job[w].step /\ job'[w].todo = job[w].todo
        /\ job'[w].path = job[w].path /\ job'[w].mode = job[w].mode
        /\ job'[w].part = job[w].part /\ job'[w].hash = job[w].hash
        /\ job'[w].draft = job[w].draft
    BY <1>3, FieldNames
  <2>2. job'[w].rest = job[w].rest \/ (v.kind = "file" /\ job'[w].rest = v.data[2])
    BY Editing DEF SnapshotInv
  <2>3. IsRest(job[w].rest) => IsRest(job'[w].rest)
    BY <1>1, <2>2 DEF IsRest
  <2> QED
    BY <1>4, <2>1, <2>3 DEF JobOK, SnapshotInv, JobsInv, storeVars
<1> QED
  BY <1>2, <1>3, <1>4, <1>5 DEF SnapshotInv, JobsInv, Edit, storeVars, StoreInv

LEMMA LoadedMap ==
  ASSUME MarksAreNoValues, StoreInv, PathMap \in DOMAIN disk
  PROVE  \E m \in Maps : disk[PathMap] = MapObject(m) /\ MapIn(disk[PathMap]) = m
  BY MapCodecInverse DEF StoreInv, Whole, MapSet

(* A tree that can be read is a map, and its object is on disk.            *)
LEMMA ReadTrees ==
  ASSUME MarksAreNoValues, StoreInv, NEW h \in TreeSet, ReadTree(h) # Corrupt
  PROVE  /\ h \in DOMAIN disk
         /\ \A m \in Maps : h = TreeObject(m) => ReadTree(h) = m
<1>1. h \in DOMAIN disk
  BY DEF ReadTree, ReadTreeFile, StoreInv
<1>2. disk[h] = h
  BY <1>1, Kinds DEF StoreInv, Whole
<1>3. ASSUME NEW m \in Maps, h = TreeObject(m) PROVE ReadTree(h) = m
  BY <1>1, <1>2, <1>3, ReadBack, TreeCodecInverse DEF ReadTree, ReadTreeFile, TreeObject
<1> QED
  BY <1>1, <1>3

LEMMA StartKeeps ==
  ASSUME MarksAreNoValues, SnapshotInv, StartDaemon
  PROVE  SnapshotInv'
<1>1. map' \in Maps
  BY LoadedMap, NewMaps DEF StartDaemon, SnapshotInv
<1> QED
  BY <1>1 DEF StartDaemon, SnapshotInv, StoreInv, JobsInv, JobShape, JobOK, FilesInv,
              storeVars, fileVars

LEMMA BeginKeeps ==
  ASSUME SnapshotInv, BeginUpdate \/ BeginImport \/ BeginScan
  PROVE  SnapshotInv'
<1>1. PICK w \in Writer, paths \in SUBSET Path, draft \in Maps : Visit(w, paths, draft)
  BY SnapshotAssumption, NewMaps DEF BeginUpdate, BeginImport, BeginScan, SnapshotInv
<1>2. UNCHANGED <<storeVars, fileVars, map, checkpoints>>
  BY DEF BeginUpdate, BeginImport, BeginScan
<1>3. JobsInv'
  BY <1>1, <1>2, Visiting DEF SnapshotInv, storeVars
<1> QED
  BY <1>2, <1>3 DEF SnapshotInv, StoreInv, FilesInv, storeVars, fileVars

LEMMA RebuildKeeps ==
  ASSUME MarksAreNoValues, SnapshotInv, BeginRebuild
  PROVE  SnapshotInv'
<1> DEFINE head == checkpoints[Len(checkpoints)]
<1>1. head \in TreeSet
  BY DEF BeginRebuild, SnapshotInv
<1>2. PICK tree \in Maps : head = TreeObject(tree)
  BY <1>1 DEF TreeSet
<1>3. ReadTree(head) # Corrupt
  BY DEF BeginRebuild
<1>4. ReadTree(head) = tree /\ head \in DOMAIN disk
  BY <1>1, <1>2, <1>3, ReadTrees DEF SnapshotInv
<1>5. /\ cached' = cached \cup {head}
      /\ StartWrite(Loop, PathMap, MapObject(tree))
      /\ job' = [job EXCEPT ![Loop].step = "rebuild", ![Loop].draft = tree]
      /\ UNCHANGED <<disk, git, tmp, unsynced, fileVars, proc, map, checkpoints>>
  BY <1>4 DEF BeginRebuild
<1> HIDE DEF head
<1>6. StoreInv'
  <2>1. cached' \subseteq DOMAIN disk /\ MapObject(tree) \in MapSet
    BY <1>4, <1>5 DEF SnapshotInv, StoreInv, MapSet
  <2> QED
    BY <1>5, <2>1, WriteBegins, SnapshotAssumption DEF SnapshotInv
<1>7. JobShape' /\ \A w \in Writer \ {Loop} : job'[w] = job[w] /\ io'[w].name = io[w].name
  BY <1>5 DEF SnapshotInv, JobsInv, JobShape, StartWrite, StoreInv
<1>8. JobOK(Loop)'
  <2>1. Loop \in Writer
    BY SnapshotAssumption
  <2>2. /\ job'[Loop].step = "rebuild" /\ job'[Loop].draft = tree
        /\ job'[Loop].todo = job[Loop].todo
    BY <1>5, <2>1, FieldNames DEF SnapshotInv, JobsInv, JobShape
  <2> QED
    BY <2>1, <2>2 DEF JobOK, SnapshotInv, JobsInv
<1>9. JobsInv'
  BY <1>7, <1>8, OtherJobs, SnapshotAssumption DEF SnapshotInv, JobsInv
<1> QED
  BY <1>5, <1>6, <1>9 DEF SnapshotInv, FilesInv, fileVars

(* A step that changes only a job, and begins or ends a write.             *)
JobStep == UNCHANGED <<disk, git, tmp, unsynced, cached, fileVars, map>>

LEMMA JobStepKeeps ==
  ASSUME SnapshotInv, JobStep, StoreInv', JobsInv', checkpoints' \in Seq(TreeSet)
  PROVE  SnapshotInv'
  BY DEF SnapshotInv, JobStep, FilesInv, fileVars

LEMMA LstatKeeps ==
  ASSUME SnapshotInv, NEW w \in Writer, NEW p \in Path, Lstat(w, p)
  PROVE  SnapshotInv'
<1>1. JobStep /\ UNCHANGED <<disk, tmp, cached, checkpoints>>
  BY DEF Lstat, JobStep
<1>2. /\ MayBe(p, Seen(files[p]))
      /\ Seen(files[p]) = [kind |-> files[p].kind, mode |-> files[p].mode,
                           data |-> files[p].data]
  BY DEF SnapshotInv, FilesInv, Seen
<1> DEFINE f == files[p]
           hash == BlobOf(f.data)
           draft == job[w].draft
<1>3. CASE f.kind = "none" /\ UNCHANGED io
           /\ Becomes(w, [todo |-> job[w].todo \ {p}, draft |-> Without(draft, p)])
  <2>1. DOMAIN [todo |-> job[w].todo \ {p}, draft |-> Without(draft, p)] \subseteq Fields
    BY FieldNames
  <2>2. /\ job'[w].todo = job[w].todo \ {p} /\ job'[w].draft = Without(draft, p)
        /\ job'[w].step = job[w].step
    BY <1>3, <2>1, Becoming, FieldNames DEF SnapshotInv, JobsInv
  <2>3. JobOK(w)'
    BY <2>2, NewMaps DEF JobOK, Lstat, SnapshotInv, JobsInv
  <2>4. JobsInv'
    BY <1>3, <2>1, <2>3, JobSteps DEF SnapshotInv
  <2> QED
    BY <1>1, <1>3, <2>4, JobStepKeeps DEF SnapshotInv, StoreInv
<1>4. CASE f.kind = "link" /\ Skip(w, p) /\ UNCHANGED io
  BY <1>1, <1>4, Skipping, JobStepKeeps DEF SnapshotInv, StoreInv
<1>5. CASE f.kind = "link" /\ Store(w, p, Link, f.data)
  <2>1. EntryOf(Link, hash) \in EntryAt(p)
    BY <1>2, <1>5, Seeing, NewEntry
  <2>2. StoreInv' /\ JobsInv'
    BY <1>1, <1>5, <2>1, Storing DEF SnapshotInv
  <2> QED
    BY <1>1, <2>2, JobStepKeeps DEF SnapshotInv
<1>6. CASE f.kind = "file" /\ UNCHANGED io
           /\ Becomes(w, [step |-> "hash", path |-> p, mode |-> f.mode, tries |-> 0])
  <2>1. DOMAIN [step |-> "hash", path |-> p, mode |-> f.mode, tries |-> 0] \subseteq Fields
    BY FieldNames
  <2>2. /\ job'[w].step = "hash" /\ job'[w].path = p /\ job'[w].mode = f.mode
        /\ job'[w].todo = job[w].todo /\ job'[w].draft = job[w].draft
    BY <1>6, <2>1, Becoming, FieldNames DEF SnapshotInv, JobsInv
  <2>3. f.mode # Link
    BY <1>2, <1>6, Seeing
  <2>4. JobOK(w)'
    BY <2>2, <2>3 DEF JobOK, SnapshotInv, JobsInv
  <2>5. JobsInv'
    BY <1>6, <2>1, <2>4, JobSteps DEF SnapshotInv
  <2> QED
    BY <1>1, <1>6, <2>5, JobStepKeeps DEF SnapshotInv, StoreInv
<1> QED
  BY <1>3, <1>4, <1>5, <1>6 DEF Lstat

(* What is opened is one file.                                             *)
LEMMA WhatIsOpened ==
  ASSUME NEW p, NEW q \in Opened(files, p)
  PROVE  /\ q \in Path /\ files[q].kind = "file"
         /\ Opened(files, p) = {q}
  BY DEF Opened

LEMMA ReadFirstKeeps ==
  ASSUME SnapshotInv, NEW w \in Writer, ReadFirst(w)
  PROVE  SnapshotInv'
<1>1. JobStep /\ UNCHANGED <<storeVars, checkpoints>>
  BY DEF ReadFirst, JobStep, storeVars
<1> DEFINE p == job[w].path
           s == IF job[w].step = "hash" THEN "hashing" ELSE "reading"
           fields(q) == [step |-> s, open |-> Opened(files, p), part |-> files[q].data[1],
                         rest |-> files[q].data[2], mtime |-> files[q].mtime]
<1>2. p \in Path
  BY DEF ReadFirst, SnapshotInv, JobsInv, JobOK
<1>3. ASSUME NEW q \in Opened(files, p), Becomes(w, fields(q))
      PROVE  SnapshotInv'
  <2>1. DOMAIN fields(q) \subseteq Fields
    BY FieldNames
  <2>2. /\ job'[w].step = s /\ job'[w].path = p /\ job'[w].mode = job[w].mode
        /\ job'[w].part = files[q].data[1] /\ job'[w].rest = files[q].data[2]
        /\ job'[w].hash = job[w].hash
        /\ job'[w].todo = job[w].todo /\ job'[w].draft = job[w].draft
    BY <1>3, <2>1, Becoming, FieldNames DEF SnapshotInv, JobsInv
  <2>3. IsFirst(files[q].data[1]) /\ IsRest(files[q].data[2])
    <3>1. q \in Path /\ files[q].kind = "file"
      BY <1>3, WhatIsOpened
    <3>2. MayBe(q, Seen(files[q])) /\ Seen(files[q]).kind = "file"
          /\ Seen(files[q]).data = files[q].data
      BY <3>1 DEF SnapshotInv, FilesInv, Seen
    <3> QED
      BY <3>1, <3>2 DEF IsFirst, IsRest
  <2>4. JobOK(w)'
    <3>1. s \in {"hashing", "reading"} /\ (s = "reading" => job[w].step = "read")
      BY DEF ReadFirst
    <3> HIDE DEF s
    <3> QED
      BY <2>2, <2>3, <3>1 DEF JobOK, SnapshotInv, JobsInv, ReadFirst
  <2>5. JobsInv'
    BY <1>1, <1>3, <2>1, <2>4, JobSteps DEF SnapshotInv, storeVars
  <2> QED
    BY <1>1, <2>5, JobStepKeeps DEF SnapshotInv, StoreInv, storeVars
<1>4. CASE Becomes(w, [step |-> "failed"])
  <2>1. JobsInv'
    BY <1>1, <1>4, Failing DEF SnapshotInv, storeVars
  <2> QED
    BY <1>1, <2>1, JobStepKeeps DEF SnapshotInv, StoreInv, storeVars
<1> QED
  BY <1>3, <1>4 DEF ReadFirst

(* What has been read is of files.                                         *)
LEMMA WhatIsRead ==
  ASSUME SnapshotInv, NEW w \in Writer, job[w].step \in {"hashing", "reading"}
  PROVE  ReadBlobOf(w) \in FileBlob
  BY ReadText DEF ReadBlobOf, SnapshotInv, JobsInv, JobOK

LEMMA HashKeeps ==
  ASSUME SnapshotInv, NEW w \in Writer, HashFile(w)
  PROVE  SnapshotInv'
<1>1. JobStep /\ UNCHANGED <<storeVars, checkpoints>>
  BY DEF HashFile, JobStep, storeVars
<1>2. SUFFICES JobsInv'
  BY <1>1, JobStepKeeps DEF SnapshotInv, StoreInv, storeVars
<1> DEFINE p == job[w].path
           hash == ReadBlobOf(w)
           n == job[w].tries + 1
<1>3. p \in Path /\ job[w].mode # Link
  BY DEF HashFile, SnapshotInv, JobsInv, JobOK
<1>4. CASE Becomes(w, [step |-> "failed"])
  BY <1>1, <1>4, Failing DEF SnapshotInv, storeVars
<1>5. CASE Hashed(w)
  <2>1. hash \in FileBlob
    BY WhatIsRead DEF HashFile
  <2> HIDE DEF hash
  <2>2. CASE Becomes(w, [step |-> "read", hash |-> hash])
    <3>1. DOMAIN [step |-> "read", hash |-> hash] \subseteq Fields
      BY FieldNames
    <3>2. /\ job'[w].step = "read" /\ job'[w].path = p /\ job'[w].mode = job[w].mode
          /\ job'[w].hash = hash
          /\ job'[w].todo = job[w].todo /\ job'[w].draft = job[w].draft
      BY <2>2, <3>1, Becoming, FieldNames DEF SnapshotInv, JobsInv
    <3>3. JobOK(w)'
      BY <1>3, <2>1, <3>2 DEF JobOK, SnapshotInv, JobsInv
    <3> QED
      BY <1>1, <2>2, <3>1, <3>3, JobSteps DEF SnapshotInv, storeVars
  <2>3. CASE Skip(w, p)
    BY <1>1, <1>3, <2>3, Skipping DEF SnapshotInv, storeVars
  <2>4. CASE Put(w, p, FileEntry(job[w].mode, hash))
    <3>1. FileEntry(job[w].mode, hash) \in EntryAt(p)
      BY <1>3, <2>1, NewEntry DEF EntryOf
    <3> QED
      BY <1>1, <1>3, <2>4, <3>1, Putting DEF SnapshotInv, storeVars
  <2> QED
    BY <1>5, <2>2, <2>3, <2>4 DEF Hashed, hash
<1>6. CASE Becomes(w, [step |-> "hash", tries |-> n])
  <2>1. DOMAIN [step |-> "hash", tries |-> n] \subseteq Fields
    BY FieldNames
  <2>2. /\ job'[w].step = "hash" /\ job'[w].path = p /\ job'[w].mode = job[w].mode
        /\ job'[w].todo = job[w].todo /\ job'[w].draft = job[w].draft
    BY <1>6, <2>1, Becoming, FieldNames DEF SnapshotInv, JobsInv
  <2>4. JobOK(w)'
    BY <1>3, <2>2 DEF JobOK, SnapshotInv, JobsInv
  <2> QED
    BY <1>1, <1>6, <2>1, <2>4, JobSteps DEF SnapshotInv, storeVars
<1> QED
  BY <1>4, <1>5, <1>6 DEF HashFile

LEMMA ReadFileKeeps ==
  ASSUME SnapshotInv, NEW w \in Writer, ReadFile(w)
  PROVE  SnapshotInv'
<1>1. JobStep /\ UNCHANGED <<disk, tmp, cached, checkpoints>>
  BY DEF ReadFile, JobStep
<1> DEFINE p == job[w].path
           bytes == ReadBlobOf(w)
<1>2. p \in Path /\ job[w].mode # Link /\ job[w].hash \in FileBlob
  BY DEF ReadFile, SnapshotInv, JobsInv, JobOK
<1>3. CASE Becomes(w, [step |-> "failed"]) /\ UNCHANGED io
  <2>1. JobsInv'
    BY <1>3, Failing DEF SnapshotInv
  <2> QED
    BY <1>1, <1>3, <2>1, JobStepKeeps DEF SnapshotInv, StoreInv
<1>4. CASE Becomes(w, [step |-> "blob"]) /\ StartWrite(w, job[w].hash, bytes)
  <2>1. bytes \in FileBlob
    BY WhatIsRead DEF ReadFile
  <2>2. StoreInv'
    BY <1>1, <1>2, <1>4, <2>1, WriteBegins DEF SnapshotInv, StoreInv, Blob
  <2>3. io'[w].name = job[w].hash /\ \A v \in Writer \ {w} : io'[v].name = io[v].name
    BY <1>4 DEF StartWrite, SnapshotInv, StoreInv
  <2>4. DOMAIN [step |-> "blob"] \subseteq Fields
    BY FieldNames
  <2>5. /\ job'[w].step = "blob" /\ job'[w].path = p /\ job'[w].mode = job[w].mode
        /\ job'[w].hash = job[w].hash
        /\ job'[w].todo = job[w].todo /\ job'[w].draft = job[w].draft
    BY <1>4, <2>4, Becoming, FieldNames DEF SnapshotInv, JobsInv
  <2>6. JobOK(w)'
    BY <1>2, <2>3, <2>5, NewEntry DEF JobOK, SnapshotInv, JobsInv
  <2>7. JobsInv'
    BY <1>4, <2>3, <2>4, <2>6, JobSteps DEF SnapshotInv
  <2> QED
    BY <1>1, <2>2, <2>7, JobStepKeeps DEF SnapshotInv
<1> QED
  BY <1>3, <1>4 DEF ReadFile

LEMMA ImportPathKeeps ==
  ASSUME SnapshotInv, NEW p \in DOMAIN Commit, ImportPath(p)
  PROVE  SnapshotInv'
<1>1. JobStep /\ UNCHANGED <<disk, tmp, cached, checkpoints>>
  BY DEF ImportPath, JobStep
<1>2. MayBe(p, Commit[p]) /\ Commit[p].kind # "none" /\ p \in Path /\ Import \in Writer
  BY SnapshotAssumption DEF MayBe
<1>3. EntryOf(Commit[p].mode, BlobOf(Commit[p].data)) \in EntryAt(p)
  BY <1>2, Seeing, NewEntry DEF Value
<1>4. StoreInv' /\ JobsInv'
  BY <1>1, <1>2, <1>3, Storing DEF ImportPath, SnapshotInv
<1> QED
  BY <1>1, <1>4, JobStepKeeps DEF SnapshotInv

LEMMA BlobWrittenKeeps ==
  ASSUME SnapshotInv, NEW w \in Writer, BlobWritten(w)
  PROVE  SnapshotInv'
<1>1. JobStep /\ UNCHANGED <<disk, tmp, cached, checkpoints>>
  BY DEF BlobWritten, JobStep
<1>2. StoreInv'
  BY <1>1, WriteEnds DEF BlobWritten, SnapshotInv
<1>3. \A v \in Writer \ {w} : io'[v].name = io[v].name
  BY DEF BlobWritten, Step, SnapshotInv, StoreInv
<1>4. JobsInv'
  BY <1>3, Putting DEF BlobWritten, SnapshotInv, JobsInv, JobOK
<1> QED
  BY <1>1, <1>2, <1>4, JobStepKeeps DEF SnapshotInv

LEMMA WriteTreeKeeps ==
  ASSUME SnapshotInv, NEW w \in Writer, WriteTree(w)
  PROVE  SnapshotInv'
<1> DEFINE tree == TreeObject(job[w].draft)
<1>1. JobStep /\ UNCHANGED <<disk, tmp, cached, checkpoints>>
  BY DEF WriteTree, JobStep
<1>2. StartWrite(w, tree, tree) /\ Becomes(w, [step |-> "tree", hash |-> tree])
  BY DEF WriteTree
<1>3. tree \in TreeSet
  BY DEF SnapshotInv, JobsInv, JobOK, TreeSet
<1> HIDE DEF tree
<1>4. StoreInv'
  BY <1>1, <1>2, <1>3, WriteBegins DEF SnapshotInv, StoreInv
<1>5. io'[w].name = tree /\ \A v \in Writer \ {w} : io'[v].name = io[v].name
  BY <1>2 DEF StartWrite, SnapshotInv, StoreInv
<1>6. DOMAIN [step |-> "tree", hash |-> tree] \subseteq Fields
  BY FieldNames
<1>7. /\ job'[w].step = "tree" /\ job'[w].hash = tree
      /\ job'[w].todo = job[w].todo /\ job'[w].draft = job[w].draft
  BY <1>2, <1>6, Becoming, FieldNames DEF SnapshotInv, JobsInv
<1>8. JobOK(w)'
  BY <1>5, <1>7 DEF JobOK, SnapshotInv, JobsInv, tree
<1>9. JobsInv'
  BY <1>2, <1>5, <1>6, <1>8, JobSteps DEF SnapshotInv
<1> QED
  BY <1>1, <1>4, <1>9, JobStepKeeps DEF SnapshotInv

LEMMA AppendKeeps ==
  ASSUME SnapshotInv, NEW w \in Writer, AppendCheckpoint(w)
  PROVE  SnapshotInv'
<1>1. UNCHANGED <<disk, tmp, cached, fileVars>>
  BY DEF AppendCheckpoint
<1>2. job[w].draft \in Maps /\ job[w].hash \in TreeSet
  BY DEF AppendCheckpoint, SnapshotInv, JobsInv, JobOK, TreeSet
<1>3. checkpoints' \in Seq(TreeSet)
  BY <1>2 DEF AppendCheckpoint, SnapshotInv
<1>4. CASE w = Loop
  <2>1. /\ map' = job[w].draft /\ StartWrite(w, PathMap, MapObject(job[w].draft))
        /\ job' = [job EXCEPT ![w] = [NoJob EXCEPT !.step = "save"]]
    BY <1>4 DEF AppendCheckpoint
  <2>2. MapObject(job[w].draft) \in MapSet
    BY <1>2 DEF MapSet
  <2>3. StoreInv'
    BY <1>1, <2>1, <2>2, WriteBegins DEF SnapshotInv, StoreInv
  <2>4. \A v \in Writer \ {w} : io'[v].name = io[v].name /\ job'[v] = job[v]
    BY <2>1 DEF StartWrite, SnapshotInv, StoreInv, JobsInv, JobShape
  <2>5. JobShape'
    BY <2>1 DEF SnapshotInv, JobsInv, JobShape, Fields
  <2>6. job'[w].step = "save" /\ job'[w].draft = NoEntries /\ job'[w].todo = {}
    BY <2>1 DEF SnapshotInv, JobsInv, JobShape, NoJob
  <2>7. JobOK(w)'
    BY <2>6, NewMaps DEF JobOK
  <2>8. JobsInv'
    BY <2>4, <2>5, <2>7, OtherJobs DEF SnapshotInv, JobsInv
  <2> QED
    BY <1>1, <1>2, <1>3, <2>1, <2>3, <2>8 DEF SnapshotInv, FilesInv, fileVars
<1>5. CASE w # Loop
  <2>1. Step(w, "none") /\ job' = [job EXCEPT ![w] = NoJob] /\ UNCHANGED map
    BY <1>5 DEF AppendCheckpoint
  <2>2. StoreInv'
    BY <1>1, <2>1, WriteEnds DEF SnapshotInv
  <2>3. \A v \in Writer \ {w} : io'[v].name = io[v].name
    BY <2>1 DEF Step, SnapshotInv, StoreInv
  <2>4. JobsInv'
    BY <2>1, <2>3, JobEnds DEF SnapshotInv
  <2> QED
    BY <1>1, <1>3, <2>1, <2>2, <2>4 DEF SnapshotInv, FilesInv, fileVars
<1> QED
  BY <1>4, <1>5

LEMMA JobEndKeeps ==
  ASSUME SnapshotInv, NEW w \in Writer, GiveUp(w) \/ (MapSaved /\ w = Loop)
  PROVE  SnapshotInv'
<1>1. /\ UNCHANGED <<disk, tmp, cached, fileVars, checkpoints>>
      /\ Step(w, "none") /\ job' = [job EXCEPT ![w] = NoJob]
  BY DEF GiveUp, MapSaved
<1>2. map' \in Maps
  BY DEF GiveUp, MapSaved, SnapshotInv, JobsInv, JobOK
<1>3. StoreInv'
  BY <1>1, WriteEnds DEF SnapshotInv
<1>4. \A v \in Writer \ {w} : io'[v].name = io[v].name
  BY <1>1 DEF Step, SnapshotInv, StoreInv
<1>5. JobsInv'
  BY <1>1, <1>4, JobEnds DEF SnapshotInv
<1> QED
  BY <1>1, <1>2, <1>3, <1>5 DEF SnapshotInv, FilesInv, fileVars

LEMMA WriteKeeps ==
  ASSUME SnapshotInv, NEW w \in Writer, Write(w) \/ Error(w)
  PROVE  SnapshotInv'
<1>1. UNCHANGED <<fileVars, map, checkpoints, job>>
  BY DEF Write, Error
<1>2. StoreInv'
  BY WriteGoesOn, WriteStops DEF SnapshotInv, Write, Error
<1>3. \A v \in Writer : io'[v].name = io[v].name
  BY DEF Write, Error, WriteStep, WriteFails, Probe, Create, Fill, Rename, Settle, GitPut,
         FillCache, Step, SnapshotInv, StoreInv, IoSet
<1>4. JobsInv'
  BY <1>1, <1>3 DEF SnapshotInv, JobsInv, JobShape, JobOK
<1> QED
  BY <1>1, <1>2, <1>4 DEF SnapshotInv, FilesInv, fileVars

LEMMA StopKeeps ==
  ASSUME SnapshotInv, StopDaemon \/ Dies
  PROVE  SnapshotInv'
<1>1. UNCHANGED <<fileVars, checkpoints>> /\ map' = NoEntries
  BY DEF StopDaemon, Dies
<1>2. CASE StopDaemon
  BY <1>1, <1>2, NewMaps DEF StopDaemon, SnapshotInv, StoreInv, JobsInv, JobShape, JobOK,
     FilesInv, fileVars
<1>3. CASE Dies
  <2>1. StoreInv'
    BY <1>3, DeathSpares DEF Dies, SnapshotInv
  <2>2. JobsInv'
    BY <1>3, IdleJob DEF Dies, JobsInv, JobShape, Fields
  <2> QED
    BY <1>1, <2>1, <2>2, NewMaps DEF SnapshotInv, FilesInv, fileVars
<1> QED
  BY <1>2, <1>3

LEMMA SnapshotStarts == Init => SnapshotInv
<1> SUFFICES ASSUME Init PROVE SnapshotInv
  OBVIOUS
<1>1. StoreInv
  BY DEF Init, StoreInit, StoreInv, NoEntries, Idle, IoSet, StepSet, Name
<1>2. JobsInv
  BY NewMaps DEF Init, JobsInv, JobShape, JobOK, NoJob, Fields
<1>3. FilesInv
  BY SnapshotAssumption DEF Init, FilesInv, MayBe
<1> QED
  BY <1>1, <1>2, <1>3, NewMaps DEF SnapshotInv, Init

LEMMA SnapshotStep ==
  ASSUME MarksAreNoValues, SnapshotInv, [Next]_vars
  PROVE  SnapshotInv'
<1>1. CASE Next
  BY <1>1, SnapshotAssumption, EditKeeps, StartKeeps, BeginKeeps, RebuildKeeps, LstatKeeps,
     ReadFirstKeeps, HashKeeps, ReadFileKeeps, ImportPathKeeps, BlobWrittenKeeps,
     WriteTreeKeeps, AppendKeeps, JobEndKeeps, WriteKeeps, StopKeeps DEF Next
<1>2. CASE UNCHANGED vars
  BY <1>2 DEF vars, storeVars, fileVars, SnapshotInv, StoreInv, JobsInv, JobShape, JobOK,
     FilesInv
<1> QED
  BY <1>1, <1>2

(* No object is ever partial, or another one than its name says, whatever  *)
(* three writers do at the same time, whichever write fails and whenever   *)
(* process or machine dies.                                                *)
THEOREM ObjectsAlwaysWhole ==
  ASSUME MarksAreNoValues
  PROVE  Spec => []ObjectsWhole
<1>1. SnapshotInv => ObjectsWhole
  BY WholeIsReadable DEF SnapshotInv
<1> QED
  BY <1>1, SnapshotStarts, SnapshotStep, PTL DEF Spec

-------------------------------------------------------------------------------
(* As long as only processes die, and not the machine, objects stay where  *)
(* they are; and what maps, drafts, the map file and checkpoints name is   *)
(* on disk.                                                                *)

Kept(m) == \A p \in DOMAIN m : m[p].hash \in DOMAIN disk

KeptInv ==
  /\ Kept(map)
  /\ \A w \in Writer : Kept(job[w].draft)
  /\ \A w \in Writer : io[w].name = PathMap /\ io[w].step \in {"create", "fill", "rename"} =>
       \E m \in Maps : io[w].bytes = MapObject(m) /\ Kept(m)
  /\ PathMap \in DOMAIN disk => \E m \in Maps : disk[PathMap] = MapObject(m) /\ Kept(m)
  /\ \A i \in 1..Len(checkpoints) :
       /\ checkpoints[i] \in DOMAIN disk
       /\ \E m \in Maps : checkpoints[i] = TreeObject(m) /\ Kept(m)

(* Where a draft comes from.                                               *)
FromCheckpoint(m) ==
  m \in Maps /\ \E i \in 1..Len(checkpoints) : checkpoints[i] = TreeObject(m)

DraftStep(w) ==
  \/ job'[w].draft \in {job[w].draft, map, NoEntries}
  \/ \E p \in Path : job'[w].draft = Without(job[w].draft, p)
  \/ \E p \in Path : \E e \in EntryAt(p) :
       e.hash \in DOMAIN disk /\ job'[w].draft = With(job[w].draft, p, e)
  \/ FromCheckpoint(job'[w].draft)

DraftSteps == \A w \in Writer : DraftStep(w)

LEMMA ChangesDraft ==
  ASSUME JobsInv, NEW w \in Writer, NEW fields, DOMAIN fields \subseteq Fields,
         Becomes(w, fields), "draft" \notin DOMAIN fields
  PROVE  DraftSteps
<1>1. job'[w].draft = job[w].draft /\ \A v \in Writer : v # w => job'[v] = job[v]
  BY Becoming, FieldNames DEF JobsInv
<1> QED
  BY <1>1 DEF DraftSteps, DraftStep

LEMMA PutDraft ==
  ASSUME JobsInv, NEW w \in Writer, NEW p \in Path, NEW entry \in EntryAt(p),
         entry.hash \in DOMAIN disk, Put(w, p, entry)
  PROVE  DraftSteps
<1> DEFINE fields == [step |-> "visit", todo |-> job[w].todo \ {p},
                      draft |-> With(job[w].draft, p, entry)]
<1>1. Becomes(w, fields) /\ DOMAIN fields \subseteq Fields
  BY FieldNames DEF Put
<1>2. /\ job'[w].draft = With(job[w].draft, p, entry)
      /\ \A v \in Writer : v # w => job'[v] = job[v]
  BY <1>1, Becoming, FieldNames DEF JobsInv
<1> QED
  BY <1>2 DEF DraftSteps, DraftStep

LEMMA StoreDraft ==
  ASSUME StoreInv, JobsInv, NEW w \in Writer, NEW p \in Path, NEW mode, NEW data,
         EntryOf(mode, BlobOf(data)) \in EntryAt(p), Store(w, p, mode, data)
  PROVE  DraftSteps
<1> DEFINE hash == BlobOf(data)
           fields == [step |-> "blob", path |-> p, mode |-> mode, hash |-> hash]
<1>1. CASE HasBlob(hash)
  <2>1. EntryOf(mode, hash).hash \in DOMAIN disk
    BY <1>1, NewEntry DEF HasBlob, StoreInv
  <2> QED
    BY <1>1, <2>1, PutDraft DEF Store
<1>2. CASE ~HasBlob(hash)
  <2>1. Becomes(w, fields) /\ DOMAIN fields \subseteq Fields /\ "draft" \notin DOMAIN fields
    BY <1>2, FieldNames DEF Store
  <2> QED
    BY <2>1, ChangesDraft
<1> QED
  BY <1>1, <1>2

LEMMA LstatDraft ==
  ASSUME SnapshotInv, NEW w \in Writer, NEW p \in Path, Lstat(w, p)
  PROVE  DraftSteps
<1>1. /\ MayBe(p, Seen(files[p]))
      /\ Seen(files[p]) = [kind |-> files[p].kind, mode |-> files[p].mode,
                           data |-> files[p].data]
  BY DEF SnapshotInv, FilesInv, Seen
<1> DEFINE f == files[p]
           gone == [todo |-> job[w].todo \ {p}, draft |-> Without(job[w].draft, p)]
           hash == [step |-> "hash", path |-> p, mode |-> f.mode, tries |-> 0]
           skip == [step |-> "visit", todo |-> job[w].todo \ {p}]
<1>2. /\ DOMAIN gone \subseteq Fields
      /\ DOMAIN hash \subseteq Fields /\ "draft" \notin DOMAIN hash
      /\ DOMAIN skip \subseteq Fields /\ "draft" \notin DOMAIN skip
  BY FieldNames
<1>3. CASE Becomes(w, gone)
  <2>1. /\ job'[w].draft = Without(job[w].draft, p)
        /\ \A v \in Writer : v # w => job'[v] = job[v]
    BY <1>2, <1>3, Becoming, FieldNames DEF SnapshotInv, JobsInv
  <2> QED
    BY <2>1 DEF DraftSteps, DraftStep
<1>4. CASE Becomes(w, skip) \/ Becomes(w, hash)
  BY <1>2, <1>4, ChangesDraft DEF SnapshotInv
<1>5. CASE f.kind = "link" /\ Store(w, p, Link, f.data)
  <2>1. EntryOf(Link, BlobOf(f.data)) \in EntryAt(p)
    BY <1>1, <1>5, Seeing, NewEntry
  <2> QED
    BY <1>5, <2>1, StoreDraft DEF SnapshotInv
<1> QED
  BY <1>3, <1>4, <1>5 DEF Lstat, Skip

LEMMA HashDraft ==
  ASSUME SnapshotInv, NEW w \in Writer, HashFile(w)
  PROVE  DraftSteps
<1> DEFINE p == job[w].path
           hash == ReadBlobOf(w)
           n == job[w].tries + 1
           failed == [step |-> "failed"]
           again == [step |-> "hash", tries |-> n]
           read == [step |-> "read", hash |-> hash]
           skip == [step |-> "visit", todo |-> job[w].todo \ {p}]
<1>1. /\ \A fields \in {failed, again, read, skip} :
           DOMAIN fields \subseteq Fields /\ "draft" \notin DOMAIN fields
      /\ p \in Path /\ job[w].mode # Link
  BY FieldNames DEF HashFile, SnapshotInv, JobsInv, JobOK
<1>2. CASE \E fields \in {failed, again, read, skip} : Becomes(w, fields)
  BY <1>1, <1>2, ChangesDraft DEF SnapshotInv
<1>3. CASE HasBlob(hash) /\ Put(w, p, FileEntry(job[w].mode, hash))
  <2>1. hash \in FileBlob
    BY WhatIsRead DEF HashFile
  <2> HIDE DEF hash
  <2>2. EntryOf(job[w].mode, hash) = FileEntry(job[w].mode, hash)
    BY <1>1 DEF EntryOf
  <2>3. /\ FileEntry(job[w].mode, hash) \in EntryAt(p)
        /\ FileEntry(job[w].mode, hash).hash \in DOMAIN disk
    BY <1>1, <1>3, <2>1, <2>2, NewEntry DEF HasBlob, SnapshotInv, StoreInv
  <2> QED
    BY <1>1, <1>3, <2>3, PutDraft DEF SnapshotInv
<1> QED
  BY <1>2, <1>3 DEF HashFile, Hashed, Skip

LEMMA Drafts ==
  ASSUME MarksAreNoValues, SnapshotInv, [Next]_vars
  PROVE  DraftSteps
<1>1. ASSUME NEW p \in Path, NEW v \in Values[p], Edit(p, v) PROVE DraftSteps
  <2>1. ASSUME NEW w \in Writer PROVE job'[w].draft = job[w].draft
    BY <1>1, Editing, FieldNames DEF SnapshotInv
  <2> QED
    BY <2>1 DEF DraftSteps, DraftStep
<1>2. CASE UNCHANGED job
  BY <1>2 DEF DraftSteps, DraftStep
<1>3. CASE BeginUpdate \/ BeginImport \/ BeginScan
  <2>1. PICK w \in Writer, paths \in SUBSET Path, draft \in {map, NoEntries} :
          Visit(w, paths, draft)
    BY <1>3, SnapshotAssumption DEF BeginUpdate, BeginImport, BeginScan
  <2>2. job'[w].draft = draft /\ \A v \in Writer \ {w} : job'[v] = job[v]
    BY <2>1 DEF Visit, SnapshotInv, JobsInv, JobShape, NoJob
  <2> QED
    BY <2>2 DEF DraftSteps, DraftStep
<1>4. CASE BeginRebuild
  <2> DEFINE head == checkpoints[Len(checkpoints)]
  <2>1. Len(checkpoints) \in 1..Len(checkpoints) /\ head \in TreeSet
    BY <1>4 DEF BeginRebuild, SnapshotInv
  <2>2. PICK tree \in Maps : head = TreeObject(tree)
    BY <2>1 DEF TreeSet
  <2>3. ReadTree(head) = tree
    BY <1>4, <2>1, <2>2, ReadTrees DEF BeginRebuild, SnapshotInv
  <2>4. job' = [job EXCEPT ![Loop].step = "rebuild", ![Loop].draft = tree]
    BY <1>4, <2>3 DEF BeginRebuild
  <2>5. \A w \in Writer : job'[w].draft = IF w = Loop THEN tree ELSE job[w].draft
    BY <2>4, FieldNames DEF SnapshotInv, JobsInv, JobShape
  <2>6. FromCheckpoint(tree)
    BY <2>1, <2>2 DEF FromCheckpoint
  <2> QED
    BY <2>5, <2>6 DEF DraftSteps, DraftStep
<1>5. ASSUME NEW w \in Writer, ReadFirst(w) PROVE DraftSteps
  <2> DEFINE opened == Opened(files, job[w].path)
             read(q) == [step |-> IF job[w].step = "hash" THEN "hashing" ELSE "reading",
                         open |-> opened, part |-> files[q].data[1], rest |-> files[q].data[2],
                         mtime |-> files[q].mtime]
  <2>1. CASE Becomes(w, [step |-> "failed"])
    <3>1. DOMAIN [step |-> "failed"] \subseteq Fields /\ "draft" \notin DOMAIN [step |-> "failed"]
      BY FieldNames
    <3> QED
      BY <2>1, <3>1, ChangesDraft DEF SnapshotInv
  <2>2. ASSUME NEW q \in opened, Becomes(w, read(q)) PROVE DraftSteps
    <3>1. DOMAIN read(q) \subseteq Fields /\ "draft" \notin DOMAIN read(q)
      BY FieldNames
    <3> QED
      BY <2>2, <3>1, ChangesDraft DEF SnapshotInv
  <2> QED
    BY <1>5, <2>1, <2>2 DEF ReadFirst
<1>6. ASSUME NEW w \in Writer, ReadFile(w) PROVE DraftSteps
  <2>1. \A fields \in {[step |-> "failed"], [step |-> "blob"]} :
          DOMAIN fields \subseteq Fields /\ "draft" \notin DOMAIN fields
    BY FieldNames
  <2>2. Becomes(w, [step |-> "failed"]) \/ Becomes(w, [step |-> "blob"])
    BY <1>6 DEF ReadFile
  <2> QED
    BY <2>1, <2>2, ChangesDraft DEF SnapshotInv
<1>7. ASSUME NEW w \in Writer, WriteTree(w) PROVE DraftSteps
  <2> DEFINE fields == [step |-> "tree", hash |-> TreeObject(job[w].draft)]
  <2>1. Becomes(w, fields) /\ DOMAIN fields \subseteq Fields /\ "draft" \notin DOMAIN fields
    BY <1>7, FieldNames DEF WriteTree
  <2> QED
    BY <2>1, ChangesDraft DEF SnapshotInv
<1>8. ASSUME NEW p \in DOMAIN Commit, ImportPath(p) PROVE DraftSteps
  <2>1. MayBe(p, Commit[p]) /\ Commit[p].kind # "none" /\ p \in Path /\ Import \in Writer
    BY SnapshotAssumption DEF MayBe
  <2>2. EntryOf(Commit[p].mode, BlobOf(Commit[p].data)) \in EntryAt(p)
    BY <2>1, Seeing, NewEntry DEF Value
  <2> QED
    BY <1>8, <2>1, <2>2, StoreDraft DEF ImportPath, SnapshotInv
<1>9. ASSUME NEW w \in Writer, BlobWritten(w) PROVE DraftSteps
  <2>1. /\ EntryOf(job[w].mode, job[w].hash) \in EntryAt(job[w].path) /\ job[w].path \in Path
        /\ job[w].hash \in DOMAIN disk
    BY <1>9 DEF BlobWritten, SnapshotInv, JobsInv, JobOK, StoreInv
  <2> QED
    BY <1>9, <2>1, PutDraft, NewEntry DEF BlobWritten, SnapshotInv
<1>10. ASSUME NEW w \in Writer,
              AppendCheckpoint(w) \/ GiveUp(w) \/ (MapSaved /\ w = Loop)
       PROVE  DraftSteps
  <2>1. job'[w].draft = NoEntries /\ \A v \in Writer \ {w} : job'[v] = job[v]
    BY <1>10 DEF AppendCheckpoint, GiveUp, MapSaved, SnapshotInv, JobsInv, JobShape, NoJob
  <2> QED
    BY <2>1 DEF DraftSteps, DraftStep
<1>11. CASE Dies
  BY <1>11 DEF Dies, NoJob, DraftSteps, DraftStep
<1>12. CASE Next
  BY <1>1, <1>2, <1>3, <1>4, <1>5, <1>6, <1>7, <1>8, <1>9, <1>10, <1>11, <1>12, LstatDraft,
     HashDraft, SnapshotAssumption DEF Next, StartDaemon, StopDaemon, Write, Error
<1> QED
  BY <1>2, <1>12 DEF vars

LEMMA DiskGrows ==
  ASSUME ~PowerFails, SnapshotInv, [Next]_vars
  PROVE  DOMAIN disk \subseteq DOMAIN disk'
<1>1. CASE \E w \in Writer : Write(w)
  BY <1>1 DEF Write, WriteStep, Probe, Create, Fill, Rename, Settle, GitPut, FillCache, With
<1>2. CASE Dies
  BY <1>2 DEF Dies, StoreDies
<1>3. CASE UNCHANGED disk
  BY <1>3
<1>4. CASE Next
  BY <1>1, <1>2, <1>3, <1>4
  DEF Next, Edit, StartDaemon, BeginUpdate, BeginImport, BeginScan, BeginRebuild, MapSaved,
      StopDaemon, ImportPath, Lstat, ReadFirst, HashFile, ReadFile, BlobWritten, WriteTree,
      AppendCheckpoint, GiveUp, Error, WriteFails, storeVars
<1> QED
  BY <1>3, <1>4 DEF vars, storeVars

(* Where the daemon's map, what is written as the map file, the map file   *)
(* and a new checkpoint come from.                                         *)
MapOrigin ==
  \/ map' \in {map, NoEntries} \/ \E w \in Writer : map' = job[w].draft
  \/ PathMap \in DOMAIN disk /\ \A m \in Maps : disk[PathMap] = MapObject(m) => map' = m

IsMapWrite(i) == i.name = PathMap /\ i.step \in {"create", "fill", "rename"}

BytesOrigin(w) ==
  IsMapWrite(io'[w]) =>
    \/ IsMapWrite(io[w]) /\ io'[w].bytes = io[w].bytes
    \/ \E m \in Maps : /\ io'[w].bytes = MapObject(m)
                       /\ m = job[w].draft \/ FromCheckpoint(m)

MapFileOrigin ==
  PathMap \in DOMAIN disk' =>
    \/ PathMap \in DOMAIN disk /\ disk'[PathMap] = disk[PathMap]
    \/ \E w \in Writer : IsMapWrite(io[w]) /\ disk'[PathMap] = io[w].bytes

CheckpointOrigin ==
  \A i \in 1..Len(checkpoints') :
    \/ i \in 1..Len(checkpoints) /\ checkpoints'[i] = checkpoints[i]
    \/ /\ checkpoints'[i] \in DOMAIN disk
       /\ \E w \in Writer : checkpoints'[i] = TreeObject(job[w].draft)

LEMMA WriteOrigins ==
  ASSUME SnapshotInv, NEW w \in Writer, WriteStep(w) \/ WriteFails(w)
  PROVE  MapFileOrigin /\ \A v \in Writer : BytesOrigin(v)
<1> USE DEF MapFileOrigin, BytesOrigin, IsMapWrite, Step, SnapshotInv, StoreInv, IoSet, StepSet
<1>1. CASE Probe(w)
  BY <1>1 DEF Probe
<1>2. CASE Rename(w)
  BY <1>2 DEF Rename, With, TmpFile
<1>3. CASE Create(w) \/ Fill(w) \/ Settle(w) \/ GitPut(w) \/ FillCache(w) \/ WriteFails(w)
  BY <1>3 DEF Create, Fill, Settle, GitPut, FillCache, WriteFails
<1> QED
  BY <1>1, <1>2, <1>3 DEF WriteStep

LEMMA BytesOrigins ==
  ASSUME MarksAreNoValues, SnapshotInv, [Next]_vars
  PROVE  \A v \in Writer : BytesOrigin(v)
<1>1. CASE UNCHANGED io
  BY <1>1 DEF BytesOrigin
<1>2. ASSUME NEW w \in Writer, NEW s \in {"none", "failed"}, Step(w, s)
      PROVE  \A v \in Writer : BytesOrigin(v)
  BY <1>2 DEF BytesOrigin, IsMapWrite, Step, SnapshotInv, StoreInv, IoSet
<1>3. ASSUME NEW w \in Writer, NEW name, NEW bytes, StartWrite(w, name, bytes),
             \/ name # PathMap
             \/ \E m \in Maps : /\ bytes = MapObject(m)
                                /\ m = job[w].draft \/ FromCheckpoint(m)
      PROVE  \A v \in Writer : BytesOrigin(v)
  <2>1. io'[w].name = name /\ io'[w].bytes = bytes /\ \A v \in Writer \ {w} : io'[v] = io[v]
    BY <1>3 DEF StartWrite, SnapshotInv, StoreInv
  <2> QED
    BY <1>3, <2>1 DEF BytesOrigin, IsMapWrite
<1>4. CASE Dies
  BY <1>4 DEF Dies, StoreDies, BytesOrigin, IsMapWrite, Idle
<1>5. CASE BeginRebuild
  <2> DEFINE head == checkpoints[Len(checkpoints)]
  <2>1. Len(checkpoints) \in 1..Len(checkpoints) /\ head \in TreeSet
    BY <1>5 DEF BeginRebuild, SnapshotInv
  <2>2. PICK tree \in Maps : head = TreeObject(tree)
    BY <2>1 DEF TreeSet
  <2>3. ReadTree(head) = tree
    BY <1>5, <2>1, <2>2, ReadTrees DEF BeginRebuild, SnapshotInv
  <2>4. StartWrite(Loop, PathMap, MapObject(tree))
    BY <1>5, <2>3 DEF BeginRebuild
  <2>5. FromCheckpoint(tree)
    BY <2>1, <2>2 DEF FromCheckpoint
  <2> QED
    BY <1>3, <2>4, <2>5, SnapshotAssumption
<1>6. \A d : BlobOf(d) # PathMap
  BY DEF BlobOf, PathMap
<1>7. \A m : TreeObject(m) # PathMap
  BY DEF TreeObject, PathMap
<1>8. ASSUME NEW w \in Writer, NEW p, NEW mode, NEW data, Store(w, p, mode, data)
      PROVE  \A v \in Writer : BytesOrigin(v)
  BY <1>1, <1>3, <1>6, <1>8 DEF Store
<1>9. ASSUME NEW w \in Writer, ReadFile(w) PROVE \A v \in Writer : BytesOrigin(v)
  <2>1. job[w].hash \in FileBlob
    BY <1>9 DEF ReadFile, SnapshotInv, JobsInv, JobOK
  <2>2. job[w].hash # PathMap
    BY <2>1, Kinds DEF Blob
  <2> QED
    BY <1>1, <1>3, <1>9, <2>2 DEF ReadFile
<1>10. ASSUME NEW w \in Writer, AppendCheckpoint(w) PROVE \A v \in Writer : BytesOrigin(v)
  <2>1. job[w].draft \in Maps
    BY DEF SnapshotInv, JobsInv, JobOK
  <2> QED
    BY <1>2, <1>3, <1>10, <2>1 DEF AppendCheckpoint
<1>11. CASE Next
  BY <1>1, <1>2, <1>3, <1>4, <1>5, <1>7, <1>8, <1>9, <1>10, <1>11, WriteOrigins, SnapshotAssumption
  DEF Next, Edit, StartDaemon, BeginUpdate, BeginImport, BeginScan, MapSaved, StopDaemon,
      ImportPath, Lstat, ReadFirst, HashFile, BlobWritten, WriteTree, GiveUp, Write, Error,
      storeVars
<1> QED
  BY <1>1, <1>11 DEF vars, storeVars

LEMMA MapOrigins ==
  ASSUME MarksAreNoValues, SnapshotInv, [Next]_vars
  PROVE  MapOrigin
<1>1. CASE UNCHANGED map
  BY <1>1 DEF MapOrigin
<1>2. CASE StartDaemon
  <2>1. CASE PathMap \in DOMAIN disk
    <3>1. ASSUME NEW m \in Maps, disk[PathMap] = MapObject(m)
          PROVE  map' = m \/ map' = NoEntries
      BY <1>2, <2>1, <3>1, MapCodecInverse DEF StartDaemon
    <3> QED
      BY <1>2, <2>1, <3>1 DEF MapOrigin
  <2>2. CASE PathMap \notin DOMAIN disk
    BY <1>2, <2>2 DEF StartDaemon, MapOrigin
  <2> QED
    BY <2>1, <2>2
<1>3. CASE MapSaved \/ StopDaemon \/ Dies \/ \E w \in Writer : AppendCheckpoint(w)
  BY <1>3, SnapshotAssumption DEF MapSaved, StopDaemon, Dies, AppendCheckpoint, MapOrigin
<1>4. CASE Next
  BY <1>1, <1>2, <1>3, <1>4
  DEF Next, Edit, BeginUpdate, BeginImport, BeginScan, BeginRebuild, ImportPath, Lstat,
      ReadFirst, HashFile, ReadFile, BlobWritten, WriteTree, GiveUp, Write, Error
<1> QED
  BY <1>1, <1>4 DEF vars

LEMMA MapFileOrigins ==
  ASSUME SnapshotInv, [Next]_vars
  PROVE  MapFileOrigin
<1>1. CASE UNCHANGED disk
  BY <1>1 DEF MapFileOrigin
<1>2. CASE Dies
  BY <1>2 DEF Dies, StoreDies, MapFileOrigin
<1>3. CASE Next
  BY <1>1, <1>2, <1>3, WriteOrigins
  DEF Next, Edit, StartDaemon, BeginUpdate, BeginImport, BeginScan, BeginRebuild, MapSaved,
      StopDaemon, ImportPath, Lstat, ReadFirst, HashFile, ReadFile, BlobWritten, WriteTree,
      AppendCheckpoint, GiveUp, Write, Error, storeVars
<1> QED
  BY <1>1, <1>3 DEF vars, storeVars

LEMMA CheckpointOrigins ==
  ASSUME SnapshotInv, [Next]_vars
  PROVE  CheckpointOrigin
<1>1. CASE UNCHANGED checkpoints
  BY <1>1 DEF CheckpointOrigin
<1>2. ASSUME NEW w \in Writer, AppendCheckpoint(w) PROVE CheckpointOrigin
  <2>1. /\ job[w].hash = TreeObject(job[w].draft) /\ job[w].hash \in DOMAIN disk
    BY <1>2 DEF AppendCheckpoint, SnapshotInv, StoreInv, JobsInv, JobOK
  <2>2. checkpoints' \in {checkpoints, Append(checkpoints, job[w].hash)}
    BY <1>2 DEF AppendCheckpoint
  <2>3. checkpoints \in Seq(TreeSet)
    BY DEF SnapshotInv
  <2> QED
    BY <2>1, <2>2, <2>3 DEF CheckpointOrigin
<1>3. CASE Next
  BY <1>1, <1>2, <1>3
  DEF Next, Edit, StartDaemon, BeginUpdate, BeginImport, BeginScan, BeginRebuild, MapSaved,
      StopDaemon, Dies, ImportPath, Lstat, ReadFirst, HashFile, ReadFile, BlobWritten,
      WriteTree, GiveUp, Write, Error
<1> QED
  BY <1>1, <1>3 DEF vars

LEMMA KeptStep ==
  ASSUME MarksAreNoValues, ~PowerFails, SnapshotInv, KeptInv, [Next]_vars
  PROVE  KeptInv'
<1>1. DOMAIN disk \subseteq DOMAIN disk'
  BY DiskGrows
<1>2. \A m : Kept(m) => \A p \in DOMAIN m : m[p].hash \in DOMAIN disk'
  BY <1>1 DEF Kept
<1>3. ASSUME NEW m, FromCheckpoint(m) PROVE Kept(m)
  <2>1. PICK i \in 1..Len(checkpoints) : checkpoints[i] = TreeObject(m)
    BY <1>3 DEF FromCheckpoint
  <2>2. PICK n \in Maps : checkpoints[i] = TreeObject(n) /\ Kept(n)
    BY <2>1 DEF KeptInv
  <2>3. Listing(m) = Listing(n)
    BY <2>1, <2>2 DEF TreeObject
  <2>4. m = n
    BY <1>3, <2>3, TreeCodecInverse DEF FromCheckpoint
  <2> QED
    BY <2>2, <2>4
<1>4. Kept(NoEntries)
  BY DEF Kept, NoEntries
<1>5. ASSUME NEW w \in Writer PROVE Kept(job[w].draft)'
  <2>1. \A p \in DOMAIN job'[w].draft : job'[w].draft[p].hash \in DOMAIN disk
    <3>1. Kept(job[w].draft) /\ Kept(map)
      BY DEF KeptInv
    <3>2. CASE job'[w].draft \in {job[w].draft, map, NoEntries}
      BY <1>4, <3>1, <3>2 DEF Kept
    <3>3. CASE \E p \in Path : job'[w].draft = Without(job[w].draft, p)
      BY <3>1, <3>3 DEF Kept, Without
    <3>4. CASE \E p \in Path : \E e \in EntryAt(p) :
                 e.hash \in DOMAIN disk /\ job'[w].draft = With(job[w].draft, p, e)
      BY <3>1, <3>4 DEF Kept, With
    <3>5. CASE FromCheckpoint(job'[w].draft)
      BY <1>3, <3>5 DEF Kept
    <3> QED
      BY <3>2, <3>3, <3>4, <3>5, Drafts DEF DraftSteps, DraftStep
  <2> QED
    BY <1>1, <2>1 DEF Kept
<1>6. Kept(map)'
  <2>1. \A p \in DOMAIN map' : map'[p].hash \in DOMAIN disk
    BY <1>4, MapOrigins DEF MapOrigin, KeptInv, Kept
  <2> QED
    BY <1>2, <2>1 DEF Kept
<1>7. ASSUME NEW w \in Writer, IsMapWrite(io'[w])
      PROVE  \E m \in Maps : io'[w].bytes = MapObject(m) /\ Kept(m)'
  <2>1. PICK m \in Maps : io'[w].bytes = MapObject(m) /\ Kept(m)
    <3>1. CASE IsMapWrite(io[w]) /\ io'[w].bytes = io[w].bytes
      BY <3>1 DEF IsMapWrite, KeptInv
    <3>2. ASSUME NEW m \in Maps, io'[w].bytes = MapObject(m),
                 m = job[w].draft \/ FromCheckpoint(m)
          PROVE  Kept(m)
      BY <1>3, <3>2 DEF KeptInv
    <3> QED
      BY <1>7, <3>1, <3>2, BytesOrigins DEF BytesOrigin
  <2> QED
    BY <1>2, <2>1 DEF Kept
<1>8. ASSUME PathMap \in DOMAIN disk'
      PROVE  \E m \in Maps : disk'[PathMap] = MapObject(m) /\ Kept(m)'
  <2>1. PICK m \in Maps : disk'[PathMap] = MapObject(m) /\ Kept(m)
    BY <1>8, MapFileOrigins DEF MapFileOrigin, IsMapWrite, KeptInv
  <2> QED
    BY <1>2, <2>1 DEF Kept
<1>9. ASSUME NEW i \in 1..Len(checkpoints')
      PROVE  /\ checkpoints'[i] \in DOMAIN disk'
             /\ \E m \in Maps : checkpoints'[i] = TreeObject(m) /\ Kept(m)'
  <2>1. checkpoints'[i] \in DOMAIN disk
    BY <1>9, CheckpointOrigins DEF CheckpointOrigin, KeptInv
  <2>2. PICK m \in Maps : checkpoints'[i] = TreeObject(m) /\ Kept(m)
    <3>1. CASE i \in 1..Len(checkpoints) /\ checkpoints'[i] = checkpoints[i]
      BY <3>1 DEF KeptInv
    <3>2. ASSUME NEW w \in Writer, checkpoints'[i] = TreeObject(job[w].draft)
          PROVE  \E m \in Maps : checkpoints'[i] = TreeObject(m) /\ Kept(m)
      BY <3>2 DEF KeptInv, SnapshotInv, JobsInv, JobOK
    <3> QED
      BY <1>9, <3>1, <3>2, CheckpointOrigins DEF CheckpointOrigin
  <2> QED
    BY <1>1, <1>2, <2>1, <2>2 DEF Kept
<1> QED
  BY <1>5, <1>6, <1>7, <1>8, <1>9 DEF KeptInv, IsMapWrite

(* A recorded checkpoint can be restored, unless the machine fails: an     *)
(* object that somebody else is about to write is not yet taken for there. *)
THEOREM RecordedAlwaysReadable ==
  ASSUME MarksAreNoValues, ~PowerFails
  PROVE  Spec => []RecordedReadable
<1>1. Init => KeptInv
  BY DEF Init, StoreInit, KeptInv, Kept, NoJob, NoEntries, Idle
<1>2. ASSUME SnapshotInv, KeptInv PROVE RecordedReadable
  <2> SUFFICES ASSUME NEW i \in 1..Len(checkpoints)
               PROVE  LET tree == ReadTreeFile(checkpoints[i])
                      IN  /\ tree # Corrupt
                          /\ \A p \in DOMAIN tree : ReadBlob(tree[p].hash) # Corrupt
    BY DEF RecordedReadable
  <2>1. PICK m \in Maps : checkpoints[i] = TreeObject(m) /\ Kept(m)
    BY <1>2 DEF KeptInv
  <2>2. checkpoints[i] \in TreeSet /\ checkpoints[i] \in DOMAIN disk
    BY <1>2 DEF KeptInv, SnapshotInv
  <2>3. disk[checkpoints[i]] = checkpoints[i]
    BY <1>2, <2>2, Kinds DEF SnapshotInv, StoreInv, Whole
  <2>4. ReadTreeFile(checkpoints[i]) = m /\ m # Corrupt
    BY <2>1, <2>2, <2>3, ReadBack DEF ReadTreeFile
  <2>5. ASSUME NEW p \in DOMAIN m PROVE ReadBlob(m[p].hash) # Corrupt
    <3>1. m[p].hash \in DOMAIN disk /\ m[p].hash \in Blob
      BY <2>1, <2>5, EntryCodec DEF Kept, Maps
    <3>2. disk[m[p].hash] = m[p].hash
      BY <1>2, <3>1, Kinds DEF SnapshotInv, StoreInv, Whole
    <3> QED
      BY <3>1, <3>2, ReadBack DEF ReadBlob
  <2> QED
    BY <2>4, <2>5
<1> QED
  BY <1>1, <1>2, SnapshotStarts, SnapshotStep, KeptStep, PTL DEF Spec

-------------------------------------------------------------------------------
(* What the loop says of the files.  No link has for a text what may be    *)
(* read in a file, and every change of a file shows in its mtime.          *)

LinksApart == \A p \in Path : TextOfFile \cap TextOfLink(p) = {}

(* It has been read at the path, in one go.                                *)
Content == {"file", "through"}

Said(j, p) ==
  IF p \in DOMAIN j.draft THEN Held(j.of[p], j.draft[p])
  ELSE \E v \in j.of[p] : v.kind = "none"

AtFile == {"hash", "hashing", "read", "reading"}

LoopOK(j) ==
  /\ j.step \in AtFile \cup {"visit", "blob", "tree"} =>
       j.todo \subseteq DOMAIN j.of /\ \A p \in DOMAIN j.of \ j.todo : Said(j, p)
  /\ j.step \in AtFile =>
       j.path \in j.todo /\ \E v \in j.of[j.path] : v.kind = "file" /\ v.mode = j.mode
  /\ j.step \in {"hashing", "reading"} =>
       /\ j.mtime \in Int /\ j.mtime <= clock
       /\ \A q \in Path : files[q].mtime = j.mtime =>
            /\ j.open = {q}
            /\ \E v \in j.of[j.path] : v.kind \in Content /\ v.data = <<j.part, j.rest>>
  /\ j.step \in {"read", "reading"} =>
       \E v \in j.of[j.path] : v.kind \in Content /\ BlobOf(v.data) = j.hash
  /\ j.step = "blob" => j.path \in j.todo /\ Held(j.of[j.path], EntryOf(j.mode, j.hash))
  /\ j.step = "tree" => j.todo = {}

FaithInv ==
  /\ clock \in Nat /\ \A p \in Path : files[p].mtime \in Int /\ files[p].mtime <= clock
  /\ \A p, q \in Path : files[p].mtime = files[q].mtime => p = q
  /\ DOMAIN job[Loop].of \subseteq Path
  /\ \A p \in DOMAIN job[Loop].of : ReadsAs(files, p) \subseteq job[Loop].of[p]
  /\ LoopOK(job[Loop])

LEMMA HeldLonger ==
  ASSUME NEW S, NEW T, S \subseteq T, NEW e, Held(S, e)
  PROVE  Held(T, e)
  BY DEF Held

(* An entry with the hash of what a link says is the entry of a link.      *)
LEMMA EntryHeld ==
  ASSUME LinksApart, NEW p \in Path, NEW e \in EntryAt(p),
         NEW S, NEW v \in S, MayBe(p, v), e.hash = BlobOf(v.data), v.kind = "link"
  PROVE  Held(S, e)
<1>1. v.data \in TextOfLink(p)
  BY Seeing DEF TextOfLink, Value
<1>2. e.hash \notin FileBlob
  <2>1. \A d : BlobOf(d) = BlobOf(v.data) => d = v.data
    BY DEF BlobOf
  <2> QED
    BY <1>1, <2>1 DEF LinksApart, FileBlob
<1>3. e = LinkEntry(e.hash)
  BY <1>2 DEF EntryAt, LinkEntry
<1> QED
  BY <1>3 DEF Held

(* An entry with the mode that lstat gave and the hash of what was read.   *)
LEMMA FileHeld ==
  ASSUME NEW S, NEW v \in S, NEW u \in S, v.kind \in Content, u.kind = "file"
  PROVE  Held(S, FileEntry(u.mode, BlobOf(v.data)))
<1>1. PICK e : e = FileEntry(u.mode, BlobOf(v.data))
  OBVIOUS
<1>2. e.hash = BlobOf(v.data)
  BY <1>1 DEF FileEntry
<1>3. Held(S, e)
  BY <1>1, <1>2 DEF Held, Content
<1> QED
  BY <1>1, <1>3

(* The entry that is left as it is says the same.                          *)
LEMMA SameEntry ==
  ASSUME LinksApart, NEW p \in Path, NEW e \in EntryAt(p), e.hash \in FileBlob
  PROVE  e = FileEntry(e.mode, e.hash)
<1>1. e.hash \notin LinkBlob(p)
  <2>1. \A c, d : BlobOf(c) = BlobOf(d) => c = d
    BY DEF BlobOf
  <2> QED
    BY <2>1 DEF LinksApart, FileBlob, LinkBlob
<1> QED
  BY <1>1, Modes DEF EntryAt, FileEntry

LEMMA EditSaid ==
  ASSUME FineClock, SnapshotInv, FaithInv, NEW p \in Path, NEW v \in Values[p], Edit(p, v)
  PROVE  FaithInv'
<1>0. PICK j, k : j = job[Loop] /\ k = job'[Loop]
  OBVIOUS
<1>1. MayBe(p, v) /\ v \in Value
  BY Seeing DEF MayBe
<1>2. files' = [files EXCEPT ![p] = [kind |-> v.kind, mode |-> v.mode, data |-> v.data,
                                     mtime |-> clock + 1]]
      /\ clock' = clock + 1
  BY DEF Edit
<1>4. /\ \A x \in Fields \ {"open", "rest", "of"} : k[x] = j[x]
      /\ DOMAIN k.of = DOMAIN j.of
      /\ \A q \in DOMAIN j.of : k.of[q] = j.of[q] \cup ReadsAs(files', q)
      /\ k.open \in {j.open, j.open \ {p}} /\ (p \notin j.open => k.rest = j.rest)
  <2>1. Loop \in Writer /\ JobsInv
    BY SnapshotAssumption DEF SnapshotInv
  <2> QED
    BY <1>0, <2>1, Editing
<1>5. /\ k.step = j.step /\ k.todo = j.todo /\ k.path = j.path /\ k.mode = j.mode
      /\ k.part = j.part /\ k.mtime = j.mtime /\ k.hash = j.hash /\ k.draft = j.draft
  BY <1>4, FieldNames
<1>6. \A q \in DOMAIN j.of : j.of[q] \subseteq k.of[q]
  BY <1>4
<1>7. \A q \in DOMAIN j.of : Said(j, q) => Said(k, q)
  BY <1>5, <1>6, HeldLonger DEF Said
<1>8. \A q \in Path \ {p} : files'[q] = files[q]
  BY <1>2 DEF SnapshotInv, FilesInv
<1>9. files'[p].mtime = clock + 1
  BY <1>2 DEF SnapshotInv, FilesInv
<1>10. LoopOK(k)'
  <2>1. LoopOK(j) /\ DOMAIN j.of \subseteq Path
    BY <1>0 DEF FaithInv
  <2>2. j.step \in AtFile => j.path \in DOMAIN j.of
    BY <2>1 DEF LoopOK, AtFile
  <2>3. ASSUME j.step \in {"hashing", "reading"}
        PROVE  /\ k.mtime \in Int /\ k.mtime <= clock'
               /\ \A q \in Path : files'[q].mtime = k.mtime =>
                    /\ k.open = {q}
                    /\ \E x \in k.of[k.path] : x.kind \in Content /\ x.data = <<k.part, k.rest>>
    <3>1. /\ k.mtime \in Int /\ k.mtime <= clock /\ clock \in Nat /\ k.mtime = j.mtime
          /\ j.path \in DOMAIN j.of
      BY <1>5, <2>1, <2>2, <2>3 DEF LoopOK, FaithInv, AtFile
    <3>2. ASSUME NEW q \in Path, files'[q].mtime = k.mtime
          PROVE  /\ k.open = {q}
                 /\ \E x \in k.of[k.path] : x.kind \in Content /\ x.data = <<k.part, k.rest>>
      <4>1. q # p /\ files[q].mtime = j.mtime
        BY <1>8, <1>9, <3>1, <3>2
      <4>2. /\ j.open = {q}
            /\ \E x \in j.of[j.path] : x.kind \in Content /\ x.data = <<j.part, j.rest>>
        BY <2>1, <2>3, <4>1 DEF LoopOK
      <4>3. k.open = {q} /\ k.rest = j.rest
        BY <1>4, <4>1, <4>2
      <4> QED
        BY <1>5, <1>6, <3>1, <4>2, <4>3
    <3> QED
      BY <1>2, <3>1, <3>2
  <2>4. j.step = "blob" => k.path \in k.todo /\ Held(k.of[k.path], EntryOf(k.mode, k.hash))
    BY <1>5, <1>6, <2>1, HeldLonger DEF LoopOK
  <2> QED
    BY <1>4, <1>5, <1>6, <1>7, <2>1, <2>3, <2>4 DEF LoopOK, AtFile
<1>11. clock' \in Nat /\ \A q \in Path : files'[q].mtime \in Int /\ files'[q].mtime <= clock'
  BY <1>2, <1>8, <1>9 DEF FaithInv
<1>12. \A x, y \in Path : files'[x].mtime = files'[y].mtime => x = y
  BY <1>8, <1>9 DEF FaithInv
<1>13. DOMAIN k.of \subseteq Path /\ \A q \in DOMAIN k.of : ReadsAs(files', q) \subseteq k.of[q]
  BY <1>0, <1>4 DEF FaithInv
<1> QED
  BY <1>0, <1>10, <1>11, <1>12, <1>13 DEF FaithInv

LoopFields == {"step", "todo", "path", "mode", "hash", "draft", "of"}

LEMMA LoopBecomes ==
  ASSUME SnapshotInv, NEW j, j = job[Loop], NEW k, k = job'[Loop],
         NEW fields, Becomes(Loop, fields), DOMAIN fields \subseteq Fields
  PROVE  /\ \A x \in DOMAIN fields : k[x] = fields[x]
         /\ \A x \in LoopFields \ DOMAIN fields : k[x] = j[x]
<1>1. /\ \A x \in Fields : x \in DOMAIN fields => job'[Loop][x] = fields[x]
      /\ \A x \in Fields \ OfFile : x \notin DOMAIN fields => job'[Loop][x] = job[Loop][x]
  <2>1. Loop \in Writer /\ JobShape
    BY SnapshotAssumption DEF SnapshotInv, JobsInv
  <2> QED
    BY <2>1, Becoming
<1>2. LoopFields \subseteq Fields \ OfFile
  BY FieldNames DEF LoopFields
<1>3. \A x \in DOMAIN fields : k[x] = fields[x]
  BY <1>1
<1>4. \A x \in LoopFields \ DOMAIN fields : k[x] = j[x]
  BY <1>1, <1>2
<1> QED
  BY <1>3, <1>4

LEMMA LoopSays ==
  ASSUME FaithInv, UNCHANGED fileVars, NEW k, k = job'[Loop], k.of = job[Loop].of, LoopOK(k)
  PROVE  FaithInv'
  BY DEF FaithInv, LoopOK, fileVars

LEMMA LoopFails ==
  ASSUME SnapshotInv, FaithInv, UNCHANGED fileVars, Becomes(Loop, [step |-> "failed"])
  PROVE  FaithInv'
<1>1. PICK k : k = job'[Loop]
  OBVIOUS
<1>2. DOMAIN [step |-> "failed"] \subseteq Fields
  BY FieldNames
<1>3. k.step = "failed" /\ k.of = job[Loop].of
  BY <1>1, <1>2, LoopBecomes DEF LoopFields
<1>4. LoopOK(k)
  BY <1>3 DEF LoopOK, AtFile
<1> QED
  BY <1>1, <1>3, <1>4, LoopSays

LEMMA LoopPuts ==
  ASSUME SnapshotInv, FaithInv, UNCHANGED fileVars,
         job[Loop].step \in AtFile \cup {"visit", "blob"},
         NEW p \in job[Loop].todo, NEW e, Held(job[Loop].of[p], e),
         \/ Put(Loop, p, e)
         \/ p \in DOMAIN job[Loop].draft /\ e = job[Loop].draft[p] /\ Skip(Loop, p)
  PROVE  FaithInv'
<1>1. PICK j, k : j = job[Loop] /\ k = job'[Loop]
  OBVIOUS
<1>2. /\ k.step = "visit" /\ k.todo = j.todo \ {p} /\ k.of = j.of
      /\ \/ k.draft = With(j.draft, p, e)
         \/ p \in DOMAIN j.draft /\ e = j.draft[p] /\ k.draft = j.draft
  <2> DEFINE put == [step |-> "visit", todo |-> job[Loop].todo \ {p},
                     draft |-> With(job[Loop].draft, p, e)]
             skip == [step |-> "visit", todo |-> job[Loop].todo \ {p}]
  <2>1. DOMAIN put \subseteq Fields /\ DOMAIN skip \subseteq Fields
    BY FieldNames
  <2>2. CASE Becomes(Loop, put)
    <3>1. /\ job'[Loop].step = "visit" /\ job'[Loop].todo = job[Loop].todo \ {p}
          /\ job'[Loop].of = job[Loop].of /\ job'[Loop].draft = With(job[Loop].draft, p, e)
      BY <2>1, <2>2, LoopBecomes DEF LoopFields
    <3> QED
      BY <1>1, <3>1
  <2>3. CASE Becomes(Loop, skip) /\ p \in DOMAIN job[Loop].draft /\ e = job[Loop].draft[p]
    BY <1>1, <2>1, <2>3, LoopBecomes DEF LoopFields
  <2> QED
    BY <2>2, <2>3 DEF Put, Skip
<1>3. j.todo \subseteq DOMAIN j.of /\ \A q \in DOMAIN j.of \ j.todo : Said(j, q)
  BY <1>1 DEF FaithInv, LoopOK
<1>4. Said(k, p)
  BY <1>1, <1>2 DEF Said, With
<1>5. ASSUME NEW q \in DOMAIN j.of \ j.todo PROVE Said(k, q)
  BY <1>1, <1>2, <1>3, <1>5 DEF Said, With
<1>6. LoopOK(k)
  BY <1>1, <1>2, <1>3, <1>4, <1>5 DEF LoopOK, AtFile
<1> QED
  BY <1>1, <1>2, <1>6, LoopSays

(* What a path is now has been seen since the checkpoint began.            *)
LEMMA LoopSees ==
  ASSUME SnapshotInv, FaithInv, NEW p \in DOMAIN job[Loop].of
  PROVE  /\ p \in Path /\ Seen(files[p]) \in job[Loop].of[p] /\ MayBe(p, Seen(files[p]))
         /\ Seen(files[p]).kind = files[p].kind /\ Seen(files[p]).mode = files[p].mode
         /\ Seen(files[p]).data = files[p].data /\ files[p].data \in Data \X Data
<1>1. p \in Path /\ Seen(files[p]) \in job[Loop].of[p] /\ MayBe(p, Seen(files[p]))
  BY DEF FaithInv, SnapshotInv, FilesInv, ReadsAs
<1>2. Seen(files[p]) = [kind |-> files[p].kind, mode |-> files[p].mode, data |-> files[p].data]
  BY DEF Seen
<1> QED
  BY <1>1, <1>2, Seeing DEF Value

LEMMA LstatSaid ==
  ASSUME LinksApart, SnapshotInv, FaithInv, NEW p \in Path, Lstat(Loop, p)
  PROVE  FaithInv'
<1>1. PICK j, k : j = job[Loop] /\ k = job'[Loop]
  OBVIOUS
<1>2. /\ j.step = "visit" /\ p \in j.todo /\ p \in DOMAIN j.of
      /\ \A q \in DOMAIN j.of \ j.todo : Said(j, q)
      /\ j.todo \subseteq DOMAIN j.of /\ j.draft \in Maps /\ UNCHANGED fileVars
  BY <1>1, SnapshotAssumption DEF Lstat, FaithInv, LoopOK, SnapshotInv, JobsInv, JobOK
<1>3. PICK v \in j.of[p] : MayBe(p, v) /\ v = Seen(files[p])
           /\ v.kind = files[p].kind /\ v.mode = files[p].mode /\ v.data = files[p].data
  BY <1>1, <1>2, LoopSees
<1> DEFINE f == files[p]
           gone == [todo |-> j.todo \ {p}, draft |-> Without(j.draft, p)]
           file == [step |-> "hash", path |-> p, mode |-> f.mode, tries |-> 0]
           blob == [step |-> "blob", path |-> p, mode |-> Link, hash |-> BlobOf(f.data)]
<1>4. DOMAIN gone \subseteq Fields /\ DOMAIN file \subseteq Fields /\ DOMAIN blob \subseteq Fields
  BY FieldNames
<1>5. CASE f.kind = "none" /\ Becomes(Loop, gone)
  <2>1. /\ k.step = "visit" /\ k.todo = j.todo \ {p} /\ k.draft = Without(j.draft, p)
        /\ k.of = j.of
    <3> HIDE DEF gone
    <3>1. \A x \in DOMAIN gone : k[x] = gone[x]
      BY <1>1, <1>4, <1>5, LoopBecomes
    <3>2. \A x \in LoopFields \ DOMAIN gone : k[x] = j[x]
      BY <1>1, <1>4, <1>5, LoopBecomes
    <3>3. k.todo = j.todo \ {p} /\ k.draft = Without(j.draft, p)
      BY <3>1 DEF gone
    <3>4. k.of = j.of /\ k.step = j.step
      BY <3>2 DEF gone, LoopFields
    <3> QED
      BY <1>2, <3>3, <3>4
  <2>2. Said(k, p)
    BY <1>3, <1>5, <2>1 DEF Said, Without
  <2>3. ASSUME NEW q \in DOMAIN j.of \ j.todo PROVE Said(k, q)
    BY <1>2, <2>1, <2>3 DEF Said, Without
  <2>4. LoopOK(k)
    BY <1>2, <2>1, <2>2, <2>3 DEF LoopOK, AtFile
  <2> QED
    BY <1>1, <1>2, <2>1, <2>4, LoopSays
<1>6. CASE /\ f.kind = "link" /\ p \in DOMAIN j.draft /\ j.draft[p].hash = BlobOf(f.data)
           /\ Skip(Loop, p)
  <2>1. j.draft[p] \in EntryAt(p)
    BY <1>2, <1>6 DEF Maps
  <2>2. Held(j.of[p], j.draft[p])
    BY <1>3, <1>6, <2>1, EntryHeld
  <2> QED
    BY <1>1, <1>2, <1>6, <2>2, LoopPuts
<1>7. CASE f.kind = "link" /\ Store(Loop, p, Link, f.data)
  <2> DEFINE e == EntryOf(Link, BlobOf(f.data))
  <2>1. e \in EntryAt(p) /\ e.hash = BlobOf(f.data)
    BY <1>3, <1>7, Seeing, NewEntry
  <2>2. Held(j.of[p], e)
    BY <1>3, <1>7, <2>1, EntryHeld
  <2> HIDE DEF e
  <2>3. CASE Put(Loop, p, e)
    BY <1>1, <1>2, <2>2, <2>3, LoopPuts
  <2>4. CASE Becomes(Loop, blob)
    <3>1. /\ k.step = "blob" /\ k.path = p /\ k.mode = Link /\ k.hash = BlobOf(f.data)
          /\ k.todo = j.todo /\ k.draft = j.draft /\ k.of = j.of
      BY <1>1, <1>4, <2>4, LoopBecomes DEF LoopFields
    <3>2. LoopOK(k)
      BY <1>2, <2>2, <3>1 DEF LoopOK, AtFile, Said, e
    <3> QED
      BY <1>1, <1>2, <3>1, <3>2, LoopSays
  <2> QED
    BY <1>7, <2>3, <2>4 DEF Store, e
<1>8. CASE f.kind = "file" /\ Becomes(Loop, file)
  <2>1. /\ k.step = "hash" /\ k.path = p /\ k.mode = f.mode
        /\ k.todo = j.todo /\ k.draft = j.draft /\ k.of = j.of
    BY <1>1, <1>4, <1>8, LoopBecomes DEF LoopFields
  <2>2. LoopOK(k)
    BY <1>2, <1>3, <1>8, <2>1 DEF LoopOK, AtFile, Said
  <2> QED
    BY <1>1, <1>2, <2>1, <2>2, LoopSays
<1> QED
  BY <1>1, <1>5, <1>6, <1>7, <1>8 DEF Lstat

(* While the loop is at a file: what is there, and what it has seen of it. *)
LEMMA LoopReads ==
  ASSUME SnapshotInv, FaithInv, job[Loop].step \in AtFile
  PROVE  /\ job[Loop].path \in job[Loop].todo /\ job[Loop].path \in DOMAIN job[Loop].of
         /\ job[Loop].todo \subseteq DOMAIN job[Loop].of
         /\ job[Loop].path \in Path /\ job[Loop].mode # Link
         /\ \A q \in DOMAIN job[Loop].of \ job[Loop].todo : Said(job[Loop], q)
         /\ \E v \in job[Loop].of[job[Loop].path] :
              v.kind = "file" /\ v.mode = job[Loop].mode
  BY SnapshotAssumption DEF FaithInv, LoopOK, AtFile, SnapshotInv, JobsInv, JobOK

(* What may be opened at a path has been seen of it.                       *)
LEMMA OpenedSeen ==
  ASSUME SnapshotInv, FaithInv, NEW p \in DOMAIN job[Loop].of, NEW q \in Opened(files, p)
  PROVE  \E v \in job[Loop].of[p] :
           v.kind \in Content /\ v.data = <<files[q].data[1], files[q].data[2]>>
<1>1. q \in Path /\ files[q].kind = "file"
  BY WhatIsOpened
<1>2. files[q].data \in Data \X Data
  <2>1. MayBe(q, Seen(files[q])) /\ Seen(files[q]).data = files[q].data
    BY <1>1 DEF SnapshotInv, FilesInv, Seen
  <2> QED
    BY <1>1, <2>1, Seeing DEF Value
<1>3. files[q].data = <<files[q].data[1], files[q].data[2]>>
  BY <1>2
<1>4. ReadsAs(files, p) \subseteq job[Loop].of[p]
  BY DEF FaithInv
<1>5. CASE q = p
  <2>1. /\ Seen(files[p]) \in job[Loop].of[p] /\ Seen(files[p]).kind = "file"
        /\ Seen(files[p]).data = files[q].data
    BY <1>1, <1>4, <1>5 DEF ReadsAs, Seen
  <2> QED
    BY <1>3, <2>1 DEF Content
<1>6. CASE q # p
  <2>1. PICK v : v = [kind |-> "through", mode |-> files[q].mode, data |-> files[q].data]
    OBVIOUS
  <2>2. v \in job[Loop].of[p] /\ v.kind = "through" /\ v.data = files[q].data
    BY <1>4, <1>6, <2>1 DEF ReadsAs
  <2> QED
    BY <1>3, <2>2 DEF Content
<1> QED
  BY <1>5, <1>6

(* Between two looks at the mtime nothing has changed if it has not.       *)
LEMMA StableRead ==
  ASSUME SnapshotInv, FaithInv, job[Loop].step \in {"hashing", "reading"}, SameTime(Loop)
  PROVE  \E v \in job[Loop].of[job[Loop].path] :
           v.kind \in Content /\ BlobOf(v.data) = ReadBlobOf(Loop)
<1>1. PICK q \in Opened(files, job[Loop].path) : files[q].mtime = job[Loop].mtime
  BY DEF SameTime
<1>2. q \in Path
  BY <1>1, WhatIsOpened
<1>3. LoopOK(job[Loop])
  BY DEF FaithInv
<1>4. PICK v \in job[Loop].of[job[Loop].path] :
        v.kind \in Content /\ v.data = <<job[Loop].part, job[Loop].rest>>
  BY <1>1, <1>2, <1>3 DEF LoopOK
<1> QED
  BY <1>4 DEF ReadBlobOf

LEMMA ReadFirstSaid ==
  ASSUME SnapshotInv, FaithInv, ReadFirst(Loop)
  PROVE  FaithInv'
<1>1. PICK j, k, p : j = job[Loop] /\ k = job'[Loop] /\ p = j.path
  OBVIOUS
<1>2. j.step \in {"hash", "read"} /\ UNCHANGED fileVars
  BY <1>1 DEF ReadFirst
<1>3. /\ p \in j.todo /\ p \in DOMAIN j.of /\ j.todo \subseteq DOMAIN j.of /\ p \in Path
      /\ \A q \in DOMAIN j.of \ j.todo : Said(j, q)
      /\ \E v \in j.of[p] : v.kind = "file" /\ v.mode = j.mode
  BY <1>1, <1>2, LoopReads DEF AtFile
<1> DEFINE s == IF j.step = "hash" THEN "hashing" ELSE "reading"
           fields(q) == [step |-> s, open |-> Opened(files, p), part |-> files[q].data[1],
                         rest |-> files[q].data[2], mtime |-> files[q].mtime]
<1>4. CASE Becomes(Loop, [step |-> "failed"])
  BY <1>2, <1>4, LoopFails
<1>5. ASSUME NEW q \in Opened(files, p), Becomes(Loop, fields(q))
      PROVE  FaithInv'
  <2>1. DOMAIN fields(q) \subseteq Fields
    BY FieldNames
  <2>2. /\ k.step = s /\ k.path = p /\ k.mode = j.mode /\ k.hash = j.hash
        /\ k.open = Opened(files, p)
        /\ k.part = files[q].data[1] /\ k.rest = files[q].data[2] /\ k.mtime = files[q].mtime
        /\ k.todo = j.todo /\ k.draft = j.draft /\ k.of = j.of
    BY <1>1, <1>5, <2>1, LoopBecomes DEF LoopFields
  <2>3. q \in Path /\ Opened(files, p) = {q}
    BY <1>5, WhatIsOpened
  <2>4. files[q].mtime \in Int /\ files[q].mtime <= clock
    BY <2>3 DEF FaithInv
  <2>5. s \in {"hashing", "reading"} /\ (s = "reading" => j.step = "read")
    BY <1>2
  <2>6. j.step = "read" => \E v \in j.of[p] : v.kind \in Content /\ BlobOf(v.data) = j.hash
    BY <1>1 DEF FaithInv, LoopOK
  <2>7. \E v \in j.of[p] : v.kind \in Content /\ v.data = <<k.part, k.rest>>
    <3>1. \E v \in j.of[p] :
            v.kind \in Content /\ v.data = <<files[q].data[1], files[q].data[2]>>
      BY <1>1, <1>3, <1>5, OpenedSeen
    <3> QED
      BY <2>2, <3>1
  <2>8. \A x \in Path : files[x].mtime = k.mtime => k.open = {x}
    BY <2>2, <2>3 DEF FaithInv
  <2> HIDE DEF s
  <2>9. LoopOK(k)
    BY <1>3, <2>2, <2>4, <2>5, <2>6, <2>7, <2>8 DEF LoopOK, AtFile, Said
  <2> QED
    BY <1>1, <1>2, <2>2, <2>9, LoopSays
<1> QED
  BY <1>1, <1>4, <1>5 DEF ReadFirst

LEMMA HashSaid ==
  ASSUME LinksApart, SnapshotInv, FaithInv, HashFile(Loop)
  PROVE  FaithInv'
<1>1. PICK j, k, p : j = job[Loop] /\ k = job'[Loop] /\ p = j.path
  OBVIOUS
<1>2. j.step = "hashing" /\ UNCHANGED fileVars
  BY <1>1 DEF HashFile
<1>3. /\ p \in j.todo /\ p \in DOMAIN j.of /\ j.todo \subseteq DOMAIN j.of /\ p \in Path
      /\ j.mode # Link /\ j.draft \in Maps
      /\ \A q \in DOMAIN j.of \ j.todo : Said(j, q)
      /\ \E v \in j.of[p] : v.kind = "file" /\ v.mode = j.mode
  BY <1>1, <1>2, LoopReads, SnapshotAssumption DEF AtFile, SnapshotInv, JobsInv, JobOK
<1> DEFINE hash == ReadBlobOf(Loop)
           n == j.tries + 1
<1>4. CASE Becomes(Loop, [step |-> "failed"])
  BY <1>2, <1>4, LoopFails
<1>5. CASE Becomes(Loop, [step |-> "hash", tries |-> n])
  <2>1. DOMAIN [step |-> "hash", tries |-> n] \subseteq Fields
    BY FieldNames
  <2>2. /\ k.step = "hash" /\ k.path = p /\ k.mode = j.mode
        /\ k.todo = j.todo /\ k.draft = j.draft /\ k.of = j.of
    BY <1>1, <1>5, <2>1, LoopBecomes DEF LoopFields
  <2>4. LoopOK(k)
    BY <1>3, <2>2 DEF LoopOK, AtFile, Said
  <2> QED
    BY <1>1, <1>2, <2>2, <2>4, LoopSays
<1>6. CASE SameTime(Loop) /\ Hashed(Loop)
  <2>1. PICK v \in j.of[p] : v.kind \in Content /\ BlobOf(v.data) = hash
    BY <1>1, <1>2, <1>6, StableRead
  <2>2. hash \in FileBlob
    BY <1>1, <1>2, WhatIsRead, SnapshotAssumption
  <2> HIDE DEF hash
  <2>3. Held(j.of[p], FileEntry(j.mode, hash))
    BY <1>3, <2>1, FileHeld
  <2>4. CASE Becomes(Loop, [step |-> "read", hash |-> hash])
    <3>1. DOMAIN [step |-> "read", hash |-> hash] \subseteq Fields
      BY FieldNames
    <3>2. /\ k.step = "read" /\ k.path = p /\ k.mode = j.mode /\ k.hash = hash
          /\ k.todo = j.todo /\ k.draft = j.draft /\ k.of = j.of
      BY <1>1, <2>4, <3>1, LoopBecomes DEF LoopFields
    <3>3. LoopOK(k)
      BY <1>3, <2>1, <3>2 DEF LoopOK, AtFile, Said
    <3> QED
      BY <1>1, <1>2, <3>2, <3>3, LoopSays
  <2>5. CASE /\ p \in DOMAIN j.draft /\ j.draft[p].hash = hash /\ j.draft[p].mode = j.mode
             /\ Skip(Loop, p)
    <3>1. j.draft[p] \in EntryAt(p)
      BY <1>3, <2>5 DEF Maps
    <3>2. j.draft[p] = FileEntry(j.mode, hash)
      BY <1>3, <2>2, <2>5, <3>1, SameEntry
    <3> QED
      BY <1>1, <1>2, <1>3, <2>3, <2>5, <3>2, LoopPuts DEF AtFile
  <2>6. CASE Put(Loop, p, FileEntry(j.mode, hash))
    BY <1>1, <1>2, <1>3, <2>3, <2>6, LoopPuts DEF AtFile
  <2> QED
    BY <1>1, <1>6, <2>4, <2>5, <2>6 DEF Hashed, hash
<1> QED
  BY <1>1, <1>4, <1>5, <1>6 DEF HashFile

LEMMA ReadFileSaid ==
  ASSUME SnapshotInv, FaithInv, ReadFile(Loop), LinksApart
  PROVE  FaithInv'
<1>1. PICK j, k, p : j = job[Loop] /\ k = job'[Loop] /\ p = j.path
  OBVIOUS
<1>2. j.step = "reading" /\ UNCHANGED fileVars
  BY <1>1 DEF ReadFile
<1>3. /\ p \in j.todo /\ p \in DOMAIN j.of /\ j.todo \subseteq DOMAIN j.of
      /\ j.mode # Link /\ j.hash \in FileBlob
      /\ \A q \in DOMAIN j.of \ j.todo : Said(j, q)
      /\ \E v \in j.of[p] : v.kind = "file" /\ v.mode = j.mode
      /\ \E v \in j.of[p] : v.kind \in Content /\ BlobOf(v.data) = j.hash
  BY <1>1, <1>2, LoopReads, SnapshotAssumption
  DEF AtFile, SnapshotInv, JobsInv, JobOK, FaithInv, LoopOK
<1>4. CASE Becomes(Loop, [step |-> "failed"])
  BY <1>2, <1>4, LoopFails
<1>5. CASE Becomes(Loop, [step |-> "blob"])
  <2>1. DOMAIN [step |-> "blob"] \subseteq Fields
    BY FieldNames
  <2>2. /\ k.step = "blob" /\ k.path = p /\ k.mode = j.mode /\ k.hash = j.hash
        /\ k.todo = j.todo /\ k.draft = j.draft /\ k.of = j.of
    BY <1>1, <1>5, <2>1, LoopBecomes DEF LoopFields
  <2>3. EntryOf(j.mode, j.hash) = FileEntry(j.mode, j.hash)
    BY <1>3 DEF EntryOf
  <2>4. Held(j.of[p], EntryOf(j.mode, j.hash))
    BY <1>3, <2>3, FileHeld
  <2>5. LoopOK(k)
    BY <1>3, <2>2, <2>4 DEF LoopOK, AtFile, Said
  <2> QED
    BY <1>1, <1>2, <2>2, <2>5, LoopSays
<1> QED
  BY <1>1, <1>4, <1>5 DEF ReadFile

LEMMA BlobWrittenSaid ==
  ASSUME SnapshotInv, FaithInv, BlobWritten(Loop)
  PROVE  FaithInv'
<1>1. PICK j : j = job[Loop]
  OBVIOUS
<1>2. /\ j.path \in j.todo /\ Held(j.of[j.path], EntryOf(j.mode, j.hash))
      /\ j.step = "blob" /\ UNCHANGED fileVars
      /\ Put(Loop, j.path, EntryOf(j.mode, j.hash))
  BY <1>1 DEF BlobWritten, FaithInv, LoopOK
<1> QED
  BY <1>1, <1>2, LoopPuts

LEMMA WriteTreeSaid ==
  ASSUME SnapshotInv, FaithInv, WriteTree(Loop)
  PROVE  FaithInv'
<1>1. PICK j, k : j = job[Loop] /\ k = job'[Loop]
  OBVIOUS
<1> DEFINE fields == [step |-> "tree", hash |-> TreeObject(j.draft)]
<1>2. Becomes(Loop, fields) /\ DOMAIN fields \subseteq Fields
  BY <1>1, FieldNames DEF WriteTree
<1>3. k.step = "tree" /\ k.todo = j.todo /\ k.draft = j.draft /\ k.of = j.of
  BY <1>1, <1>2, LoopBecomes DEF LoopFields
<1>4. j.step = "visit" /\ j.todo = {} /\ UNCHANGED fileVars
  BY <1>1 DEF WriteTree
<1>5. LoopOK(k)
  BY <1>1, <1>3, <1>4 DEF FaithInv, LoopOK, AtFile, Said
<1> QED
  BY <1>1, <1>3, <1>4, <1>5, LoopSays

LEMMA LoopIdle ==
  ASSUME FaithInv, UNCHANGED fileVars, NEW k, k = job'[Loop],
         k.step \in {"none", "save", "rebuild"}, k.of \in {NoEntries, job[Loop].of}
  PROVE  FaithInv'
  BY DEF FaithInv, LoopOK, AtFile, NoEntries, fileVars

LEMMA BeginUpdateSaid ==
  ASSUME SnapshotInv, FaithInv, BeginUpdate
  PROVE  FaithInv'
<1>1. PICK k : k = job'[Loop]
  OBVIOUS
<1>2. PICK paths \in SUBSET Path : Visit(Loop, paths, map)
  BY DEF BeginUpdate
<1>3. /\ k.step = "visit" /\ k.todo = paths /\ k.of = [p \in paths |-> ReadsAs(files, p)]
  BY <1>1, <1>2, SnapshotAssumption DEF Visit, SnapshotInv, JobsInv, JobShape, NoJob
<1>4. LoopOK(k)
  BY <1>3 DEF LoopOK, AtFile
<1>5. UNCHANGED fileVars
  BY DEF BeginUpdate
<1>6. DOMAIN k.of \subseteq Path /\ \A p \in DOMAIN k.of : ReadsAs(files, p) \subseteq k.of[p]
  BY <1>3
<1> QED
  BY <1>1, <1>4, <1>5, <1>6 DEF FaithInv, LoopOK, fileVars

LEMMA OthersSay ==
  ASSUME FaithInv, UNCHANGED <<fileVars, job[Loop]>>
  PROVE  FaithInv'
<1>1. PICK k : k = job'[Loop]
  OBVIOUS
<1>2. k = job[Loop]
  BY <1>1
<1> QED
  BY <1>1, <1>2, LoopSays DEF FaithInv

LEMMA FaithStep ==
  ASSUME LinksApart, FineClock, SnapshotInv, FaithInv, [Next]_vars
  PROVE  FaithInv'
<1>1. CASE BeginRebuild \/ MapSaved \/ AppendCheckpoint(Loop) \/ GiveUp(Loop) \/ Dies
  <2>1. PICK k : k = job'[Loop]
    OBVIOUS
  <2>2. k.step \in {"none", "save", "rebuild"} /\ k.of \in {NoEntries, job[Loop].of}
    BY <1>1, <2>1, FieldNames, SnapshotAssumption
    DEF BeginRebuild, MapSaved, AppendCheckpoint, GiveUp, Dies, NoJob, SnapshotInv, JobsInv,
        JobShape
  <2>3. UNCHANGED fileVars
    BY <1>1 DEF BeginRebuild, MapSaved, AppendCheckpoint, GiveUp, Dies
  <2> QED
    BY <2>1, <2>2, <2>3, LoopIdle
<1>2. CASE \/ StartDaemon \/ StopDaemon \/ (\E w \in Writer : Write(w) \/ Error(w))
           \/ UNCHANGED vars
  BY <1>2, OthersSay DEF StartDaemon, StopDaemon, Write, Error, vars
<1>3. CASE BeginImport \/ BeginScan \/ (\E p \in DOMAIN Commit : ImportPath(p))
  BY <1>3, OthersSay, SnapshotAssumption
  DEF BeginImport, BeginScan, ImportPath, Visit, Store, Put, Becomes, SnapshotInv, JobsInv,
      JobShape
<1>4. ASSUME NEW w \in Writer \ {Loop},
             \/ \E p \in Path : Lstat(w, p)
             \/ ReadFirst(w) \/ HashFile(w) \/ ReadFile(w) \/ BlobWritten(w)
             \/ WriteTree(w) \/ AppendCheckpoint(w) \/ GiveUp(w)
      PROVE  FaithInv'
  <2>1. UNCHANGED fileVars
    BY <1>4 DEF Lstat, ReadFirst, HashFile, ReadFile, BlobWritten, WriteTree,
                AppendCheckpoint, GiveUp
  <2>2. job'[Loop] = job[Loop]
    BY <1>4, SnapshotAssumption
    DEF Lstat, ReadFirst, HashFile, Hashed, ReadFile, BlobWritten, WriteTree, Store, Put,
        Skip, Becomes, AppendCheckpoint, GiveUp, SnapshotInv, JobsInv, JobShape
  <2> QED
    BY <2>1, <2>2, OthersSay
<1>5. CASE Next
  BY <1>1, <1>2, <1>3, <1>4, <1>5, EditSaid, LstatSaid, ReadFirstSaid, HashSaid, ReadFileSaid,
     BlobWrittenSaid, WriteTreeSaid, BeginUpdateSaid, SnapshotAssumption DEF Next
<1> QED
  BY <1>2, <1>5

(* What the loop records of the paths it was given has been there since    *)
(* the checkpoint began: the mode when the path was a file, the content    *)
(* whole when it was read, through a link if it had become one.  That is   *)
(* so if every change shows in an mtime of its own, and no link has for a  *)
(* text what may be read in a file.                                        *)
THEOREM LoopTreesFaithful ==
  ASSUME MarksAreNoValues, FineClock, LinksApart
  PROVE  Spec => []TreeFaithful
<1>1. ASSUME Init PROVE FaithInv
  <2>1. job[Loop] = NoJob /\ NoJob.step = "none" /\ NoJob.of = NoEntries
    BY <1>1, SnapshotAssumption DEF Init, NoJob
  <2>2. LoopOK(job[Loop])
    BY <2>1 DEF LoopOK, AtFile
  <2> QED
    BY <1>1, <2>1, <2>2, SnapshotAssumption DEF Init, FaithInv, NoEntries
<1>2. FaithInv => TreeFaithful
  BY DEF FaithInv, LoopOK, Said, TreeFaithful
<1> QED
  BY <1>1, <1>2, SnapshotStarts, SnapshotStep, FaithStep, PTL DEF Spec
===============================================================================
