------------------------------- MODULE SyncProofs -------------------------------
(***************************************************************************)
(* Proofs about Sync.tla, for any trees, any seeds, and any numbers of     *)
(* edits, publishes, pulls, pushes, collections and deaths.                *)
(*                                                                         *)
(* The types (TypeInv) say besides that parents have smaller numbers.      *)
(* That lets one reason about the recursive functions of the model:        *)
(* Upwards says that such a definition has a solution, so that it can be   *)
(* unfolded, and LeastNumber is what induction over parents comes down to. *)
(* On the types rest an invariant of the reverse keys of the mapping       *)
(* (KnownInv), one of its keys (SafeInv), one of the batch of a publish    *)
(* (Chained, with KeysLead), and one of trees (TreeInv), which holds if    *)
(* the seed commit has the tree that it is said to have.  What "pulled"    *)
(* names stays (PinInv), and a history is read place by place (Walk).      *)
(***************************************************************************)
EXTENDS Sync, FiniteSetTheorems, WellFoundedInduction, TLAPS

-----------------------------------------------------------------------------
(* Recursion and induction.                                                *)

(* A set of numbers that is not empty has a least one: induction, as it is *)
(* used below, looks at the least number for which a claim fails.          *)
LEMMA LeastNumber ==
  ASSUME NEW T, T \subseteq Nat, T # {}
  PROVE  \E n \in T : \A m \in T : n <= m
<1>1. IsWellFoundedOn(OpToRel(<, Nat), Nat)
  BY NatLessThanWellFounded, Zenon
<1>2. \E n \in T : \A m \in T : ~(<<m, n>> \in OpToRel(<, Nat))
  BY <1>1, WFMin, Zenon
<1>3. \A m, n \in T : <<m, n>> \notin OpToRel(<, Nat) => ~(m < n)
  BY DEF OpToRel
<1>4. \E n \in T : \A m \in T : ~(m < n)
  BY <1>2, <1>3, Zenon
<1> QED
  BY <1>4

(* A function that follows a decreasing pointer until it stops exists: what *)
(* its definition by recursion says of it is then true of it.               *)
Solves(f, D, stop, base, step, par) ==
  \A i \in D : f[i] = IF i \in stop THEN base[i] ELSE step[i][f[par[i]]]

LEMMA Recursion ==
  ASSUME NEW N \in Nat, NEW D, \A i \in D : i \in 0..N, NEW V,
         NEW stop, NEW base, NEW step, NEW par,
         \A i \in D : i \in stop => base[i] \in V,
         \A i \in D : i \notin stop =>
            par[i] \in D /\ par[i] < i /\ step[i] \in [V -> V]
  PROVE  \E f \in [D -> V] : Solves(f, D, stop, base, step, par)
<1> DEFINE Below(n) == {i \in D : i < n}
           Good(n) == \E f \in [Below(n) -> V] : Solves(f, Below(n), stop, base, step, par)
           Bad == {n \in Nat : ~Good(n)}
<1>1. Good(0)
  <2>1. Below(0) = {}
    OBVIOUS
  <2>2. [i \in {} |-> 0] \in [Below(0) -> V]
    BY <2>1
  <2> QED
    BY <2>1, <2>2 DEF Solves
<1>2. ASSUME NEW n \in Nat, Good(n)
      PROVE  Good(n + 1)
  <2>1. PICK f \in [Below(n) -> V] : Solves(f, Below(n), stop, base, step, par)
    BY <1>2
  <2> DEFINE g == [i \in Below(n + 1) |->
                     IF i \in stop THEN base[i] ELSE step[i][f[par[i]]]]
  <2>2. \A i \in Below(n + 1) : i \notin stop => par[i] \in Below(n)
    OBVIOUS
  <2>3. g \in [Below(n + 1) -> V]
    BY <2>2
  <2>4. \A i \in Below(n) : i \in Below(n + 1) /\ g[i] = f[i]
    BY <2>1 DEF Solves
  <2>5. \A i \in Below(n + 1) : g[i] = IF i \in stop THEN base[i] ELSE step[i][f[par[i]]]
    OBVIOUS
  <2> HIDE DEF g
  <2>6. Solves(g, Below(n + 1), stop, base, step, par)
    BY <2>2, <2>4, <2>5 DEF Solves
  <2> QED
    BY <2>3, <2>6
<1>3. Bad = {}
  <2> SUFFICES ASSUME Bad # {} PROVE FALSE
    OBVIOUS
  <2> HIDE DEF Good
  <2>1. PICK n \in Bad : \A m \in Bad : n <= m
    BY LeastNumber
  <2>2. n # 0 /\ n - 1 \in Nat /\ n - 1 < n /\ (n - 1) + 1 = n
    BY <1>1
  <2>3. Good(n - 1)
    BY <2>1, <2>2
  <2> QED
    BY <1>2, <2>2, <2>3
<1>4. Good(N + 1)
  <2> HIDE DEF Good
  <2> QED
    BY <1>3
<1>5. Below(N + 1) = D
  OBVIOUS
<1> QED
  BY <1>4, <1>5

(* The operators of the model are sets collected on the way up.            *)
Descends(N, D, stop, par) ==
  /\ N \in Nat /\ \A i \in D : i \in 0..N
  /\ \A i \in D : i \notin stop => par[i] \in D /\ par[i] < i
Collects(f, D, stop, base, add, par) ==
  f = [i \in D |-> IF i \in stop THEN base[i] ELSE add[i] \cup f[par[i]]]
Offers(W, D, stop, base, add) ==
  \A i \in D : IF i \in stop THEN base[i] \subseteq W ELSE add[i] \subseteq W

LEMMA Upwards ==
  ASSUME NEW N, NEW D, NEW stop, NEW base, NEW add, NEW par, Descends(N, D, stop, par)
  PROVE  \E f : Collects(f, D, stop, base, add, par)
<1> DEFINE W == UNION ({base[i] : i \in D} \cup {add[i] : i \in D})
           V == SUBSET W
           step == [i \in D |-> [v \in V |-> add[i] \cup v]]
<1>1. \A i \in D : base[i] \in V /\ \A v \in V : add[i] \cup v \in V
  OBVIOUS
<1>2. \A i \in D : step[i] \in [V -> V]
  BY <1>1
<1>3. \A i \in D, v \in V : step[i][v] = add[i] \cup v
  OBVIOUS
<1> HIDE DEF V, step
<1>4. PICK f \in [D -> V] : Solves(f, D, stop, base, step, par)
  BY <1>1, <1>2, Recursion DEF Descends
<1>5. \A i \in D : f[i] = IF i \in stop THEN base[i] ELSE add[i] \cup f[par[i]]
  BY <1>3, <1>4 DEF Solves, Descends
<1> QED
  BY <1>4, <1>5 DEF Collects

LEMMA UpwardsWithin ==
  ASSUME NEW N, NEW D, NEW stop, NEW base, NEW add, NEW par, Descends(N, D, stop, par),
         NEW f, Collects(f, D, stop, base, add, par),
         NEW W, Offers(W, D, stop, base, add)
  PROVE  f \in [D -> SUBSET W]
<1>1. \A i \in D : f[i] = IF i \in stop THEN base[i] ELSE add[i] \cup f[par[i]]
  BY Zenon DEF Collects
<1> DEFINE Bad == {i \in D : ~(f[i] \subseteq W)}
<1>2. Bad = {}
  <2> SUFFICES ASSUME Bad # {} PROVE FALSE
    OBVIOUS
  <2>1. PICK i \in Bad : \A j \in Bad : i <= j
    <3>1. Bad \subseteq Nat
      BY DEF Descends
    <3> QED
      BY <3>1, LeastNumber
  <2>2. i \notin stop => f[par[i]] \subseteq W
    BY <2>1 DEF Descends
  <2> QED
    BY <1>1, <2>2 DEF Offers
<1> QED
  BY <1>2 DEF Collects

-----------------------------------------------------------------------------
(* Types and shapes.                                                       *)

Checkpoint == [parent : 0..MaxCheckpoint, tree : Tree, touched : SUBSET Path,
               from : 0..MaxCommit, gap : BOOLEAN]
Commit == [parent : 0..MaxCommit, tree : Tree, of : 0..MaxCheckpoint, guessed : BOOLEAN]
Mapping == [fwd : [1..MaxCheckpoint -> 0..Len(commits)], rev : [1..MaxCommit -> 0..Len(cps)]]

JournalOK ==
  /\ cps \in Seq(Checkpoint) /\ Len(cps) \in 1..MaxCheckpoint
  /\ \A i \in Checkpoints :
       /\ cps[i].parent \in 0..(i - 1) /\ (cps[i].parent = 0 => i = 1)
       /\ cps[i].from \in 0..Len(commits)
  /\ index \subseteq Checkpoints /\ Len(cps) \in index
  /\ pins \in [{"published", "pulled"} -> 0..Len(cps)]

DaemonOK == up \in BOOLEAN /\ stale \in BOOLEAN /\ map \in Tree

GraphOK ==
  /\ commits \in Seq(Commit) /\ Len(commits) \in 1..MaxCommit
  /\ \A c \in Commits : commits[c].parent \in 0..(c - 1) /\ commits[c].of \in 0..Len(cps)
  /\ seed \in [commit : 0..Len(commits), tree : Tree]
  /\ seed.commit # 0 => commits[seed.commit].of = 0 /\ commits[seed.commit].parent = 0

GitOK ==
  /\ bookmark \in 0..Len(commits) /\ tracking \in 0..Len(commits)
  /\ remote \in Commits /\ tracked \in BOOLEAN

StatesOK ==
  /\ states \in Seq(Mapping) /\ states # <<>>
  /\ holder \in {"free", "publish", "import"}
  /\ holder = "free" => Len(states) = 1
  /\ lost \subseteq Commits

LeftOK == left \in [Event -> Nat]

PubOK ==
  /\ pub \in [step : {"idle", "convert", "flush", "bookmark", "pin"},
              all : Seq(Checkpoints), todo : Seq(Checkpoints), made : Seq(Commits),
              paths : {NoPaths} \cup SUBSET Path,
              whole : BOOLEAN, compact : BOOLEAN, pin : BOOLEAN]
  /\ IF pub.step = "idle" THEN pub = NoPublish ELSE pub.all # <<>>
  /\ holder = "publish" <=> pub.step # "idle"
  /\ pub.step = "convert" => pub.todo # <<>>
  /\ pub.step \in {"flush", "bookmark", "pin"} => pub.made # <<>>
  /\ pub.step \in {"bookmark", "pin"} => Len(states) = 1

ImpOK ==
  /\ pull \in [step : {"idle", "sent", "asked", "sync"}, by : {"daemon", "command"},
               commit : 0..Len(commits)]
  /\ pull.step # "idle" => pull.commit # 0
  /\ imp \in [step : {"idle", "append", "map", "flush", "pin"}, by : {"daemon", "command"},
              commit : 0..Len(commits), parent : 0..Len(cps), cp : 0..Len(cps)]
  /\ IF imp.step = "idle" THEN imp = NoImport ELSE imp.commit # 0 /\ imp.parent # 0
  /\ holder = "import" <=> imp.step # "idle"
  /\ imp.step = "append" => imp.cp = 0
  /\ imp.step \in {"map", "flush", "pin"} =>
       /\ imp.cp # 0
       /\ cps[imp.cp].from = imp.commit /\ cps[imp.cp].tree = commits[imp.commit].tree
  /\ imp.step # "idle" => (imp.by = "daemon" <=> up)

PushOK ==
  /\ push \in [step : {"idle", "head", "send", "record"}, force : BOOLEAN,
              target : 0..Len(commits)]
  /\ push.step = "head" => push.target # 0

TypeInv ==
  /\ JournalOK /\ DaemonOK /\ GraphOK /\ GitOK /\ StatesOK /\ LeftOK
  /\ PubOK /\ ImpOK /\ PushOK

LEMMA TypeInvType == TypeInv => SyncTypeOK
<1> SUFFICES ASSUME TypeInv PROVE SyncTypeOK
  OBVIOUS
<1> USE DEF TypeInv
<1>1. RepoTypeOK
  <2>1. {up, stale, tracked} \subseteq BOOLEAN /\ map \in Tree
    BY DEF DaemonOK, GitOK
  <2>2. states # <<>> /\ \A k \in 1..Len(states) :
          /\ states[k].fwd \in [1..MaxCheckpoint -> 0..Len(commits)]
          /\ states[k].rev \in [1..MaxCommit -> 0..Len(cps)]
    <3>1. \A k \in 1..Len(states) : states[k] \in Mapping
      BY DEF StatesOK
    <3> QED
      BY <3>1 DEF StatesOK, Mapping
  <2>3. {bookmark, tracking, remote} \subseteq 0..Len(commits)
    BY DEF GitOK, Commits
  <2>4. cps \in Seq([parent : 0..MaxCheckpoint, tree : Tree, touched : SUBSET Path,
                     from : 0..MaxCommit, gap : BOOLEAN])
    BY DEF JournalOK, Checkpoint
  <2>5. commits \in Seq([parent : 0..MaxCommit, tree : Tree, of : 0..MaxCheckpoint,
                         guessed : BOOLEAN])
    BY DEF GraphOK, Commit
  <2>6. /\ Len(cps) <= MaxCheckpoint /\ Len(commits) <= MaxCommit
        /\ index \subseteq Checkpoints
        /\ pins \in [{"published", "pulled"} -> 0..Len(cps)]
        /\ seed \in [commit : 0..Len(commits), tree : Tree]
        /\ holder \in {"free", "publish", "import"}
        /\ left \in [Event -> Nat]
        /\ lost \subseteq Commits
    BY DEF JournalOK, GraphOK, StatesOK, LeftOK
  <2> QED
    BY <2>1, <2>2, <2>3, <2>4, <2>5, <2>6, Zenon DEF RepoTypeOK
<1>2. PublishTypeOK
  BY DEF PubOK, PublishTypeOK
<1>3. ImportTypeOK
  BY DEF ImpOK, ImportTypeOK
<1>4. PushTypeOK
  BY DEF PushOK, PushTypeOK
<1> QED
  BY <1>1, <1>2, <1>3, <1>4 DEF SyncTypeOK

-----------------------------------------------------------------------------
(* The recursive operators, unfolded.                                      *)

LEMMA AncestorsUnfold ==
  GraphOK =>
    /\ Ancestors \in [0..Len(commits) -> SUBSET Commits]
    /\ Ancestors[0] = {}
    /\ \A c \in Commits : Ancestors[c] = {c} \cup Ancestors[commits[c].parent]
<1> SUFFICES ASSUME GraphOK
             PROVE  /\ Ancestors \in [0..Len(commits) -> SUBSET Commits]
                    /\ Ancestors[0] = {}
                    /\ \A c \in Commits : Ancestors[c] = {c} \cup Ancestors[commits[c].parent]
  OBVIOUS
<1> DEFINE D == 0..Len(commits)
           F(f) == [c \in D |-> IF c = 0 THEN {} ELSE {c} \cup f[commits[c].parent]]
           par == [c \in D |-> commits[c].parent]
           add == [c \in D |-> {c}]
           base == [c \in D |-> {}]
<1>1. Descends(Len(commits), D, {0}, par)
  BY DEF GraphOK, Commits, Descends
<1>2. Offers(Commits, D, {0}, base, add)
  BY DEF Offers, Commits
<1>3. \A f : Collects(f, D, {0}, base, add, par) <=> f = F(f)
  BY DEF Collects
<1>4. 0 \in D /\ \A c \in Commits : c \in D /\ c # 0
  BY DEF GraphOK, Commits
<1> HIDE DEF D, par, add, base, F
<1>5. \E f : f = F(f)
  BY <1>1, <1>3, Upwards, Zenon
<1>6. Ancestors = F(Ancestors)
  BY <1>5, Zenon DEF Ancestors, D, F
<1>7. Ancestors \in [D -> SUBSET Commits]
  BY <1>1, <1>2, <1>3, <1>6, UpwardsWithin, Zenon
<1> QED
  BY <1>4, <1>6, <1>7 DEF D, F

LEMMA LineUnfold ==
  JournalOK =>
    /\ Line \in [0..Len(cps) -> SUBSET index]
    /\ \A i \in 0..Len(cps) :
         Line[i] = IF i \notin index THEN {} ELSE {i} \cup Line[cps[i].parent]
<1> SUFFICES ASSUME JournalOK
             PROVE  /\ Line \in [0..Len(cps) -> SUBSET index]
                    /\ \A i \in 0..Len(cps) :
                         Line[i] = IF i \notin index THEN {} ELSE {i} \cup Line[cps[i].parent]
  OBVIOUS
<1> DEFINE D == 0..Len(cps)
           F(f) == [i \in D |-> IF i = 0 \/ i \notin index THEN {}
                                ELSE {i} \cup f[cps[i].parent]]
           stop == {i \in D : i = 0 \/ i \notin index}
           par == [i \in D |-> cps[i].parent]
           add == [i \in D |-> {i}]
           base == [i \in D |-> {}]
<1>1. Descends(Len(cps), D, stop, par)
  BY DEF JournalOK, Checkpoints, Descends
<1>2. Offers(index, D, stop, base, add)
  BY DEF Offers
<1>3. \A f : Collects(f, D, stop, base, add, par) <=> f = F(f)
  BY DEF Collects
<1>4. 0 \notin index
  BY DEF JournalOK, Checkpoints
<1> HIDE DEF D, stop, par, add, base, F
<1>5. \E f : f = F(f)
  BY <1>1, <1>3, Upwards, Zenon
<1>6. Line = F(Line)
  BY <1>5, Zenon DEF Line, D, F
<1>7. Line \in [D -> SUBSET index]
  BY <1>1, <1>2, <1>3, <1>6, UpwardsWithin, Zenon
<1> QED
  BY <1>4, <1>6, <1>7 DEF D, F

(* The walks of Unpublished and of Accumulated go on from i to its parent. *)
GoesUp(i, chosen) ==
  LET p == cps[i].parent IN p # 0 /\ p \notin chosen /\ ~Published(p) /\ p \in index

LEMMA UnpublishedUnfold ==
  ASSUME JournalOK, NEW chosen
  PROVE  /\ Unpublished(chosen) \in [Checkpoints -> SUBSET (index \cup {0})]
         /\ \A i \in Checkpoints :
              LET p == cps[i].parent IN
              Unpublished(chosen)[i] =
                IF GoesUp(i, chosen) THEN {p} \cup Unpublished(chosen)[p]
                ELSE IF p # 0 /\ p \notin chosen /\ ~Published(p) THEN {0} ELSE {}
<1> DEFINE D == Checkpoints
           F(f) == [i \in D |->
                     LET p == cps[i].parent IN
                     IF p = 0 \/ p \in chosen \/ Published(p) THEN {}
                     ELSE IF p \notin index THEN {0}
                     ELSE {p} \cup f[p]]
           stop == {i \in D : ~GoesUp(i, chosen)}
           par == [i \in D |-> cps[i].parent]
           add == [i \in D |-> {cps[i].parent}]
           base == [i \in D |->
                     LET p == cps[i].parent IN
                     IF p = 0 \/ p \in chosen \/ Published(p) THEN {} ELSE {0}]
<1>1. Descends(Len(cps), D, stop, par)
  BY DEF JournalOK, Checkpoints, GoesUp, Descends
<1>2. Offers(index \cup {0}, D, stop, base, add)
  BY DEF Offers, GoesUp
<1>3. \A f : Collects(f, D, stop, base, add, par) <=> f = F(f)
  BY DEF Collects, GoesUp
<1> HIDE DEF D, stop, par, add, base, F
<1>4. \E f : f = F(f)
  BY <1>1, <1>3, Upwards, Zenon
<1>5. Unpublished(chosen) = F(Unpublished(chosen))
  BY <1>4, Zenon DEF Unpublished, D, F
<1>6. Unpublished(chosen) \in [D -> SUBSET (index \cup {0})]
  BY <1>1, <1>2, <1>3, <1>5, UpwardsWithin, Zenon
<1>7. \A i \in D : Unpublished(chosen)[i] = F(Unpublished(chosen))[i]
  BY <1>5, Zenon
<1> QED
  BY <1>6, <1>7 DEF D, F, GoesUp

LEMMA AccumulatedUnfold ==
  JournalOK =>
    /\ Accumulated \in [Checkpoints -> SUBSET Path]
    /\ \A i \in Checkpoints :
         Accumulated[i] =
           IF GoesUp(i, {}) THEN cps[i].touched \cup Accumulated[cps[i].parent]
           ELSE cps[i].touched
<1> SUFFICES ASSUME JournalOK
             PROVE  /\ Accumulated \in [Checkpoints -> SUBSET Path]
                    /\ \A i \in Checkpoints :
                         Accumulated[i] =
                           IF GoesUp(i, {}) THEN cps[i].touched \cup Accumulated[cps[i].parent]
                           ELSE cps[i].touched
  OBVIOUS
<1> DEFINE D == Checkpoints
           F(f) == [i \in D |->
                     LET p == cps[i].parent IN
                     cps[i].touched \cup
                       (IF p = 0 \/ Published(p) \/ p \notin index THEN {} ELSE f[p])]
           stop == {i \in D : ~GoesUp(i, {})}
           par == [i \in D |-> cps[i].parent]
           add == [i \in D |-> cps[i].touched]
<1>1. Descends(Len(cps), D, stop, par)
  BY DEF JournalOK, Checkpoints, GoesUp, Descends
<1>2. Offers(Path, D, stop, add, add)
  <2>1. \A i \in D : cps[i] \in Checkpoint
    BY DEF JournalOK, Checkpoints
  <2> QED
    BY <2>1 DEF Checkpoint, Offers
<1>3. \A f : Collects(f, D, stop, add, add, par) <=> f = F(f)
  BY DEF Collects, GoesUp
<1> HIDE DEF D, stop, par, add, F
<1>4. \E f : f = F(f)
  BY <1>1, <1>3, Upwards, Zenon
<1>5. Accumulated = F(Accumulated)
  BY <1>4, Zenon DEF Accumulated, D, F
<1>6. Accumulated \in [D -> SUBSET Path]
  BY <1>1, <1>2, <1>3, <1>5, UpwardsWithin, Zenon
<1>7. \A i \in D : Accumulated[i] = F(Accumulated)[i]
  BY <1>5, Zenon
<1> QED
  BY <1>6, <1>7 DEF D, F, GoesUp

-----------------------------------------------------------------------------
(* Numbers in order.                                                       *)

Increasing(s, S) ==
  /\ s \in [1..Cardinality(S) -> S]
  /\ \A j, k \in DOMAIN s : j < k => s[j] < s[k]

LEMMA FinitePart ==
  ASSUME NEW n \in Nat, NEW S, S \subseteq 1..n
  PROVE  IsFiniteSet(S) /\ Cardinality(S) \in Nat
<1>1. IsFiniteSet(1..n)
  BY FS_Interval
<1> QED
  BY <1>1, FS_Subset, FS_CardinalityType

LEMMA IncreasingExists ==
  ASSUME NEW n \in Nat, NEW S, S \subseteq 1..n
  PROVE  \E s : Increasing(s, S)
<1> DEFINE Good(m) == \A T : T \subseteq 1..m => \E s : Increasing(s, T)
           Bad == {m \in Nat : ~Good(m)}
<1>1. Good(0)
  <2> SUFFICES ASSUME NEW T, T \subseteq 1..0 PROVE \E s : Increasing(s, T)
    OBVIOUS
  <2>1. T = {}
    OBVIOUS
  <2>2. Cardinality(T) = 0
    BY <2>1, FS_EmptySet, Zenon
  <2>3. Increasing([j \in 1..0 |-> 0], T)
    BY <2>1, <2>2 DEF Increasing
  <2> QED
    BY <2>3
<1>2. ASSUME NEW m \in Nat, Good(m)
      PROVE  Good(m + 1)
  <2> SUFFICES ASSUME NEW T, T \subseteq 1..(m + 1) PROVE \E s : Increasing(s, T)
    OBVIOUS
  <2>1. CASE m + 1 \notin T
    <3>1. T \subseteq 1..m
      BY <2>1
    <3> QED
      BY <1>2, <3>1
  <2>2. CASE m + 1 \in T
    <3> DEFINE U == T \ {m + 1}
               c == Cardinality(U)
    <3>1. U \subseteq 1..m
      OBVIOUS
    <3>2. c \in Nat /\ Cardinality(T) = c + 1
      <4>1. IsFiniteSet(U) /\ c \in Nat
        BY <3>1, FinitePart
      <4>2. T = U \cup {m + 1} /\ m + 1 \notin U
        BY <2>2
      <4> QED
        BY <4>1, <4>2, FS_AddElement
    <3>3. PICK s : Increasing(s, U)
      BY <1>2, <3>1
    <3> DEFINE t == [j \in 1..(c + 1) |-> IF j = c + 1 THEN m + 1 ELSE s[j]]
    <3> HIDE DEF c
    <3>4. \A j \in 1..c : s[j] \in T /\ s[j] \in 1..m
      BY <3>1, <3>3 DEF Increasing, c
    <3>5. t \in [1..(c + 1) -> T]
      BY <2>2, <3>2, <3>4
    <3>6. \A j, k \in 1..(c + 1) : j < k => t[j] < t[k]
      <4> SUFFICES ASSUME NEW j \in 1..(c + 1), NEW k \in 1..(c + 1), j < k
                   PROVE  t[j] < t[k]
        OBVIOUS
      <4>1. j \in 1..c
        BY <3>2
      <4>2. CASE k = c + 1
        BY <3>4, <4>1, <4>2
      <4>3. CASE k # c + 1
        <5>1. k \in 1..c
          BY <3>2, <4>3
        <5>2. s[j] < s[k]
          BY <3>3, <4>1, <5>1 DEF Increasing, c
        <5> QED
          BY <4>1, <4>3, <5>1, <5>2, <3>2
      <4> QED
        BY <4>2, <4>3
    <3> QED
      BY <3>2, <3>5, <3>6 DEF Increasing
  <2> QED
    BY <2>1, <2>2
<1>3. Bad = {}
  <2> SUFFICES ASSUME Bad # {} PROVE FALSE
    OBVIOUS
  <2> HIDE DEF Good
  <2>1. PICK m \in Bad : \A k \in Bad : m <= k
    BY LeastNumber
  <2>2. m # 0 /\ m - 1 \in Nat /\ m - 1 < m /\ (m - 1) + 1 = m
    BY <1>1
  <2>3. Good(m - 1)
    BY <2>1, <2>2
  <2> QED
    BY <1>2, <2>2, <2>3
<1>4. Good(n)
  <2> HIDE DEF Good
  <2> QED
    BY <1>3
<1> QED
  BY <1>4

(* InOrder(S) lists all of S, and nothing else.                            *)
LEMMA InOrderLists ==
  ASSUME NEW n \in Nat, NEW S, S \subseteq 1..n
  PROVE  /\ InOrder(S) \in Seq(S) /\ Len(InOrder(S)) = Cardinality(S)
         /\ Cardinality(S) \in Nat
         /\ Increasing(InOrder(S), S)
         /\ \A i \in S : \E j \in 1..Cardinality(S) : InOrder(S)[j] = i
<1> DEFINE c == Cardinality(S)
           o == InOrder(S)
<1>1. c \in Nat /\ IsFiniteSet(S)
  BY FinitePart
<1>2. \E s \in [1..c -> S] : \A j, k \in DOMAIN s : j < k => s[j] < s[k]
  BY IncreasingExists DEF Increasing
<1>3. o \in [1..c -> S] /\ \A j, k \in DOMAIN o : j < k => o[j] < o[k]
  BY <1>2, Zenon DEF InOrder
<1> HIDE DEF o, c
<1>4. Increasing(o, S)
  BY <1>3 DEF Increasing, c
<1>5. o \in Seq(S) /\ Len(o) = c
  BY <1>1, <1>3
<1>6. o \in Injection(1..c, S)
  <2>1. \A j, k \in 1..c : o[j] = o[k] => j = k
    <3> SUFFICES ASSUME NEW j \in 1..c, NEW k \in 1..c, j # k
                 PROVE  o[j] # o[k]
      OBVIOUS
    <3>1. \A i \in S : i \in Nat
      OBVIOUS
    <3>2. j < k \/ k < j
      BY <1>1
    <3>3. o[j] \in S /\ o[k] \in S /\ (o[j] < o[k] \/ o[k] < o[j])
      BY <1>3, <3>2
    <3>4. \A i1, i2 \in Nat : i1 < i2 => i1 # i2
      OBVIOUS
    <3> QED
      BY <3>1, <3>3, <3>4, Zenon
  <2> QED
    BY <1>3, <2>1 DEF Injection, IsInjective
<1>7. Cardinality(1..c) = c
  BY <1>1, FS_Interval
<1>8. o \in Surjection(1..c, S)
  BY <1>1, <1>6, <1>7, FS_Injection DEF c
<1>9. \A i \in S : \E j \in 1..c : o[j] = i
  BY <1>8 DEF Surjection
<1> QED
  BY <1>1, <1>4, <1>5, <1>9 DEF c, o

-----------------------------------------------------------------------------
(* What a step may do to each variable.                                    *)

LEMMA CpsSteps ==
  ASSUME Next
  PROVE  (cps' = cps /\ index' = index) \/ LoopCheckpoint \/ ImportAppend \/ Collect
<1>1. CASE PublishNext
  BY <1>1 DEF PublishNext, PublishBegin, PublishOne, PublishFlush, PublishBookmark,
    PublishPin, PublishFails, PublishDies, journalVars
<1>2. CASE ImportNext
  BY <1>2 DEF ImportNext, PullBegin, PullGivesUp, PullSynced, ImportBegin, ImportMap,
    ImportFlush, ImportPin, DaemonDies, PullDies, DaemonStarts, journalVars, repoVars
<1>3. CASE PushNext
  BY <1>3 DEF PushNext, PushHead, PushHeadSend, PushFetch, PushSend, PushRecord, PushDies,
    journalVars
<1>4. CASE RebuildMap \/ OthersPush \/ DeleteBranch \/ \E i \in Checkpoints : CreateBranch(i)
  BY <1>4 DEF RebuildMap, OthersPush, DeleteBranch, CreateBranch, journalVars
<1> QED
  BY <1>1, <1>2, <1>3, <1>4 DEF Next

LEMMA CommitsSteps ==
  ASSUME Next
  PROVE  commits' = commits \/ PublishOne \/ OthersPush
<1>1. CASE PublishNext
  BY <1>1 DEF PublishNext, PublishBegin, PublishFlush, PublishBookmark, PublishPin,
    PublishFails, PublishDies
<1>2. CASE ImportNext
  BY <1>2 DEF ImportNext, PullBegin, PullGivesUp, PullSynced, ImportBegin, ImportAppend,
    ImportMap, ImportFlush, ImportPin, DaemonDies, PullDies, DaemonStarts, repoVars
<1>3. CASE PushNext
  BY <1>3 DEF PushNext, PushHead, PushHeadSend, PushFetch, PushSend, PushRecord, PushDies
<1>4. CASE LoopCheckpoint \/ RebuildMap \/ DeleteBranch \/ Collect
             \/ \E i \in Checkpoints : CreateBranch(i)
  BY <1>4 DEF LoopCheckpoint, RebuildMap, DeleteBranch, CreateBranch, Collect
<1> QED
  BY <1>1, <1>2, <1>3, <1>4 DEF Next

LEMMA SeedSteps ==
  ASSUME Next
  PROVE  seed' = seed
<1>1. CASE PublishNext
  BY <1>1 DEF PublishNext, PublishBegin, PublishOne, PublishFlush, PublishBookmark, PublishPin,
    PublishFails, PublishDies
<1>2. CASE ImportNext
  BY <1>2 DEF ImportNext, PullBegin, PullGivesUp, PullSynced, ImportBegin, ImportAppend,
    ImportMap, ImportFlush, ImportPin, DaemonDies, PullDies, DaemonStarts, repoVars
<1>3. CASE PushNext
  BY <1>3 DEF PushNext, PushHead, PushHeadSend, PushFetch, PushSend, PushRecord, PushDies
<1>4. CASE LoopCheckpoint \/ RebuildMap \/ OthersPush \/ DeleteBranch \/ Collect
             \/ \E i \in Checkpoints : CreateBranch(i)
  BY <1>4 DEF LoopCheckpoint, RebuildMap, OthersPush, DeleteBranch, CreateBranch, Collect
<1> QED
  BY <1>1, <1>2, <1>3, <1>4 DEF Next

LEMMA LeftSteps ==
  ASSUME Next
  PROVE  left' = left \/ \E kind \in Event : Spend(kind)
<1> USE DEF Event
<1>1. CASE PublishNext
  BY <1>1 DEF PublishNext, PublishBegin, PublishOne, PublishFlush, PublishBookmark, PublishPin,
    PublishFails, PublishDies
<1>2. CASE ImportNext
  BY <1>2 DEF ImportNext, PullBegin, PullGivesUp, PullSynced, ImportBegin, ImportAppend,
    ImportMap, ImportFlush, ImportPin, DaemonDies, PullDies, DaemonStarts, repoVars
<1>3. CASE PushNext
  BY <1>3 DEF PushNext, PushHead, PushHeadSend, PushFetch, PushSend, PushRecord, PushDies
<1>4. CASE LoopCheckpoint \/ RebuildMap \/ OthersPush \/ DeleteBranch \/ Collect
             \/ \E i \in Checkpoints : CreateBranch(i)
  BY <1>4 DEF LoopCheckpoint, RebuildMap, OthersPush, DeleteBranch, CreateBranch, Collect
<1> QED
  BY <1>1, <1>2, <1>3, <1>4 DEF Next

LEMMA PinsSteps ==
  ASSUME Next
  PROVE  \/ pins' = pins
         \/ PublishPin
         \/ ImportPin
<1>1. CASE PublishNext
  BY <1>1 DEF PublishNext, PublishBegin, PublishOne, PublishFlush, PublishBookmark, PublishFails,
    PublishDies, journalVars, daemonVars, gitVars, mapVars, repoVars
<1>2. CASE ImportNext
  BY <1>2 DEF ImportNext, PullBegin, PullGivesUp, PullSynced, ImportBegin, ImportAppend, ImportMap,
    ImportFlush, DaemonDies, PullDies, DaemonStarts, journalVars, daemonVars, gitVars,
    mapVars, repoVars
<1>3. CASE PushNext
  BY <1>3 DEF PushNext, PushHead, PushHeadSend, PushFetch, PushSend, PushRecord, PushDies,
    journalVars, daemonVars, gitVars, mapVars, repoVars
<1>4. CASE LoopCheckpoint \/ RebuildMap \/ OthersPush \/ DeleteBranch \/ (\E i \in Checkpoints :
           CreateBranch(i)) \/ Collect
  BY <1>4 DEF LoopCheckpoint, RebuildMap, OthersPush, DeleteBranch, CreateBranch, Collect,
    journalVars,
    daemonVars, gitVars, mapVars
<1> QED
  BY <1>1, <1>2, <1>3, <1>4 DEF Next

LEMMA DaemonSteps ==
  ASSUME Next
  PROVE  \/ up' = up /\ map' = map /\ stale' = stale
         \/ PullSynced
         \/ DaemonDies
         \/ DaemonStarts
         \/ LoopCheckpoint
         \/ RebuildMap
<1>1. CASE PublishNext
  BY <1>1 DEF PublishNext, PublishBegin, PublishOne, PublishFlush, PublishBookmark, PublishPin,
    PublishFails, PublishDies, journalVars, daemonVars, gitVars, mapVars, repoVars
<1>2. CASE ImportNext
  BY <1>2 DEF ImportNext, PullBegin, PullGivesUp, ImportBegin, ImportAppend, ImportMap, ImportFlush,
    ImportPin, PullDies, journalVars, daemonVars, gitVars, mapVars, repoVars
<1>3. CASE PushNext
  BY <1>3 DEF PushNext, PushHead, PushHeadSend, PushFetch, PushSend, PushRecord, PushDies,
    journalVars, daemonVars, gitVars, mapVars, repoVars
<1>4. CASE OthersPush \/ DeleteBranch \/ (\E i \in Checkpoints : CreateBranch(i)) \/ Collect
  BY <1>4 DEF OthersPush, DeleteBranch, CreateBranch, Collect, journalVars, daemonVars, gitVars,
    mapVars
<1> QED
  BY <1>1, <1>2, <1>3, <1>4 DEF Next

LEMMA GitSteps ==
  ASSUME Next
  PROVE  \/ UNCHANGED gitVars
         \/ PublishBookmark
         \/ (\E force \in BOOLEAN : PushFetch(force))
         \/ PushHeadSend
         \/ PushSend
         \/ PushRecord
         \/ OthersPush
         \/ DeleteBranch
         \/ (\E i \in Checkpoints : CreateBranch(i))
<1>1. CASE PublishNext
  BY <1>1 DEF PublishNext, PublishBegin, PublishOne, PublishFlush, PublishPin, PublishFails,
    PublishDies, journalVars, daemonVars, gitVars, mapVars, repoVars
<1>2. CASE ImportNext
  BY <1>2 DEF ImportNext, PullBegin, PullGivesUp, PullSynced, ImportBegin, ImportAppend, ImportMap,
    ImportFlush, ImportPin, DaemonDies, PullDies, DaemonStarts, journalVars, daemonVars,
    gitVars, mapVars, repoVars
<1>3. CASE PushNext
  BY <1>3 DEF PushNext, PushHead, PushDies, journalVars, daemonVars, gitVars, mapVars, repoVars
<1>4. CASE LoopCheckpoint \/ RebuildMap \/ Collect
  BY <1>4 DEF LoopCheckpoint, RebuildMap, Collect, journalVars, daemonVars, gitVars, mapVars
<1> QED
  BY <1>1, <1>2, <1>3, <1>4 DEF Next

LEMMA MappingSteps ==
  ASSUME Next
  PROVE  \/ UNCHANGED mapVars
         \/ (\E s, e \in Checkpoints, compact, pin \in BOOLEAN : PublishBegin(s, e, compact, pin))
         \/ PublishOne
         \/ PublishFlush
         \/ PublishPin
         \/ PublishFails
         \/ PublishDies
         \/ ImportBegin
         \/ ImportMap
         \/ ImportFlush
         \/ ImportPin
         \/ DaemonDies
         \/ PullDies
<1>1. CASE PublishNext
  BY <1>1 DEF PublishNext, PublishBookmark, journalVars, daemonVars, gitVars, mapVars, repoVars
<1>2. CASE ImportNext
  BY <1>2 DEF ImportNext, PullBegin, PullGivesUp, PullSynced, ImportAppend, DaemonStarts,
    journalVars,
    daemonVars, gitVars, mapVars, repoVars
<1>3. CASE PushNext
  BY <1>3 DEF PushNext, PushHead, PushHeadSend, PushFetch, PushSend, PushRecord, PushDies,
    journalVars, daemonVars, gitVars, mapVars, repoVars
<1>4. CASE LoopCheckpoint \/ RebuildMap \/ OthersPush \/ DeleteBranch \/ (\E i \in Checkpoints :
           CreateBranch(i)) \/ Collect
  BY <1>4 DEF LoopCheckpoint, RebuildMap, OthersPush, DeleteBranch, CreateBranch, Collect,
    journalVars,
    daemonVars, gitVars, mapVars
<1> QED
  BY <1>1, <1>2, <1>3, <1>4 DEF Next

LEMMA PubSteps ==
  ASSUME Next
  PROVE  \/ pub' = pub
         \/ (\E s, e \in Checkpoints, compact, pin \in BOOLEAN : PublishBegin(s, e, compact, pin))
         \/ PublishOne
         \/ PublishFlush
         \/ PublishBookmark
         \/ PublishPin
         \/ PublishFails
         \/ PublishDies
<1>1. CASE PublishNext /\ UNCHANGED <<importVars, push>>
  BY <1>1 DEF PublishNext, journalVars, daemonVars, gitVars, mapVars, repoVars, importVars
<1>2. CASE ImportNext /\ UNCHANGED <<pub, push>>
  BY <1>2 DEF ImportNext, PullBegin, PullGivesUp, PullSynced, ImportBegin, ImportAppend, ImportMap,
    ImportFlush, ImportPin, DaemonDies, PullDies, DaemonStarts, journalVars, daemonVars,
    gitVars, mapVars, repoVars, importVars
<1>3. CASE PushNext /\ UNCHANGED <<pub, importVars>>
  BY <1>3 DEF PushNext, PushHead, PushHeadSend, PushFetch, PushSend, PushRecord, PushDies,
    journalVars, daemonVars, gitVars,
    mapVars, repoVars, importVars
<1>4. UNCHANGED <<pub, importVars, push>> => UNCHANGED <<pub, pull, imp, push>>
  BY DEF importVars
<1> QED
  BY <1>1, <1>2, <1>3, <1>4 DEF Next

LEMMA ImportSteps ==
  ASSUME Next
  PROVE  \/ pull' = pull /\ imp' = imp
         \/ PullBegin
         \/ PullGivesUp
         \/ PullSynced
         \/ ImportBegin
         \/ ImportAppend
         \/ ImportMap
         \/ ImportFlush
         \/ ImportPin
         \/ DaemonDies
         \/ PullDies
<1>1. CASE PublishNext /\ UNCHANGED <<importVars, push>>
  BY <1>1 DEF PublishNext, PublishBegin, PublishOne, PublishFlush, PublishBookmark, PublishPin,
    PublishFails, PublishDies, journalVars, daemonVars, gitVars, mapVars, repoVars, importVars
<1>2. CASE ImportNext /\ UNCHANGED <<pub, push>>
  BY <1>2 DEF ImportNext, DaemonStarts, journalVars, daemonVars, gitVars, mapVars, repoVars,
    importVars
<1>3. CASE PushNext /\ UNCHANGED <<pub, importVars>>
  BY <1>3 DEF PushNext, PushHead, PushHeadSend, PushFetch, PushSend, PushRecord, PushDies,
    journalVars, daemonVars, gitVars,
    mapVars, repoVars, importVars
<1>4. UNCHANGED <<pub, importVars, push>> => UNCHANGED <<pub, pull, imp, push>>
  BY DEF importVars
<1> QED
  BY <1>1, <1>2, <1>3, <1>4 DEF Next

-----------------------------------------------------------------------------
(* Every step keeps the types.                                             *)

LEMMA BatchLists ==
  ASSUME JournalOK, NEW chosen, chosen \subseteq Checkpoints, chosen # {}
  PROVE  /\ AncestorsOf(chosen) \subseteq index
         /\ InOrder(AncestorsOf(chosen)) \in Seq(Checkpoints)
         /\ InOrder(chosen) \in Seq(Checkpoints) /\ InOrder(chosen) # <<>>
         /\ WithAncestors(chosen) \in Seq(Checkpoints) /\ WithAncestors(chosen) # <<>>
         /\ WithAncestors(chosen)[1] \in Checkpoints
<1>1. Len(cps) \in Nat /\ index \subseteq Checkpoints /\ Checkpoints = 1..Len(cps)
  BY DEF JournalOK, Checkpoints
<1>2. AncestorsOf(chosen) \subseteq index
  <2>1. \A i \in chosen : Chain(i, chosen) \subseteq index
    BY UnpublishedUnfold DEF Chain
  <2> QED
    BY <2>1 DEF AncestorsOf
<1> DEFINE a1 == AncestorsOf(chosen)
           o1 == InOrder(a1)
           o2 == InOrder(chosen)
<1> HIDE DEF a1
<1>3. o1 \in Seq(a1) /\ a1 \subseteq Checkpoints
  BY <1>1, <1>2, InOrderLists DEF a1
<1>4. o2 \in Seq(chosen) /\ Len(o2) = Cardinality(chosen) /\ Cardinality(chosen) \in Nat
  BY <1>1, InOrderLists
<1>5. o2 # <<>>
  <2>1. Cardinality(chosen) # 0
    BY <1>1, FS_EmptySet, FinitePart
  <2> HIDE DEF o2
  <2> QED
    BY <1>4, <2>1
<1> HIDE DEF o1, o2
<1>6. o1 \in Seq(Checkpoints) /\ o2 \in Seq(Checkpoints)
  BY <1>3, <1>4
<1>7. o1 \o o2 \in Seq(Checkpoints) /\ o1 \o o2 # <<>>
  BY <1>5, <1>6
<1>8. (o1 \o o2)[1] \in Checkpoints
  BY <1>5, <1>6, <1>7
<1> QED
  BY <1>2, <1>5, <1>6, <1>7, <1>8 DEF o1, o2, a1, WithAncestors

LEMMA CurrentMapping ==
  ASSUME StatesOK
  PROVE  mapping \in Mapping /\ Len(states) \in Nat \ {0}
BY DEF StatesOK, mapping

LEMMA LatestIsLast ==
  ASSUME JournalOK
  PROVE  Latest = Len(cps) /\ Latest \in Checkpoints
<1>1. Len(cps) \in index /\ \A j \in index : j \in Nat /\ j <= Len(cps)
  BY DEF JournalOK, Checkpoints
<1>2. Latest = CHOOSE i \in index : \A j \in index : j <= i
  BY <1>1, Zenon DEF Latest
<1>3. \A i \in index : (\A j \in index : j <= i) => i = Len(cps)
  BY <1>1
<1>4. Latest = Len(cps)
  BY <1>1, <1>2, <1>3
<1> QED
  BY <1>1, <1>4 DEF JournalOK

(* The commit that PublishOne makes.                                       *)
NextMade == NewOf(ParentCommit(Head(pub.todo)),
                  Convert(ParentCommit(Head(pub.todo)), ChangedPaths(Head(pub.todo)),
                          cps[Head(pub.todo)].tree),
                  Head(pub.todo),
                  ParentCommit(Head(pub.todo)) # 0
                    /\ Guess(Head(pub.todo), ParentCommit(Head(pub.todo))))

LEMMA ParentCommitType ==
  ASSUME TypeInv, NEW i \in Checkpoints
  PROVE  ParentCommit(i) \in 0..Len(commits)
<1>1. pub.made # <<>> => Last(pub.made) \in Commits
  BY DEF TypeInv, PubOK, Last
<1>2. cps[i].parent # 0 => mapping.fwd[cps[i].parent] \in 0..Len(commits)
  <2>1. cps[i].parent \in 0..Len(cps)
    BY DEF TypeInv, JournalOK, Checkpoints
  <2>2. cps[i].parent # 0 => cps[i].parent \in 1..MaxCheckpoint
    BY <2>1, JjRepoAssumption DEF TypeInv, JournalOK
  <2>3. mapping.fwd \in [1..MaxCheckpoint -> 0..Len(commits)]
    BY CurrentMapping DEF TypeInv, Mapping
  <2> QED
    BY <2>2, <2>3
<1>3. seed.commit \in 0..Len(commits)
  BY DEF TypeInv, GraphOK
<1> QED
  BY <1>1, <1>2, <1>3 DEF ParentCommit, Commits

LEMMA NextMadeType ==
  ASSUME TypeInv, PublishOne
  PROVE  /\ NextMade \in Commit /\ NextMade.parent \in 0..Len(commits)
         /\ NextMade.of \in Checkpoints
         /\ commits' = Append(commits, NextMade) /\ Len(commits) < MaxCommit
<1> DEFINE i == Head(pub.todo)
           base == ParentCommit(i)
<1>1. i \in Checkpoints
  BY DEF PublishOne, TypeInv, PubOK
<1>2. base \in 0..Len(commits)
  BY <1>1, ParentCommitType
<1>3. Convert(base, ChangedPaths(i), cps[i].tree) \in Tree
  <2>1. cps[i] \in Checkpoint
    BY <1>1 DEF TypeInv, JournalOK, Checkpoints
  <2>2. base # 0 => commits[base] \in Commit
    BY <1>2 DEF TypeInv, GraphOK
  <2> HIDE DEF i, base
  <2> QED
    BY <2>1, <2>2 DEF Convert, Checkpoint, Commit, Tree
<1>4. base \in 0..MaxCommit /\ i \in 0..MaxCheckpoint
  BY <1>1, <1>2, JjRepoAssumption DEF TypeInv, JournalOK, GraphOK, Checkpoints
<1>5. (base # 0 /\ Guess(i, base)) \in BOOLEAN
  OBVIOUS
<1>6. commits' = Append(commits, NextMade) /\ Len(commits) < MaxCommit
  BY DEF PublishOne, NewCommit, NextMade
<1> HIDE DEF i, base
<1>7. NewOf(base, Convert(base, ChangedPaths(i), cps[i].tree), i, base # 0 /\ Guess(i, base))
        \in Commit
  BY <1>3, <1>4, <1>5 DEF NewOf, Commit
<1> QED
  BY <1>1, <1>2, <1>6, <1>7 DEF i, base, NextMade, NewOf

(* Checkpoints and commits are only ever added.                            *)
CpsGrow ==
  \/ cps' = cps
  \/ \E new \in Checkpoint :
       /\ cps' = Append(cps, new) /\ index' = index \cup {Len(cps) + 1}
       /\ new.parent \in Checkpoints /\ new.from \in 0..Len(commits)
       /\ Len(cps) < MaxCheckpoint
CommitsGrow ==
  \/ commits' = commits
  \/ \E new \in Commit :
       /\ commits' = Append(commits, new)
       /\ new.parent \in 0..Len(commits) /\ new.of \in 0..Len(cps)
       /\ Len(commits) < MaxCommit /\ cps' = cps

LEMMA EachGrows ==
  ASSUME TypeInv, Next
  PROVE  CpsGrow /\ CommitsGrow
<1>1. CpsGrow
  <2>1. CASE LoopCheckpoint
    <3>1. PICK p \in Path, v \in Content \cup {Absent} :
            /\ map' = [map EXCEPT ![p] = v]
            /\ Record(Latest, map', {p}, 0, map # cps[Latest].tree)
      BY <2>1 DEF LoopCheckpoint
    <3> DEFINE new == [parent |-> Latest, tree |-> map', touched |-> {p}, from |-> 0,
                       gap |-> map # cps[Latest].tree]
    <3>2. map' \in Tree
      BY <3>1 DEF TypeInv, DaemonOK, Tree
    <3>3. Latest \in Checkpoints /\ Latest \in 0..MaxCheckpoint
      BY LatestIsLast DEF TypeInv, JournalOK, Checkpoints
    <3>4. new \in Checkpoint
      BY <3>2, <3>3, JjRepoAssumption DEF Checkpoint
    <3>5. 0 \in 0..Len(commits)
      BY DEF TypeInv, GraphOK
    <3> QED
      BY <3>1, <3>3, <3>4, <3>5 DEF CpsGrow, Record
  <2>2. CASE ImportAppend
    <3> DEFINE new == [parent |-> imp.parent, tree |-> commits[imp.commit].tree,
                       touched |-> {}, from |-> imp.commit, gap |-> FALSE]
    <3>1. /\ imp.parent \in Checkpoints /\ imp.parent \in 0..MaxCheckpoint
          /\ imp.commit \in 0..MaxCommit /\ imp.commit \in 0..Len(commits)
          /\ imp.commit \in 1..Len(commits)
      BY <2>2, JjRepoAssumption
      DEF ImportAppend, TypeInv, ImpOK, JournalOK, GraphOK, Checkpoints
    <3>2. commits[imp.commit] \in Commit
      BY <3>1 DEF TypeInv, GraphOK
    <3>3. new \in Checkpoint
      BY <3>1, <3>2 DEF Checkpoint, Commit
    <3> QED
      BY <2>2, <3>1, <3>3 DEF CpsGrow, Record, ImportAppend
  <2>3. CASE Collect
    BY <2>3 DEF Collect, CpsGrow
  <2> QED
    BY <2>1, <2>2, <2>3, CpsSteps DEF CpsGrow
<1>2. CommitsGrow
  <2>1. CASE PublishOne
    <3>1. NextMade.of \in 0..Len(cps)
      BY <2>1, NextMadeType DEF Checkpoints
    <3>2. cps' = cps
      BY <2>1 DEF PublishOne, journalVars
    <3> QED
      BY <2>1, <3>1, <3>2, NextMadeType DEF CommitsGrow
  <2>2. CASE OthersPush
    <3>1. PICK p \in Path, v \in Content \cup {Absent} :
            NewCommit(remote, [commits[remote].tree EXCEPT ![p] = v], 0, FALSE)
      BY <2>2 DEF OthersPush
    <3> DEFINE t == [commits[remote].tree EXCEPT ![p] = v]
               new == NewOf(remote, t, 0, FALSE)
    <3>2. remote \in 1..Len(commits) /\ remote \in 0..MaxCommit
      BY JjRepoAssumption DEF TypeInv, GitOK, GraphOK, Commits
    <3>3. commits[remote] \in Commit
      BY <3>2 DEF TypeInv, GraphOK
    <3>4. t \in Tree
      BY <3>3 DEF Commit, Tree
    <3> HIDE DEF t
    <3>5. new \in Commit /\ new.parent = remote /\ new.of = 0
      BY <3>2, <3>4, JjRepoAssumption DEF NewOf, Commit
    <3>6. cps' = cps
      BY <2>2 DEF OthersPush, journalVars
    <3>7. commits' = Append(commits, new) /\ Len(commits) < MaxCommit
      BY <3>1 DEF NewCommit, t
    <3>8. 0 \in 0..Len(cps)
      BY DEF TypeInv, JournalOK
    <3> HIDE DEF new
    <3> QED
      BY <3>2, <3>5, <3>6, <3>7, <3>8 DEF CommitsGrow
  <2> QED
    BY <2>1, <2>2, CommitsSteps DEF CommitsGrow
<1> QED
  BY <1>1, <1>2

LEMMA WhatWasThere ==
  ASSUME TypeInv, CpsGrow, CommitsGrow
  PROVE  /\ cps' \in Seq(Checkpoint) /\ Len(cps') \in Len(cps)..MaxCheckpoint
         /\ Checkpoints \subseteq Checkpoints' /\ \A i \in Checkpoints : cps'[i] = cps[i]
         /\ commits' \in Seq(Commit) /\ Len(commits') \in Len(commits)..MaxCommit
         /\ Commits \subseteq Commits' /\ \A c \in Commits : commits'[c] = commits[c]
         /\ Len(cps) \in Nat /\ Len(commits) \in Nat
         /\ Checkpoints = 1..Len(cps) /\ Checkpoints' = 1..Len(cps')
         /\ Commits = 1..Len(commits) /\ Commits' = 1..Len(commits')
<1>1. cps \in Seq(Checkpoint) /\ commits \in Seq(Commit)
  BY DEF TypeInv, JournalOK, GraphOK
<1>2. cps' = cps \/ \E new \in Checkpoint : cps' = Append(cps, new) /\ Len(cps) < MaxCheckpoint
  BY DEF CpsGrow
<1>3. /\ cps' \in Seq(Checkpoint) /\ Len(cps') \in Len(cps)..MaxCheckpoint
      /\ \A i \in 1..Len(cps) : cps'[i] = cps[i]
  <2>1. Len(cps) \in 1..MaxCheckpoint /\ MaxCheckpoint \in Nat
    BY JjRepoAssumption DEF TypeInv, JournalOK
  <2>2. CASE cps' = cps
    BY <1>1, <2>1, <2>2
  <2>3. CASE \E new \in Checkpoint : cps' = Append(cps, new) /\ Len(cps) < MaxCheckpoint
    <3>1. PICK new \in Checkpoint : cps' = Append(cps, new) /\ Len(cps) < MaxCheckpoint
      BY <2>3
    <3>2. Len(cps') = Len(cps) + 1 /\ cps' \in Seq(Checkpoint)
      BY <1>1, <3>1
    <3>3. \A i \in 1..Len(cps) : cps'[i] = cps[i]
      BY <1>1, <3>1
    <3> QED
      BY <2>1, <3>1, <3>2, <3>3
  <2> QED
    BY <1>2, <2>2, <2>3
<1>4. commits' = commits
        \/ \E new \in Commit : commits' = Append(commits, new) /\ Len(commits) < MaxCommit
  BY DEF CommitsGrow
<1>5. /\ commits' \in Seq(Commit) /\ Len(commits') \in Len(commits)..MaxCommit
      /\ \A c \in 1..Len(commits) : commits'[c] = commits[c]
  <2>1. Len(commits) \in 1..MaxCommit /\ MaxCommit \in Nat
    BY JjRepoAssumption DEF TypeInv, GraphOK
  <2>2. CASE commits' = commits
    BY <1>1, <2>1, <2>2
  <2>3. CASE \E new \in Commit : commits' = Append(commits, new) /\ Len(commits) < MaxCommit
    <3>1. PICK new \in Commit : commits' = Append(commits, new) /\ Len(commits) < MaxCommit
      BY <2>3
    <3>2. Len(commits') = Len(commits) + 1 /\ commits' \in Seq(Commit)
      BY <1>1, <3>1
    <3>3. \A c \in 1..Len(commits) : commits'[c] = commits[c]
      BY <1>1, <3>1
    <3> QED
      BY <2>1, <3>1, <3>2, <3>3
  <2> QED
    BY <1>4, <2>2, <2>3
<1> QED
  BY <1>1, <1>3, <1>5 DEF Checkpoints, Commits

LEMMA JournalStays ==
  ASSUME TypeInv, Next
  PROVE  JournalOK'
<1>1. CpsGrow /\ CommitsGrow
  BY EachGrows
<1>2. /\ cps' \in Seq(Checkpoint) /\ Len(cps') \in Len(cps)..MaxCheckpoint
      /\ \A i \in Checkpoints : cps'[i] = cps[i]
      /\ Len(commits') >= Len(commits) /\ Len(commits') \in Nat /\ Len(commits) \in Nat
      /\ Len(cps) \in Nat /\ Len(cps') \in Nat /\ Len(cps) > 0
      /\ Checkpoints = 1..Len(cps) /\ Checkpoints' = 1..Len(cps')
  BY <1>1, WhatWasThere DEF TypeInv, JournalOK
<1>3. \A i \in Checkpoints' :
        /\ cps'[i].parent \in 0..(i - 1) /\ (cps'[i].parent = 0 => i = 1)
        /\ cps'[i].from \in 0..Len(commits')
  <2>1. \A i \in Checkpoints :
          /\ cps'[i].parent \in 0..(i - 1) /\ (cps'[i].parent = 0 => i = 1)
          /\ cps'[i].from \in 0..Len(commits')
    BY <1>2 DEF TypeInv, JournalOK
  <2>2. CASE cps' = cps
    BY <1>2, <2>1, <2>2
  <2>3. CASE cps' # cps
    <3>1. PICK new \in Checkpoint : /\ cps' = Append(cps, new) /\ new.parent \in Checkpoints
                                    /\ new.from \in 0..Len(commits)
      BY <1>1, <2>3 DEF CpsGrow
    <3>2. Len(cps') = Len(cps) + 1 /\ cps'[Len(cps) + 1] = new
      BY <3>1 DEF TypeInv, JournalOK
    <3>3. \A i \in Checkpoints' : i \in Checkpoints \/ i = Len(cps) + 1
      BY <1>2, <3>2
    <3>4. /\ cps'[Len(cps) + 1].parent \in 0..((Len(cps) + 1) - 1)
          /\ cps'[Len(cps) + 1].parent # 0
          /\ cps'[Len(cps) + 1].from \in 0..Len(commits')
      BY <1>2, <3>1, <3>2
    <3> QED
      BY <2>1, <3>3, <3>4
  <2> QED
    BY <2>2, <2>3
<1>4. index' \subseteq Checkpoints' /\ Len(cps') \in index'
  <2>1. index \subseteq 1..Len(cps) /\ Len(cps) \in index
    BY DEF TypeInv, JournalOK, Checkpoints
  <2>2. CASE cps' = cps /\ index' = index
    BY <1>2, <2>1, <2>2
  <2>3. CASE Collect
    BY <1>2, <2>1, <2>3, LatestIsLast DEF Collect, TypeInv
  <2>4. CASE index' = index \cup {Len(cps) + 1} /\ \E new : cps' = Append(cps, new)
    <3>1. Len(cps') = Len(cps) + 1
      BY <2>4 DEF TypeInv, JournalOK
    <3>2. 1..Len(cps) \subseteq 1..Len(cps')
      BY <1>2
    <3>3. Len(cps) + 1 \in 1..Len(cps') /\ Len(cps') = Len(cps) + 1
      BY <1>2, <3>1
    <3>4. index' \subseteq 1..Len(cps') /\ Len(cps') \in index'
      <4> HIDE <1>2
      <4> QED
        BY <2>1, <2>4, <3>2, <3>3
    <3> QED
      BY <1>2, <3>4
  <2> QED
    BY <2>2, <2>3, <2>4, CpsSteps DEF LoopCheckpoint, ImportAppend, Record
<1>5. pins' \in [{"published", "pulled"} -> 0..Len(cps')]
  <2>1. pins \in [{"published", "pulled"} -> 0..Len(cps')]
    BY <1>2 DEF TypeInv, JournalOK
  <2>2. CASE PublishPin
    <3>1. Last(pub.all) \in Checkpoints
      BY <2>2 DEF PublishPin, TypeInv, PubOK, Last
    <3> QED
      BY <1>2, <2>1, <2>2, <3>1 DEF PublishPin
  <2>3. CASE ImportPin
    <3>1. imp.cp \in 0..Len(cps')
      BY <1>2 DEF TypeInv, ImpOK
    <3> QED
      BY <2>1, <2>3, <3>1 DEF ImportPin
  <2>4. pins' = pins \/ PublishPin \/ ImportPin
    BY PinsSteps
  <2> QED
    BY <2>1, <2>2, <2>3, <2>4
<1>6. Len(cps') \in 1..MaxCheckpoint
  BY <1>2, JjRepoAssumption
<1> QED
  BY <1>2, <1>3, <1>4, <1>5, <1>6 DEF JournalOK

LEMMA DaemonStays ==
  ASSUME TypeInv, Next
  PROVE  DaemonOK'
<1>1. CASE up' = up /\ map' = map /\ stale' = stale
  BY <1>1 DEF TypeInv, DaemonOK
<1>2. CASE LoopCheckpoint
  BY <1>2 DEF LoopCheckpoint, TypeInv, DaemonOK, Tree
<1>3. CASE RebuildMap
  <2>1. cps[Latest] \in Checkpoint
    BY LatestIsLast DEF TypeInv, JournalOK, Checkpoints
  <2> QED
    BY <1>3, <2>1 DEF RebuildMap, TypeInv, DaemonOK, Checkpoint
<1>4. CASE PullSynced
  BY <1>4 DEF PullSynced, TypeInv, DaemonOK
<1>5. CASE DaemonDies
  BY <1>5 DEF DaemonDies, TypeInv, DaemonOK
<1>6. CASE DaemonStarts
  BY <1>6 DEF DaemonStarts, TypeInv, DaemonOK
<1> QED
  BY <1>1, <1>2, <1>3, <1>4, <1>5, <1>6, DaemonSteps

LEMMA GraphStays ==
  ASSUME TypeInv, Next
  PROVE  GraphOK'
<1>1. CpsGrow /\ CommitsGrow
  BY EachGrows
<1>2. /\ commits' \in Seq(Commit) /\ Len(commits') \in Len(commits)..MaxCommit
      /\ \A c \in Commits : commits'[c] = commits[c]
      /\ Len(cps') >= Len(cps) /\ Len(cps) \in Nat /\ Len(cps') \in Nat
      /\ Len(commits) \in Nat /\ Len(commits') \in Nat /\ Len(commits) > 0
      /\ Commits = 1..Len(commits) /\ Commits' = 1..Len(commits')
  BY <1>1, WhatWasThere DEF TypeInv, GraphOK
<1>3. \A c \in Commits' :
        commits'[c].parent \in 0..(c - 1) /\ commits'[c].of \in 0..Len(cps')
  <2>1. \A c \in Commits :
          commits'[c].parent \in 0..(c - 1) /\ commits'[c].of \in 0..Len(cps')
    BY <1>2 DEF TypeInv, GraphOK
  <2>2. CASE commits' = commits
    BY <1>2, <2>1, <2>2
  <2>3. CASE commits' # commits
    <3>1. PICK new \in Commit : /\ commits' = Append(commits, new)
                                /\ new.parent \in 0..Len(commits) /\ new.of \in 0..Len(cps)
      BY <1>1, <2>3 DEF CommitsGrow
    <3>2. Len(commits') = Len(commits) + 1 /\ commits'[Len(commits) + 1] = new
      BY <3>1 DEF TypeInv, GraphOK
    <3>3. \A c \in Commits' : c \in Commits \/ c = Len(commits) + 1
      BY <1>2, <3>2
    <3>4. /\ commits'[Len(commits) + 1].parent \in 0..((Len(commits) + 1) - 1)
          /\ commits'[Len(commits) + 1].of \in 0..Len(cps')
      BY <1>2, <3>1, <3>2
    <3> QED
      BY <2>1, <3>3, <3>4
  <2> QED
    BY <2>2, <2>3
<1>4. seed' = seed
  BY SeedSteps
<1>5. /\ seed' \in [commit : 0..Len(commits'), tree : Tree]
      /\ seed'.commit # 0 => commits'[seed'.commit].of = 0 /\ commits'[seed'.commit].parent = 0
  BY <1>2, <1>4 DEF TypeInv, GraphOK
<1>6. Len(commits') \in 1..MaxCommit
  BY <1>2, JjRepoAssumption
<1> QED
  BY <1>2, <1>3, <1>5, <1>6 DEF GraphOK

LEMMA MergedType ==
  ASSUME TypeInv
  PROVE  Merged \in 0..Len(commits)
<1>1. /\ bookmark \in 0..Len(commits) /\ remote \in 0..Len(commits) /\ 0 \in 0..Len(commits)
      /\ tracked \in BOOLEAN
  BY DEF TypeInv, GitOK, Commits
<1> QED
  BY <1>1 DEF Merged

LEMMA GitStays ==
  ASSUME TypeInv, Next
  PROVE  GitOK'
<1>1. CpsGrow /\ CommitsGrow
  BY EachGrows
<1>2. /\ 0..Len(commits) \subseteq 0..Len(commits')
      /\ Commits \subseteq Commits' /\ Commits' = 1..Len(commits') /\ 0 \in 0..Len(commits')
      /\ Commits = 1..Len(commits)
  BY <1>1, WhatWasThere
<1>3. /\ bookmark \in 0..Len(commits') /\ tracking \in 0..Len(commits')
      /\ remote \in Commits' /\ remote \in 0..Len(commits') /\ tracked \in BOOLEAN
  BY <1>2 DEF TypeInv, GitOK, Commits
<1>4. CASE UNCHANGED gitVars
  BY <1>3, <1>4 DEF GitOK, gitVars
<1>5. CASE PublishBookmark
  <2>1. Last(pub.made) \in Commits
    BY <1>5 DEF PublishBookmark, TypeInv, PubOK, Last
  <2> QED
    BY <1>2, <1>3, <1>5, <2>1 DEF PublishBookmark, GitOK, Commits
<1>6. CASE \E force \in BOOLEAN : PushFetch(force)
  <2>1. Merged \in 0..Len(commits')
    BY <1>2, MergedType
  <2> HIDE DEF Merged
  <2> QED
    BY <1>3, <1>6, <2>1 DEF PushFetch, GitOK
<1>7. CASE PushSend
  <2>1. remote' = remote \/ (remote' = bookmark /\ bookmark # 0)
    BY <1>7 DEF PushSend
  <2>2. remote' \in Commits'
    BY <1>2, <1>3, <2>1
  <2> QED
    BY <1>3, <1>7, <2>2 DEF PushSend, GitOK
<1>8. CASE PushRecord
  <2>1. push.target \in 0..Len(commits')
    BY <1>2 DEF TypeInv, PushOK
  <2> QED
    BY <1>3, <1>8, <2>1 DEF PushRecord, GitOK
<1>12. CASE PushHeadSend
  <2>1. remote' = remote \/ (remote' = push.target /\ push.step = "head")
    BY <1>12 DEF PushHeadSend
  <2>2. remote' \in Commits'
    BY <1>2, <1>3, <2>1 DEF TypeInv, PushOK, Commits
  <2> QED
    BY <1>3, <1>12, <2>2 DEF PushHeadSend, GitOK
<1>9. CASE OthersPush
  <2>1. \E new : commits' = Append(commits, new)
    BY <1>9 DEF OthersPush, NewCommit
  <2>2. Len(commits') = Len(commits) + 1
    BY <2>1 DEF TypeInv, GraphOK
  <2>3. remote' \in Commits'
    BY <1>2, <1>9, <2>2 DEF OthersPush, TypeInv, GraphOK
  <2> QED
    BY <1>3, <1>9, <2>3 DEF OthersPush, GitOK
<1>10. CASE DeleteBranch
  BY <1>2, <1>3, <1>10 DEF DeleteBranch, GitOK
<1>11. CASE \E i \in Checkpoints : CreateBranch(i)
  <2>1. PICK i \in Checkpoints : CreateBranch(i)
    BY <1>11
  <2>2. i \in 1..MaxCheckpoint
    BY JjRepoAssumption DEF TypeInv, JournalOK, Checkpoints
  <2>3. mapping.fwd[i] \in 0..Len(commits')
    BY <1>2, <2>2, CurrentMapping DEF TypeInv, Mapping
  <2> QED
    BY <1>3, <2>1, <2>3 DEF CreateBranch, GitOK
<1> QED
  BY <1>4, <1>5, <1>6, <1>7, <1>8, <1>9, <1>10, <1>11, <1>12, GitSteps

LEMMA LeftStays ==
  ASSUME TypeInv, Next
  PROVE  LeftOK'
<1>1. left' = left \/ \E kind \in Event : Spend(kind)
  BY LeftSteps
<1> QED
  BY <1>1 DEF TypeInv, LeftOK, Spend

LEMMA PushStays ==
  ASSUME TypeInv, Next
  PROVE  PushOK'
<1>1. CpsGrow /\ CommitsGrow
  BY EachGrows
<1>2. 0..Len(commits) \subseteq 0..Len(commits') /\ 0 \in 0..Len(commits')
  BY <1>1, WhatWasThere
<1>3. /\ push \in [step : {"idle", "head", "send", "record"}, force : BOOLEAN,
                   target : 0..Len(commits')]
      /\ push.step = "head" => push.target # 0
  BY <1>2 DEF TypeInv, PushOK
<1>4. bookmark \in 0..Len(commits')
  BY <1>2 DEF TypeInv, GitOK
<1>5. NoPush \in [step : {"idle", "head", "send", "record"}, force : BOOLEAN,
               target : 0..Len(commits')]
  BY <1>2 DEF NoPush
<1>6. CASE push' = push
  BY <1>3, <1>6 DEF PushOK
<1>7. CASE PushNext
  <2>1. CASE \E force \in BOOLEAN : PushFetch(force)
    BY <1>5, <2>1 DEF PushFetch, PushOK, NoPush
  <2>2. CASE PushSend
    <3>1. push' = NoPush \/ push' = [push EXCEPT !.step = "record", !.target = bookmark]
      BY <2>2 DEF PushSend
    <3>2. NoPush.step # "head"
      BY DEF NoPush
    <3>3. CASE push' = [push EXCEPT !.step = "record", !.target = bookmark]
      <4>1. push'.step = "record"
        BY <1>3, <3>3
      <4>2. push' \in [step : {"idle", "head", "send", "record"}, force : BOOLEAN,
                       target : 0..Len(commits')]
        BY <1>3, <1>4, <3>3
      <4> QED
        BY <4>1, <4>2 DEF PushOK
    <3> QED
      BY <1>5, <3>1, <3>2, <3>3 DEF PushOK
  <2>3. CASE PushRecord \/ PushDies \/ PushHeadSend
    BY <1>5, <2>3 DEF PushRecord, PushDies, PushHeadSend, PushOK, NoPush
  <2>4. CASE \E force \in BOOLEAN : PushHead(force)
    BY <1>4, <2>4 DEF PushHead, PushOK
  <2> QED
    BY <1>7, <2>1, <2>2, <2>3, <2>4 DEF PushNext
<1> QED
  BY <1>6, <1>7 DEF Next

LEMMA RecordedType ==
  ASSUME StatesOK, NEW i \in 1..MaxCheckpoint, NEW c \in 1..MaxCommit,
         i \in 0..Len(cps'), c \in 0..Len(commits'), Mapping \subseteq Mapping'
  PROVE  /\ Recorded(i, c) \in Seq(Mapping') /\ Len(Recorded(i, c)) = Len(states) + 2
         /\ \A k \in 1..Len(states) : Recorded(i, c)[k] = states[k]
         /\ Recorded(i, c)[Len(states) + 1] = MapTo(mapping, i, c)
         /\ Recorded(i, c)[Len(states) + 2] = MapBack(MapTo(mapping, i, c), i, c)
<1> DEFINE m1 == MapTo(mapping, i, c)
           m2 == MapBack(m1, i, c)
<1>1. mapping \in Mapping' /\ states \in Seq(Mapping') /\ Len(states) \in Nat
  BY CurrentMapping DEF StatesOK
<1>2. m1 \in Mapping'
  BY <1>1 DEF Mapping, MapTo
<1>3. m2 \in Mapping'
  BY <1>2 DEF Mapping, MapBack
<1>4. Recorded(i, c) = states \o <<m1, m2>>
  BY Zenon DEF Recorded
<1> HIDE DEF m1, m2
<1> QED
  BY <1>1, <1>2, <1>3, <1>4 DEF m1, m2

LEMMA MappingsStay ==
  ASSUME TypeInv, CpsGrow, CommitsGrow
  PROVE  Mapping \subseteq Mapping'
<1>1. 0..Len(cps) \subseteq 0..Len(cps') /\ 0..Len(commits) \subseteq 0..Len(commits')
  BY WhatWasThere
<1> QED
  BY <1>1 DEF Mapping

LEMMA SurvivorType ==
  ASSUME StatesOK, NEW s \in Survivors
  PROVE  s \in Seq(Mapping) /\ Len(s) = 1 /\ s # <<>>
         /\ \E k \in 1..Len(states) : s[1] = states[k]
<1>1. PICK k \in 1..Len(states) : s = <<states[k]>>
  BY DEF Survivors
<1>2. states[k] \in Mapping
  BY DEF StatesOK
<1> QED
  BY <1>1, <1>2

LEMMA StatesStay ==
  ASSUME TypeInv, Next
  PROVE  StatesOK'
<1>1. CpsGrow /\ CommitsGrow
  BY EachGrows
<1>2. Mapping \subseteq Mapping' /\ Commits \subseteq Commits'
  BY <1>1, MappingsStay, WhatWasThere
<1>3. StatesOK /\ PubOK /\ ImpOK
  BY DEF TypeInv
<1>4. /\ states \in Seq(Mapping') /\ lost \subseteq Commits' /\ Flushed \in Seq(Mapping')
      /\ Len(Flushed) = 1 /\ Flushed # <<>>
  BY <1>2, <1>3, CurrentMapping DEF StatesOK, Flushed
<1>5. CASE UNCHANGED mapVars
  BY <1>3, <1>4, <1>5 DEF StatesOK, mapVars
<1>6. CASE DropMapping
  BY <1>4, <1>6 DEF DropMapping, StatesOK
<1>7. ASSUME NEW new \in SUBSET Commits, LoseMapping(new)
      PROVE  StatesOK'
  <2>1. states' \in Seq(Mapping) /\ Len(states') = 1 /\ states' # <<>>
    BY <1>3, <1>7, SurvivorType DEF LoseMapping
  <2>2. states' \in Seq(Mapping')
    BY <1>2, <2>1
  <2>3. lost' \subseteq Commits' /\ holder' = "free"
    BY <1>2, <1>4, <1>7 DEF LoseMapping
  <2> QED
    BY <2>1, <2>2, <2>3 DEF StatesOK
<1>8. CASE \E s, e \in Checkpoints, compact, pin \in BOOLEAN : PublishBegin(s, e, compact, pin)
  BY <1>3, <1>4, <1>8 DEF PublishBegin, TakeMapping, StatesOK
<1>9. CASE PublishOne
  <2> DEFINE i == Head(pub.todo)
             c == Len(commits) + 1
  <2>1. i \in 1..MaxCheckpoint /\ i \in 0..Len(cps')
    <3>1. i \in Checkpoints
      BY <1>3, <1>9 DEF PublishOne, PubOK
    <3>2. 1..Len(cps) \subseteq 1..MaxCheckpoint /\ 1..Len(cps) \subseteq 0..Len(cps')
      BY <1>1, WhatWasThere, JjRepoAssumption DEF TypeInv, JournalOK
    <3> QED
      BY <3>1, <3>2 DEF Checkpoints
  <2>2. c \in 1..MaxCommit /\ c \in 0..Len(commits')
    <3>1. Len(commits') = Len(commits) + 1 /\ Len(commits) < MaxCommit
      BY <1>9, NextMadeType DEF TypeInv, GraphOK
    <3> QED
      BY <3>1, JjRepoAssumption DEF TypeInv, GraphOK
  <2>3. states' = Recorded(i, c) /\ holder' = holder /\ lost' = lost
    BY <1>9 DEF PublishOne
  <2> HIDE DEF i, c
  <2>4. Recorded(i, c) \in Seq(Mapping') /\ Len(Recorded(i, c)) = Len(states) + 2
    BY <1>2, <1>3, <2>1, <2>2, RecordedType
  <2>5. holder = "publish"
    BY <1>3, <1>9 DEF PublishOne, PubOK
  <2>6. states' # <<>>
    BY <2>3, <2>4, CurrentMapping, <1>3
  <2> QED
    BY <1>4, <2>3, <2>4, <2>5, <2>6 DEF StatesOK
<1>10. CASE PublishFlush
  BY <1>3, <1>4, <1>10 DEF PublishFlush, StatesOK
<1>11. CASE PublishPin \/ PublishFails
  BY <1>6, <1>11 DEF PublishPin, PublishFails
<1>12. CASE PublishDies
  <2>1. {pub.made[k] : k \in DOMAIN pub.made} \in SUBSET Commits
    BY <1>3 DEF PubOK
  <2> QED
    BY <1>7, <1>12, <2>1 DEF PublishDies
<1>13. CASE ImportBegin
  BY <1>3, <1>4, <1>13 DEF ImportBegin, TakeMapping, StatesOK
<1>14. CASE ImportMap
  <2>1. imp.cp \in 1..MaxCheckpoint /\ imp.cp \in 0..Len(cps')
    <3>1. imp.cp \in 1..Len(cps)
      BY <1>3, <1>14 DEF ImportMap, ImpOK, TypeInv, JournalOK
    <3>2. 1..Len(cps) \subseteq 1..MaxCheckpoint /\ 1..Len(cps) \subseteq 0..Len(cps')
      BY <1>1, WhatWasThere, JjRepoAssumption DEF TypeInv, JournalOK
    <3> QED
      BY <3>1, <3>2
  <2>2. imp.commit \in 1..MaxCommit /\ imp.commit \in 0..Len(commits')
    <3>1. imp.commit \in 1..Len(commits)
      BY <1>3, <1>14 DEF ImportMap, ImpOK, TypeInv, GraphOK
    <3>2. 1..Len(commits) \subseteq 1..MaxCommit /\ 1..Len(commits) \subseteq 0..Len(commits')
      BY <1>1, WhatWasThere, JjRepoAssumption DEF TypeInv, GraphOK
    <3> QED
      BY <3>1, <3>2
  <2>3. states' = Recorded(imp.cp, imp.commit) /\ holder' = holder /\ lost' = lost
    BY <1>14 DEF ImportMap
  <2>4. Recorded(imp.cp, imp.commit) \in Seq(Mapping')
        /\ Len(Recorded(imp.cp, imp.commit)) = Len(states) + 2
    BY <1>2, <1>3, <2>1, <2>2, RecordedType
  <2>5. holder = "import"
    BY <1>3, <1>14 DEF ImportMap, ImpOK
  <2>6. states' # <<>>
    BY <2>3, <2>4, CurrentMapping, <1>3
  <2> QED
    BY <1>4, <2>3, <2>4, <2>5, <2>6 DEF StatesOK
<1>15. CASE ImportFlush
  BY <1>3, <1>4, <1>15 DEF ImportFlush, StatesOK
<1>16. CASE ImportPin
  BY <1>6, <1>16 DEF ImportPin
<1>17. CASE DaemonDies \/ PullDies
  <2>1. CASE UNCHANGED mapVars
    BY <1>5, <2>1
  <2>2. CASE LoseMapping(IF imp.cp # 0 THEN {imp.commit} ELSE {})
             /\ imp.step # "idle"
    <3>1. (IF imp.cp # 0 THEN {imp.commit} ELSE {}) \in SUBSET Commits
      BY <1>3, <2>2 DEF ImpOK, TypeInv, GraphOK, Commits
    <3> QED
      BY <1>7, <2>2, <3>1
  <2> QED
    BY <1>17, <2>1, <2>2 DEF DaemonDies, PullDies, ImportLeaves, mapVars
<1> QED
  BY <1>5, <1>8, <1>9, <1>10, <1>11, <1>12, <1>13, <1>14, <1>15, <1>16, <1>17, MappingSteps

LEMMA SeqWithin ==
  ASSUME NEW S, NEW T, S \subseteq T, NEW s \in Seq(S)
  PROVE  s \in Seq(T)
OBVIOUS

(* Whoever does not hold the mapping leaves it, and its holder, alone.     *)
LEMMA OthersLeaveIt ==
  ASSUME TypeInv, Next, pub' = pub
  PROVE  /\ holder' = "publish" <=> holder = "publish"
         /\ holder = "publish" => states' = states
<1>1. /\ holder = "publish" <=> pub.step # "idle"
      /\ holder = "import" <=> imp.step # "idle"
      /\ pub.made \in Seq(Commits)
  BY DEF TypeInv, PubOK, ImpOK
<1>2. CASE UNCHANGED mapVars
  BY <1>2 DEF mapVars
<1>3. CASE \E s, e \in Checkpoints, compact, pin \in BOOLEAN : PublishBegin(s, e, compact, pin)
  BY <1>3 DEF PublishBegin
<1>4. CASE PublishOne
  <2>1. pub'.made = Append(pub.made, Len(commits) + 1)
    BY <1>4 DEF PublishOne, TypeInv, PubOK
  <2> QED
    BY <1>1, <2>1
<1>5. CASE PublishFlush
  BY <1>5 DEF PublishFlush, TypeInv, PubOK
<1>6. CASE PublishPin \/ PublishFails \/ PublishDies
  BY <1>6 DEF PublishPin, PublishFails, PublishDies, NoPublish
<1>7. CASE ImportBegin
  BY <1>7 DEF ImportBegin, TakeMapping
<1>8. CASE ImportMap \/ ImportFlush \/ ImportPin
  BY <1>1, <1>8 DEF ImportMap, ImportFlush, ImportPin, DropMapping
<1>9. CASE DaemonDies \/ PullDies
  BY <1>1, <1>9 DEF DaemonDies, PullDies, ImportLeaves, LoseMapping, mapVars
<1> QED
  BY <1>2, <1>3, <1>4, <1>5, <1>6, <1>7, <1>8, <1>9, MappingSteps

LEMMA OthersLeaveImport ==
  ASSUME TypeInv, Next, imp' = imp
  PROVE  /\ holder' = "import" <=> holder = "import"
         /\ holder = "import" => up' = up /\ states' = states
<1>1. /\ holder = "publish" <=> pub.step # "idle"
      /\ holder = "import" <=> imp.step # "idle"
      /\ imp.step # "idle" => (imp.by = "daemon" <=> up)
      /\ imp.by \in {"daemon", "command"} /\ imp.step = "idle" => imp = NoImport
  BY DEF TypeInv, PubOK, ImpOK
<1>2. /\ holder' = "import" <=> holder = "import"
      /\ holder = "import" => states' = states
  <2>1. CASE UNCHANGED mapVars
    BY <2>1 DEF mapVars
  <2>2. CASE \E s, e \in Checkpoints, compact, pin \in BOOLEAN : PublishBegin(s, e, compact, pin)
    BY <2>2 DEF PublishBegin, TakeMapping
  <2>3. CASE PublishOne \/ PublishFlush \/ PublishPin \/ PublishFails \/ PublishDies
    BY <1>1, <2>3 DEF PublishOne, PublishFlush, PublishPin, PublishFails, PublishDies,
      DropMapping, LoseMapping
  <2>4. CASE ImportBegin
    BY <1>1, <2>4 DEF ImportBegin, TakeMapping
  <2>5. CASE ImportMap
    BY <2>5 DEF ImportMap, TypeInv, ImpOK
  <2>6. CASE ImportFlush
    BY <2>6 DEF ImportFlush, TypeInv, ImpOK
  <2>7. CASE ImportPin
    BY <2>7 DEF ImportPin, NoImport
  <2>8. CASE DaemonDies \/ PullDies
    BY <1>1, <2>8 DEF DaemonDies, PullDies, ImportLeaves, LoseMapping, mapVars, NoImport
  <2> QED
    BY <2>1, <2>2, <2>3, <2>4, <2>5, <2>6, <2>7, <2>8, MappingSteps
<1>3. holder = "import" => up' = up
  <2>1. CASE DaemonDies
    BY <1>1, <2>1 DEF DaemonDies, ImportLeaves, NoImport
  <2>2. CASE DaemonStarts
    BY <1>1, <2>2 DEF DaemonStarts
  <2> QED
    BY <2>1, <2>2, DaemonSteps DEF LoopCheckpoint, RebuildMap, PullSynced
<1> QED
  BY <1>2, <1>3

LEMMA TailType ==
  ASSUME NEW S, NEW s \in Seq(S), s # <<>>
  PROVE  /\ Tail(s) \in Seq(S) /\ Len(Tail(s)) = Len(s) - 1
         /\ Len(s) # 1 => Tail(s) # <<>>
<1>1. Tail(s) \in Seq(S) /\ Len(Tail(s)) = Len(s) - 1
  OBVIOUS
<1>2. Len(s) # 1 => Len(Tail(s)) # 0
  BY <1>1
<1>3. Len(s) # 1 => Tail(s) # <<>>
  BY <1>2
<1> QED
  BY <1>1, <1>3, Zenon

LEMMA PubStays ==
  ASSUME TypeInv, Next
  PROVE  PubOK'
<1> DEFINE PubType == [step : {"idle", "convert", "flush", "bookmark", "pin"},
              all : Seq(Checkpoints), todo : Seq(Checkpoints), made : Seq(Commits),
              paths : {NoPaths} \cup SUBSET Path,
              whole : BOOLEAN, compact : BOOLEAN, pin : BOOLEAN]
<1>1. CpsGrow /\ CommitsGrow
  BY EachGrows
<1>2. Checkpoints \subseteq Checkpoints' /\ Commits \subseteq Commits'
  BY <1>1, WhatWasThere
<1>3. PubType \subseteq PubType'
  <2>1. Seq(Checkpoints) \subseteq Seq(Checkpoints') /\ Seq(Commits) \subseteq Seq(Commits')
    BY <1>2, SeqWithin
  <2> QED
    BY <2>1
<1>4. pub \in PubType /\ pub \in PubType' /\ PubOK /\ NoPublish \in PubType'
  <2>1. pub \in PubType /\ PubOK
    BY DEF TypeInv, PubOK
  <2>2. NoPublish \in PubType'
    BY DEF NoPublish
  <2> QED
    BY <1>3, <2>1, <2>2
<1> HIDE DEF PubType
<1> SUFFICES /\ pub' \in PubType'
             /\ IF pub'.step = "idle" THEN pub' = NoPublish ELSE pub'.all # <<>>
             /\ holder' = "publish" <=> pub'.step # "idle"
             /\ pub'.step = "convert" => pub'.todo # <<>>
             /\ pub'.step \in {"flush", "bookmark", "pin"} => pub'.made # <<>>
             /\ pub'.step \in {"bookmark", "pin"} => Len(states') = 1
  BY DEF PubOK, PubType
<1>5. CASE pub' = pub
  <2>1. /\ holder' = "publish" <=> holder = "publish"
        /\ holder = "publish" => states' = states
    BY <1>5, OthersLeaveIt
  <2> QED
    BY <1>4, <1>5, <2>1 DEF PubOK
<1>6. CASE \E s, e \in Checkpoints, compact, pin \in BOOLEAN : PublishBegin(s, e, compact, pin)
  <2>1. PICK s \in Checkpoints, e \in Checkpoints, compact \in BOOLEAN, pin \in BOOLEAN :
          PublishBegin(s, e, compact, pin)
    BY <1>6
  <2> DEFINE chosen == CheckpointRange(s, e)
             all == WithAncestors(chosen)
             p == cps[all[1]].parent
             paths == IF p # 0 /\ ~Published(p) THEN Accumulated[all[1]] ELSE NoPaths
             todo == IF compact THEN <<e>> ELSE all
             whole == ReachesRoot(all[1]) /\ ~compact
  <2>2. JournalOK /\ Line[e] \subseteq index /\ s \in Line[e] /\ index \subseteq Checkpoints
    <3>1. JournalOK /\ index \subseteq Checkpoints
      BY DEF TypeInv, JournalOK
    <3>2. e \in 0..Len(cps)
      BY <3>1 DEF JournalOK, Checkpoints
    <3>3. s \in Line[e]
      BY <2>1 DEF PublishBegin
    <3> QED
      BY <3>1, <3>2, <3>3, LineUnfold
  <2>3. chosen \subseteq Checkpoints /\ chosen # {}
    <3>1. s \in Nat
      BY DEF Checkpoints
    <3>2. s \in chosen
      BY <2>2, <3>1 DEF CheckpointRange
    <3> QED
      BY <2>2, <3>2 DEF CheckpointRange
  <2> HIDE DEF chosen
  <2>4. all \in Seq(Checkpoints) /\ all # <<>> /\ all[1] \in Checkpoints
    BY <2>2, <2>3, BatchLists
  <2>5. paths \in {NoPaths} \cup SUBSET Path
    BY <2>2, <2>4, AccumulatedUnfold
  <2>6. todo \in Seq(Checkpoints) /\ todo # <<>>
    BY <2>4
  <2>7. whole \in BOOLEAN
    OBVIOUS
  <2>8. pub' = [step |-> "convert", all |-> all, todo |-> todo, made |-> <<>>,
                paths |-> paths, whole |-> whole, compact |-> compact, pin |-> pin]
    BY <2>1, Zenon DEF PublishBegin, chosen
  <2> HIDE DEF all, p, paths, todo, whole
  <2>9. pub' \in PubType
    BY <2>4, <2>5, <2>6, <2>7, <2>8 DEF PubType
  <2>10. holder' = "publish"
    BY <2>1 DEF PublishBegin, TakeMapping
  <2>11. pub'.step = "convert" /\ pub'.all = all /\ pub'.todo = todo
    BY <2>8
  <2> QED
    BY <1>3, <2>4, <2>6, <2>9, <2>10, <2>11
<1>7. CASE PublishOne
  <2>1. /\ pub' = [pub EXCEPT !.todo = Tail(@), !.made = Append(@, Len(commits) + 1),
                              !.step = IF Len(pub.todo) = 1 THEN "flush" ELSE @]
        /\ holder' = holder /\ states' = Recorded(Head(pub.todo), Len(commits) + 1)
        /\ pub.step = "convert" /\ pub.todo # <<>>
    BY <1>7 DEF PublishOne
  <2>2. Len(commits) + 1 \in Commits'
    <3>1. Len(commits') = Len(commits) + 1
      BY <1>7, NextMadeType DEF TypeInv, GraphOK
    <3> QED
      BY <3>1 DEF TypeInv, GraphOK, Commits
  <2>3. /\ Tail(pub.todo) \in Seq(Checkpoints') /\ (Len(pub.todo) # 1 => Tail(pub.todo) # <<>>)
        /\ Append(pub.made, Len(commits) + 1) \in Seq(Commits')
        /\ Append(pub.made, Len(commits) + 1) # <<>>
    <3>1. pub.todo \in Seq(Checkpoints') /\ pub.made \in Seq(Commits')
      BY <1>4 DEF PubType
    <3>2. Tail(pub.todo) \in Seq(Checkpoints') /\ (Len(pub.todo) # 1 => Tail(pub.todo) # <<>>)
      BY <2>1, <3>1, TailType
    <3> QED
      BY <2>2, <3>1, <3>2
  <2>4. pub' \in PubType'
    BY <1>4, <2>1, <2>3 DEF PubType
  <2>5. /\ pub'.step = IF Len(pub.todo) = 1 THEN "flush" ELSE "convert"
        /\ pub'.todo = Tail(pub.todo) /\ pub'.made = Append(pub.made, Len(commits) + 1)
        /\ pub'.all = pub.all
    BY <1>4, <2>1 DEF PubType
  <2> QED
    BY <1>4, <2>1, <2>3, <2>4, <2>5 DEF PubOK
<1>8. CASE PublishFlush
  <2>1. /\ pub.step = "flush" /\ pub' = [pub EXCEPT !.step = "bookmark"]
        /\ states' = <<mapping>> /\ holder' = holder
    BY <1>8 DEF PublishFlush, Flushed
  <2>2. pub' \in PubType'
    BY <1>4, <2>1 DEF PubType
  <2>3. pub'.step = "bookmark" /\ pub'.all = pub.all /\ pub'.made = pub.made
    BY <1>4, <2>1 DEF PubType
  <2> QED
    BY <1>4, <2>1, <2>2, <2>3 DEF PubOK
<1>9. CASE PublishBookmark
  <2>1. /\ pub.step = "bookmark" /\ pub' = [pub EXCEPT !.step = "pin"]
        /\ states' = states /\ holder' = holder
    BY <1>9 DEF PublishBookmark, mapVars
  <2>2. pub' \in PubType'
    BY <1>4, <2>1 DEF PubType
  <2>3. pub'.step = "pin" /\ pub'.all = pub.all /\ pub'.made = pub.made
    BY <1>4, <2>1 DEF PubType
  <2> QED
    BY <1>4, <2>1, <2>2, <2>3 DEF PubOK
<1>10. CASE PublishPin \/ PublishFails \/ PublishDies
  <2>1. pub' = NoPublish /\ holder' = "free"
    BY <1>10 DEF PublishPin, PublishFails, PublishDies, DropMapping, LoseMapping
  <2> QED
    BY <1>4, <2>1 DEF NoPublish
<1> QED
  BY <1>5, <1>6, <1>7, <1>8, <1>9, <1>10, PubSteps

LEMMA ImpStays ==
  ASSUME TypeInv, Next
  PROVE  ImpOK'
<1> DEFINE PullType == [step : {"idle", "sent", "asked", "sync"}, by : {"daemon", "command"},
                        commit : 0..Len(commits)]
           ImpType == [step : {"idle", "append", "map", "flush", "pin"},
                       by : {"daemon", "command"},
                       commit : 0..Len(commits), parent : 0..Len(cps), cp : 0..Len(cps)]
           Rest == /\ IF imp.step = "idle" THEN imp = NoImport
                      ELSE imp.commit # 0 /\ imp.parent # 0
                   /\ holder = "import" <=> imp.step # "idle"
                   /\ imp.step = "append" => imp.cp = 0
                   /\ imp.step \in {"map", "flush", "pin"} =>
                        /\ imp.cp # 0
                        /\ cps[imp.cp].from = imp.commit
                        /\ cps[imp.cp].tree = commits[imp.commit].tree
                   /\ imp.step # "idle" => (imp.by = "daemon" <=> up)
<1>1. CpsGrow /\ CommitsGrow
  BY EachGrows
<1>2. /\ 0..Len(cps) \subseteq 0..Len(cps') /\ 0..Len(commits) \subseteq 0..Len(commits')
      /\ \A i \in 1..Len(cps) : cps'[i] = cps[i]
      /\ \A c \in 1..Len(commits) : commits'[c] = commits[c]
      /\ Len(cps) \in Nat /\ Len(commits) \in Nat
      /\ 0 \in 0..Len(commits') /\ 0 \in 0..Len(cps')
  BY <1>1, WhatWasThere
<1>3. /\ pull \in PullType /\ imp \in ImpType /\ Rest
      /\ pull.step # "idle" => pull.commit # 0
  BY DEF TypeInv, ImpOK
<1>4. /\ pull \in PullType' /\ imp \in ImpType'
      /\ NoPull \in PullType' /\ NoImport \in ImpType'
  BY <1>2, <1>3 DEF NoPull, NoImport
<1>5. imp.step \in {"map", "flush", "pin"} =>
        /\ cps'[imp.cp].from = imp.commit /\ cps'[imp.cp].tree = commits'[imp.commit].tree
  BY <1>2, <1>3
<1> SUFFICES /\ pull' \in PullType'
             /\ pull'.step # "idle" => pull'.commit # 0
             /\ imp' \in ImpType'
             /\ Rest'
  BY DEF ImpOK
<1>6. /\ pull' \in PullType'
      /\ pull'.step # "idle" => pull'.commit # 0
  <2>1. CASE pull' = pull
    BY <1>3, <1>4, <2>1
  <2>2. CASE pull' = NoPull
    BY <1>4, <2>2 DEF NoPull
  <2>3. CASE PullBegin
    <3>1. remote \in 0..Len(commits') /\ remote # 0
      BY <1>2 DEF TypeInv, GitOK, Commits
    <3>2. pull' = [step |-> "sent", by |-> IF up THEN "daemon" ELSE "command",
                   commit |-> remote]
      BY <2>3 DEF PullBegin
    <3> QED
      BY <3>1, <3>2
  <2>4. CASE \E step \in {"sent", "asked", "sync"} :
                pull' = [pull EXCEPT !.step = step] /\ pull.step # "idle"
    BY <1>3, <1>4, <2>4
  <2>5. \/ pull' = pull \/ pull' = NoPull \/ PullBegin
        \/ \E step \in {"sent", "asked", "sync"} :
             pull' = [pull EXCEPT !.step = step] /\ pull.step # "idle"
    BY ImportSteps DEF PullGivesUp, PullSynced, ImportBegin, ImportAppend, ImportMap,
      ImportFlush, ImportPin, DaemonDies, PullDies
  <2> QED
    BY <2>1, <2>2, <2>3, <2>4, <2>5
<1> HIDE DEF PullType
<1>7. CASE imp' = imp
  <2>1. /\ holder' = "import" <=> holder = "import"
        /\ holder = "import" => up' = up
    BY <1>7, OthersLeaveImport
  <2> QED
    BY <1>3, <1>4, <1>5, <1>6, <1>7, <2>1
<1>8. CASE ImportBegin /\ imp' # imp
  <2>1. /\ pull.step = "sent" /\ up = (pull.by = "daemon")
        /\ imp' = [step |-> "append", by |-> pull.by, commit |-> pull.commit,
                   parent |-> Latest, cp |-> 0]
        /\ holder' = "import" /\ up' = up
    BY <1>8 DEF ImportBegin, TakeMapping, daemonVars
  <2>2. Latest \in 0..Len(cps') /\ Latest # 0
    BY <1>2, LatestIsLast DEF TypeInv, JournalOK, Checkpoints
  <2>3. /\ imp' \in ImpType'
        /\ imp'.step = "append" /\ imp'.cp = 0 /\ imp'.commit = pull.commit
        /\ imp'.parent = Latest /\ imp'.by = pull.by
    BY <1>2, <1>3, <2>1, <2>2 DEF PullType
  <2> QED
    BY <1>3, <1>6, <2>1, <2>2, <2>3
<1>9. CASE ImportAppend
  <2>1. /\ imp.step = "append" /\ imp' = [imp EXCEPT !.step = "map", !.cp = Len(cps) + 1]
        /\ cps' = Append(cps, [parent |-> imp.parent, tree |-> commits[imp.commit].tree,
                               touched |-> {}, from |-> imp.commit, gap |-> FALSE])
        /\ holder' = holder /\ up' = up /\ commits' = commits
    BY <1>9 DEF ImportAppend, Record, mapVars, daemonVars
  <2>2. Len(cps') = Len(cps) + 1 /\ Len(cps) + 1 \in 0..Len(cps') /\ Len(cps) + 1 # 0
        /\ cps'[Len(cps) + 1].from = imp.commit
        /\ cps'[Len(cps) + 1].tree = commits[imp.commit].tree
    BY <2>1 DEF TypeInv, JournalOK
  <2>3. /\ imp' \in ImpType'
        /\ imp'.step = "map" /\ imp'.cp = Len(cps) + 1 /\ imp'.commit = imp.commit
        /\ imp'.parent = imp.parent /\ imp'.by = imp.by
    BY <1>4, <2>1, <2>2
  <2> QED
    BY <1>3, <1>6, <2>1, <2>2, <2>3
<1>10. CASE ImportMap \/ ImportFlush
  <2>1. \E step \in {"flush", "pin"} :
          /\ imp.step \in {"map", "flush"} /\ imp' = [imp EXCEPT !.step = step]
          /\ holder' = holder /\ up' = up
    BY <1>10 DEF ImportMap, ImportFlush, daemonVars
  <2>2. /\ imp' \in ImpType'
        /\ imp'.step \in {"flush", "pin"} /\ imp'.cp = imp.cp /\ imp'.commit = imp.commit
        /\ imp'.parent = imp.parent /\ imp'.by = imp.by
    BY <1>4, <2>1
  <2> QED
    BY <1>3, <1>5, <1>6, <2>1, <2>2
<1>11. CASE imp' = NoImport /\ holder' # "import"
  BY <1>4, <1>6, <1>11 DEF NoImport
<1>12. CASE ImportPin
  BY <1>11, <1>12 DEF ImportPin, DropMapping
<1>13. CASE DaemonDies \/ PullDies
  <2>1. CASE imp' = imp
    BY <1>7, <2>1
  <2>2. CASE ImportLeaves
    BY <1>3, <1>11, <2>2 DEF ImportLeaves, LoseMapping, mapVars
  <2> QED
    BY <1>13, <2>1, <2>2 DEF DaemonDies, PullDies
<1>14. imp' = imp \/ ImportBegin \/ ImportAppend \/ ImportMap \/ ImportFlush \/ ImportPin
         \/ DaemonDies \/ PullDies
  BY ImportSteps DEF PullBegin, PullGivesUp, PullSynced
<1> QED
  BY <1>7, <1>8, <1>9, <1>10, <1>12, <1>13, <1>14

LEMMA TypeStep == TypeInv /\ [Next]_vars => TypeInv'
<1> SUFFICES ASSUME TypeInv, [Next]_vars PROVE TypeInv'
  OBVIOUS
<1>1. CASE Next
  BY <1>1, JournalStays, DaemonStays, GraphStays, GitStays, StatesStay, LeftStays, PubStays,
    ImpStays, PushStays DEF TypeInv
<1>2. CASE UNCHANGED vars
  <2>1. UNCHANGED <<journalVars, daemonVars, commits, gitVars, mapVars, seed, left, pub, pull,
                    imp, push>>
    BY <1>2 DEF vars, repoVars, importVars
  <2>2. JournalOK' /\ DaemonOK' /\ GraphOK' /\ GitOK' /\ LeftOK' /\ PushOK'
    BY <2>1 DEF TypeInv, JournalOK, DaemonOK, GraphOK, GitOK, LeftOK, PushOK,
      journalVars, daemonVars, gitVars, Checkpoints, Commits
  <2>3. Mapping' = Mapping /\ Commits' = Commits /\ Checkpoints' = Checkpoints
    BY <2>1 DEF Mapping, Commits, Checkpoints, journalVars
  <2>4. StatesOK'
    BY <2>1, <2>3 DEF TypeInv, StatesOK, mapVars
  <2>5. PubOK'
    BY <2>1, <2>3 DEF TypeInv, PubOK, mapVars
  <2>6. ImpOK'
    BY <2>1, <2>3 DEF TypeInv, ImpOK, mapVars, journalVars, daemonVars
  <2> QED
    BY <2>2, <2>4, <2>5, <2>6 DEF TypeInv
<1> QED
  BY <1>1, <1>2

(* The first state: one checkpoint, and commits of nothing upon nothing.   *)
InitShape ==
  /\ cps \in Seq(Checkpoint) /\ Len(cps) = 1
  /\ cps[1].parent = 0 /\ cps[1].from = 0 /\ ~cps[1].gap
  /\ commits \in Seq(Commit) /\ Len(commits) \in {1, 2}
  /\ \A c \in 1..Len(commits) :
       commits[c].parent = 0 /\ commits[c].of = 0 /\ ~commits[c].guessed
  /\ seed \in [commit : 0..Len(commits), tree : Tree]
  /\ "empty" \notin Seeds /\ seed.commit # 0 =>
       seed.tree = cps[1].tree /\ commits[seed.commit].tree = seed.tree
  /\ map \in Tree

LEMMA ShapeOfInit == Init => InitShape
<1> SUFFICES ASSUME Init PROVE InitShape
  OBVIOUS
<1>1. PICK t \in StartTrees, s \in Seeds :
    /\ cps = <<[parent |-> 0, tree |-> t, touched |-> Differ(EmptyTree, t),
                from |-> 0, gap |-> FALSE]>>
    /\ index = {1}
    /\ pins = [name \in {"published", "pulled"} |-> 0]
    /\ up \in BOOLEAN /\ map = t /\ stale = FALSE
    /\ commits = <<NewOf(0, RemoteTree, 0, FALSE)>> \o SeedCommit(s, t)
    /\ bookmark = 0 /\ tracked = FALSE /\ tracking = 0 /\ remote = 1
    /\ states = <<NoMapping>> /\ holder = "free" /\ lost = {}
    /\ left \in Budgets
    /\ seed = [commit |-> IF s = "none" THEN 0 ELSE 2,
               tree |-> IF s = "none" THEN EmptyTree ELSE t]
  BY DEF Init, RepoInit
<1>3. /\ t \in Tree /\ RemoteTree \in Tree /\ EmptyTree \in Tree
      /\ s \in {"none", "same", "empty"}
      /\ MaxCheckpoint \in Nat \ {0} /\ MaxCommit \in Nat \ {0, 1}
      /\ 0 \in 0..MaxCheckpoint /\ 0 \in 0..MaxCommit
  BY <1>1, JjRepoAssumption DEF EmptyTree, Tree
<1>4. /\ Len(cps) = 1 /\ cps \in Seq(Checkpoint)
      /\ cps[1].parent = 0 /\ cps[1].from = 0 /\ ~cps[1].gap /\ cps[1].tree = t
  <2> DEFINE first == [parent |-> 0, tree |-> t, touched |-> Differ(EmptyTree, t),
                       from |-> 0, gap |-> FALSE]
  <2>1. Differ(EmptyTree, t) \in SUBSET Path
    BY DEF Differ
  <2>2. first \in Checkpoint
    BY <1>3, <2>1 DEF Checkpoint
  <2>3. cps = <<first>> /\ first.parent = 0 /\ first.from = 0 /\ ~first.gap /\ first.tree = t
    BY <1>1
  <2> HIDE DEF first
  <2> QED
    BY <2>2, <2>3
<1>5. /\ commits \in Seq(Commit) /\ Len(commits) = IF s = "none" THEN 1 ELSE 2
      /\ \A c \in 1..Len(commits) :
           commits[c].parent = 0 /\ commits[c].of = 0 /\ ~commits[c].guessed
      /\ s = "same" => commits[2].tree = t
  <2> DEFINE first == NewOf(0, RemoteTree, 0, FALSE)
             u == IF s = "same" THEN t ELSE EmptyTree
             second == NewOf(0, u, 0, FALSE)
  <2>1. \A tree \in Tree : /\ NewOf(0, tree, 0, FALSE) \in Commit
                           /\ NewOf(0, tree, 0, FALSE).parent = 0
                           /\ NewOf(0, tree, 0, FALSE).of = 0
                           /\ ~NewOf(0, tree, 0, FALSE).guessed
                           /\ NewOf(0, tree, 0, FALSE).tree = tree
    BY <1>3 DEF NewOf, Commit
  <2>2. u \in Tree
    BY <1>3
  <2> HIDE DEF u
  <2>3. /\ first \in Commit /\ first.parent = 0 /\ first.of = 0 /\ ~first.guessed
        /\ second \in Commit /\ second.parent = 0 /\ second.of = 0 /\ ~second.guessed
        /\ s = "same" => second.tree = t
    BY <1>3, <2>1, <2>2 DEF u
  <2>4. SeedCommit(s, t) = IF s = "none" THEN <<>> ELSE <<second>>
    BY <1>3 DEF SeedCommit, u
  <2> HIDE DEF first, second
  <2>5. commits = <<first>> \o SeedCommit(s, t)
    BY <1>1 DEF first
  <2>6. CASE s = "none"
    BY <2>3, <2>4, <2>5, <2>6
  <2>7. CASE s # "none"
    <3>1. commits = <<first>> \o <<second>>
      BY <2>4, <2>5, <2>7
    <3>2. commits \in Seq(Commit) /\ Len(commits) = 2 /\ commits[1] = first
            /\ commits[2] = second
      BY <2>3, <3>1
    <3>3. \A c \in 1..Len(commits) : c = 1 \/ c = 2
      BY <3>2
    <3> QED
      BY <2>3, <2>7, <3>2, <3>3
  <2> QED
    BY <2>6, <2>7
<1> QED
  <2>1. seed \in [commit : 0..Len(commits), tree : Tree]
    BY <1>1, <1>3, <1>5
  <2>2. "empty" \notin Seeds /\ seed.commit # 0 =>
          seed.tree = cps[1].tree /\ commits[seed.commit].tree = seed.tree
    BY <1>1, <1>3, <1>4, <1>5
  <2>3. Len(commits) \in {1, 2} /\ map \in Tree
    BY <1>1, <1>3, <1>5
  <2> QED
    BY <1>4, <1>5, <2>1, <2>2, <2>3 DEF InitShape

LEMMA TypeInit == Init => TypeInv
<1> SUFFICES ASSUME Init PROVE TypeInv
  OBVIOUS
<1>1. /\ index = {1}
      /\ pins = [name \in {"published", "pulled"} |-> 0]
      /\ up \in BOOLEAN /\ stale = FALSE
      /\ bookmark = 0 /\ tracked = FALSE /\ tracking = 0 /\ remote = 1
      /\ states = <<NoMapping>> /\ holder = "free" /\ lost = {}
      /\ left \in Budgets
  BY DEF Init, RepoInit
<1>2. pub = NoPublish /\ pull = NoPull /\ imp = NoImport /\ push = NoPush
  BY DEF Init, PublishInit, ImportInit, PushInit
<1>3. /\ MaxCheckpoint \in Nat \ {0} /\ MaxCommit \in Nat \ {0, 1}
      /\ map \in Tree /\ seed \in [commit : 0..Len(commits), tree : Tree]
  BY ShapeOfInit, JjRepoAssumption DEF InitShape
<1>4. Len(cps) = 1 /\ cps \in Seq(Checkpoint) /\ cps[1].parent = 0 /\ cps[1].from = 0
  BY ShapeOfInit DEF InitShape
<1>5. /\ commits \in Seq(Commit) /\ Len(commits) \in {1, 2}
      /\ \A c \in 1..Len(commits) : commits[c].parent = 0 /\ commits[c].of = 0
  BY ShapeOfInit DEF InitShape
<1>6. JournalOK
  BY <1>1, <1>3, <1>4, <1>5 DEF JournalOK, Checkpoints
<1>7. DaemonOK
  BY <1>1, <1>3 DEF DaemonOK
<1>8. GraphOK
  <2>1. seed \in [commit : 0..Len(commits), tree : Tree]
    BY <1>1, <1>3, <1>5
  <2>2. Len(commits) \in 1..MaxCommit
    <3>1. MaxCommit \in Nat /\ MaxCommit >= 2
      BY <1>3
    <3>2. 1 \in 1..MaxCommit /\ 2 \in 1..MaxCommit
      BY <3>1
    <3> QED
      BY <1>5, <3>2, Zenon
  <2>3. seed.commit \in 0..Len(commits)
    BY <2>1
  <2> QED
    BY <1>4, <1>5, <2>1, <2>2, <2>3 DEF GraphOK, Commits
<1>9. GitOK
  <2>1. Len(commits) \in Nat /\ Len(commits) >= 1
    BY <1>5
  <2> QED
    <3>1. bookmark = 0 /\ tracking = 0 /\ remote = 1
      BY <1>1
    <3>2. tracked \in BOOLEAN
      BY <1>1
    <3>3. 0 \in 0..Len(commits) /\ 1 \in 1..Len(commits)
      BY <2>1
    <3> QED
      BY <3>1, <3>2, <3>3 DEF GitOK, Commits
<1>10. StatesOK
  <2>1. NoMapping \in Mapping
    BY <1>4, <1>5 DEF NoMapping, Mapping
  <2>2. states = <<NoMapping>> /\ holder = "free" /\ lost = {}
    BY <1>1
  <2>3. states \in Seq(Mapping) /\ states # <<>> /\ Len(states) = 1
    BY <2>1, <2>2
  <2> QED
    BY <2>2, <2>3 DEF StatesOK
<1>11. LeftOK
  BY <1>1, JjRepoAssumption DEF LeftOK
<1>12. PubOK
  BY <1>1, <1>2 DEF PubOK, NoPublish
<1>13. ImpOK
  BY <1>1, <1>2, <1>4, <1>5 DEF ImpOK, NoPull, NoImport
<1>14. PushOK
  BY <1>2, <1>5 DEF PushOK, NoPush
<1> QED
  BY <1>6, <1>7, <1>8, <1>9, <1>10, <1>11, <1>12, <1>13, <1>14 DEF TypeInv

(* Every state is of the types that SyncTypeOK gives: the numbers that the *)
(* journal, the mapping, git and the commands keep are those of            *)
(* checkpoints and commits there are, through deaths and collections.      *)
THEOREM TypesHold == Spec => []SyncTypeOK
<1>1. Spec => []TypeInv
  BY TypeInit, TypeStep, PTL DEF Spec
<1> QED
  BY <1>1, TypeInvType, PTL

-----------------------------------------------------------------------------
(* The remote branch.                                                      *)

LEMMA AncestorsUnfoldNext ==
  (GraphOK =>
    /\ Ancestors \in [0..Len(commits) -> SUBSET Commits]
    /\ Ancestors[0] = {}
    /\ \A c \in Commits : Ancestors[c] = {c} \cup Ancestors[commits[c].parent])'
BY AncestorsUnfold, PTL

(* What a commit lies upon stays what it was.                              *)
LEMMA AncestorsStay ==
  ASSUME TypeInv, Next
  PROVE  \A c \in 0..Len(commits) : Ancestors'[c] = Ancestors[c]
<1> DEFINE Bad == {c \in 0..Len(commits) : Ancestors'[c] # Ancestors[c]}
<1> SUFFICES ASSUME Bad # {} PROVE FALSE
  OBVIOUS
<1>1. /\ \A c \in Commits : commits'[c] = commits[c] /\ c \in Commits'
      /\ Len(commits) \in Nat /\ Commits = 1..Len(commits)
  BY EachGrows, WhatWasThere
<1>2. GraphOK /\ GraphOK'
  BY GraphStays DEF TypeInv
<1>3. PICK c \in Bad : \A d \in Bad : c <= d
  <2>1. Bad \subseteq Nat
    BY <1>1
  <2> HIDE DEF Bad
  <2> QED
    BY <2>1, LeastNumber
<1>4. c # 0
  BY <1>2, AncestorsUnfold, AncestorsUnfoldNext
<1>5. c \in Commits /\ commits[c].parent \in 0..(c - 1)
  BY <1>1, <1>2, <1>4 DEF GraphOK
<1>6. commits[c].parent \in 0..Len(commits) /\ commits[c].parent < c
  BY <1>1, <1>5
<1>7. Ancestors'[commits[c].parent] = Ancestors[commits[c].parent]
  BY <1>3, <1>6
<1>8. Ancestors[c] = {c} \cup Ancestors[commits[c].parent]
  BY <1>2, <1>5, AncestorsUnfold
<1>9. Ancestors'[c] = {c} \cup Ancestors'[commits[c].parent]
  BY <1>1, <1>2, <1>5, AncestorsUnfoldNext
<1> QED
  BY <1>7, <1>8, <1>9

LEMMA RemoteStep ==
  ASSUME TypeInv, Next
  PROVE  \/ remote \in Ancestors'[remote']
         \/ push.force /\ (push.step = "send" => remote = tracking)
<1>1. GraphOK /\ GraphOK' /\ remote \in Commits /\ remote # 0
  BY GraphStays DEF TypeInv, GitOK, Commits
<1>2. /\ \A c \in Commits : commits'[c] = commits[c] /\ c \in Commits'
      /\ Len(commits) \in Nat /\ Commits' = 1..Len(commits') /\ Commits = 1..Len(commits)
  BY EachGrows, WhatWasThere
<1>3. remote \in Ancestors'[remote]
  BY <1>1, <1>2, AncestorsUnfoldNext
<1>4. CASE remote' = remote
  BY <1>3, <1>4
<1>5. CASE OthersPush
  <2>1. \E tree : commits' = Append(commits, NewOf(remote, tree, 0, FALSE))
    BY <1>5 DEF OthersPush, NewCommit
  <2>2. /\ Len(commits') = Len(commits) + 1
        /\ commits'[Len(commits) + 1].parent = remote
    BY <2>1 DEF TypeInv, GraphOK, NewOf
  <2>3. remote' = Len(commits) + 1 /\ remote' \in Commits'
    BY <1>2, <1>5, <2>2 DEF OthersPush
  <2>4. Ancestors'[remote'] = {remote'} \cup Ancestors'[remote]
    BY <1>1, <2>2, <2>3, AncestorsUnfoldNext
  <2> QED
    BY <1>3, <2>4
<1>6. CASE PushSend /\ remote' # remote
  <2>1. remote' = bookmark /\ ~Diverged /\ remote = tracking
    BY <1>6 DEF PushSend
  <2>2. bookmark \in 0..Len(commits) /\ tracking # 0
    BY <1>1, <2>1 DEF TypeInv, GitOK
  <2>3. CASE push.force
    BY <2>1, <2>3
  <2>4. CASE ~push.force
    <3>1. IsAncestor(tracking, bookmark)
      BY <2>1, <2>2, <2>4 DEF Diverged
    <3>2. remote \in Ancestors[bookmark]
      BY <2>1, <2>2, <3>1 DEF IsAncestor
    <3> QED
      BY <2>1, <2>2, <3>2, AncestorsStay
  <2> QED
    BY <2>3, <2>4
<1>7. CASE PushHeadSend /\ remote' # remote
  <2>1. remote' = push.target /\ push.step = "head" /\ push.target \in 0..Len(commits)
    BY <1>7 DEF PushHeadSend, TypeInv, PushOK
  <2>2. CASE push.force
    BY <2>1, <2>2
  <2>3. CASE ~push.force
    <3>1. remote \in Ancestors[push.target]
      BY <1>7, <2>3 DEF PushHeadSend
    <3> QED
      BY <2>1, <3>1, AncestorsStay
  <2> QED
    BY <2>2, <2>3
<1>8. remote' = remote \/ OthersPush \/ PushSend \/ PushHeadSend
  BY GitSteps DEF PublishBookmark, PushFetch, PushRecord, DeleteBranch, CreateBranch, gitVars
<1> QED
  BY <1>4, <1>5, <1>6, <1>7, <1>8

(* The remote branch only ever goes on from what it was, whatever commands *)
(* die and whoever else pushes, unless `tl push --force` takes it from     *)
(* where its fetch had seen it, or pushes git's HEAD without a fetch.      *)
THEOREM RemoteOnlyAdvances == Spec => RemoteNeverRewound
<1>1. Spec => []TypeInv
  BY TypeInit, TypeStep, PTL DEF Spec
<1>2. TypeInv /\ [Next]_vars =>
        [\/ remote \in Ancestors'[remote']
         \/ push.force /\ (push.step = "send" => remote = tracking)]_vars
  BY RemoteStep
<1> QED
  BY <1>1, <1>2, PTL DEF Spec, RemoteNeverRewound

-----------------------------------------------------------------------------
(* Checkpoint i was imported from c, or c was made of it.                  *)
Made(i, c) == i \in Checkpoints /\ c \in Commits /\ (cps[i].from = c \/ commits[c].of = i)

(* The commits of which the command that has the mapping open has written  *)
(* a reverse key that may not be on the disk.                              *)
Session == IF pub.step # "idle" THEN {pub.made[k] : k \in DOMAIN pub.made}
           ELSE IF imp.step \in {"flush", "pin"} THEN {imp.commit} ELSE {}

KeysMade ==
  \A k \in 1..Len(states), c \in 1..MaxCommit :
    states[k].rev[c] # 0 => Made(states[k].rev[c], c)
OnlySession ==
  \A k \in 1..Len(states), c \in 1..MaxCommit \ Session : states[k].rev[c] = mapping.rev[c]
StillUnknown == imp.step \in {"append", "map"} => mapping.rev[imp.commit] \notin index
Unmapped(i, c) == imp.step = "map" /\ imp.cp = i /\ imp.commit = c
KeyOfEach ==
  \A c \in Commits \ lost, i \in index : Made(i, c) => mapping.rev[c] = i \/ Unmapped(i, c)

KnownInv == KeysMade /\ OnlySession /\ StillUnknown /\ KeyOfEach

LEMMA KnownImplies ==
  ASSUME TypeInv, KnownInv
  PROVE  OneCheckpointPerCommit
<1> SUFFICES ASSUME NEW c \in Commits \ lost
             PROVE  Cardinality({i \in index : cps[i].from = c \/ commits[c].of = i}) <= 1
  BY Zenon DEF OneCheckpointPerCommit
<1> DEFINE S == {i \in index : cps[i].from = c \/ commits[c].of = i}
<1>1. \A i \in S : i \in index /\ Made(i, c)
  BY DEF Made, TypeInv, JournalOK
<1>2. \A i, j \in S : i = j
  <2>1. c \in 1..MaxCommit
    BY JjRepoAssumption DEF TypeInv, GraphOK, Commits
  <2> SUFFICES ASSUME NEW i \in S, NEW j \in S
               PROVE  i = j
    OBVIOUS
  <2>2. mapping.rev[c] = i \/ Unmapped(i, c)
    BY <1>1 DEF KnownInv, KeyOfEach
  <2>3. mapping.rev[c] = j \/ Unmapped(j, c)
    BY <1>1 DEF KnownInv, KeyOfEach
  <2>4. Unmapped(i, c) \/ Unmapped(j, c) => mapping.rev[c] \notin index
    BY DEF KnownInv, StillUnknown, Unmapped
  <2> QED
    BY <1>1, <2>2, <2>3, <2>4 DEF Unmapped
<1>3. Cardinality(S) <= 1
  <2> HIDE DEF S
  <2>1. CASE S = {}
    BY <2>1, FS_EmptySet
  <2>2. CASE S # {}
    <3>1. PICK i \in S : S = {i}
      BY <1>2, <2>2
    <3>2. Cardinality({i}) = 1
      BY FS_Singleton
    <3> QED
      BY <3>1, <3>2
  <2> QED
    BY <2>1, <2>2
<1> QED
  BY <1>3

(* What the two writes of a record leave in the mapping, and before them.  *)
LEMMA RecordedReads ==
  ASSUME StatesOK, NEW i \in 1..MaxCheckpoint, NEW c \in 1..MaxCommit, states' = Recorded(i, c)
  PROVE  /\ Len(states') = Len(states) + 2 /\ Len(states) \in Nat \ {0}
         /\ \A k \in 1..Len(states) : states'[k] = states[k]
         /\ states'[Len(states) + 1].fwd = [mapping.fwd EXCEPT ![i] = c]
         /\ states'[Len(states) + 1].rev = mapping.rev
         /\ mapping' = states'[Len(states) + 2]
         /\ mapping'.fwd = [mapping.fwd EXCEPT ![i] = c]
         /\ mapping'.rev = [mapping.rev EXCEPT ![c] = i]
<1> DEFINE m1 == MapTo(mapping, i, c)
           m2 == MapBack(m1, i, c)
<1>1. mapping \in Mapping /\ Len(states) \in Nat \ {0} /\ states \in Seq(Mapping)
  BY CurrentMapping DEF StatesOK
<1>2. /\ m1.fwd = [mapping.fwd EXCEPT ![i] = c] /\ m1.rev = mapping.rev
      /\ m2.fwd = [mapping.fwd EXCEPT ![i] = c] /\ m2.rev = [mapping.rev EXCEPT ![c] = i]
  BY <1>1 DEF MapTo, MapBack, Mapping
<1>3. states' = states \o <<m1, m2>>
  BY Zenon DEF Recorded
<1> HIDE DEF m1, m2
<1>4. /\ Len(states') = Len(states) + 2
      /\ \A k \in 1..Len(states) : states'[k] = states[k]
      /\ states'[Len(states) + 1] = m1 /\ states'[Len(states) + 2] = m2
  BY <1>1, <1>3
<1>5. mapping' = states'[Len(states) + 2]
  BY <1>4 DEF mapping
<1> QED
  BY <1>1, <1>2, <1>4, <1>5

LEMMA FlushedReads ==
  ASSUME StatesOK, states' = Flushed
  PROVE  /\ Len(states') = 1 /\ states'[1] = mapping /\ mapping' = mapping
         /\ Len(states) \in 1..Len(states)
<1>1. states' = <<mapping>>
  BY DEF Flushed
<1> HIDE DEF mapping
<1>2. Len(states') = 1 /\ states'[1] = mapping
  BY <1>1
<1>3. mapping' = states'[Len(states')]
  BY DEF mapping
<1> QED
  BY <1>2, <1>3, CurrentMapping

LEMMA SurvivorReads ==
  ASSUME StatesOK, states' \in Survivors
  PROVE  \E k \in 1..Len(states) :
           Len(states') = 1 /\ states'[1] = states[k] /\ mapping' = states[k]
<1>1. PICK k \in 1..Len(states) : states' = <<states[k]>>
  BY DEF Survivors
<1>2. Len(states') = 1 /\ states'[1] = states[k]
  BY <1>1
<1>3. mapping' = states'[Len(states')]
  BY DEF mapping
<1> QED
  BY <1>2, <1>3

LEMMA WhoRecords ==
  ASSUME TypeInv
  PROVE  /\ PublishOne =>
              /\ Head(pub.todo) \in Checkpoints /\ Head(pub.todo) \in 1..MaxCheckpoint
              /\ Len(commits) + 1 \in 1..MaxCommit
              /\ states' = Recorded(Head(pub.todo), Len(commits) + 1)
              /\ holder = "publish" /\ imp.step = "idle"
         /\ ImportMap =>
              /\ imp.cp \in Checkpoints /\ imp.cp \in 1..MaxCheckpoint
              /\ imp.commit \in Commits /\ imp.commit \in 1..MaxCommit
              /\ states' = Recorded(imp.cp, imp.commit)
              /\ holder = "import" /\ pub.step = "idle"
<1> USE DEF TypeInv
<1>1. ASSUME PublishOne
      PROVE  /\ Head(pub.todo) \in Checkpoints /\ Head(pub.todo) \in 1..MaxCheckpoint
             /\ Len(commits) + 1 \in 1..MaxCommit
             /\ states' = Recorded(Head(pub.todo), Len(commits) + 1)
             /\ holder = "publish" /\ imp.step = "idle"
  <2>1. Head(pub.todo) \in Checkpoints
    BY <1>1 DEF PublishOne, PubOK
  <2>2. Len(commits) < MaxCommit
    BY <1>1 DEF PublishOne, NewCommit
  <2>3. Head(pub.todo) \in 1..MaxCheckpoint /\ Len(commits) + 1 \in 1..MaxCommit
    BY <2>1, <2>2, JjRepoAssumption DEF JournalOK, GraphOK, Checkpoints
  <2>4. holder = "publish" /\ imp.step = "idle"
    BY <1>1 DEF PublishOne, PubOK, ImpOK
  <2> QED
    BY <1>1, <2>1, <2>3, <2>4 DEF PublishOne
<1>2. ASSUME ImportMap
      PROVE  /\ imp.cp \in Checkpoints /\ imp.cp \in 1..MaxCheckpoint
             /\ imp.commit \in Commits /\ imp.commit \in 1..MaxCommit
             /\ states' = Recorded(imp.cp, imp.commit)
             /\ holder = "import" /\ pub.step = "idle"
  <2>1. imp.cp \in Checkpoints /\ imp.commit \in Commits
    BY <1>2 DEF ImportMap, ImpOK, Checkpoints, Commits, JournalOK, GraphOK
  <2>2. imp.cp \in 1..MaxCheckpoint /\ imp.commit \in 1..MaxCommit
    BY <2>1, JjRepoAssumption DEF JournalOK, GraphOK, Checkpoints, Commits
  <2>3. holder = "import" /\ pub.step = "idle"
    BY <1>2 DEF ImportMap, PubOK, ImpOK
  <2> QED
    BY <1>2, <2>1, <2>2, <2>3 DEF ImportMap
<1> QED
  BY <1>1, <1>2

LEMMA AppendReads ==
  ASSUME NEW S, NEW s \in Seq(S), NEW e
  PROVE  Len(Append(s, e)) = Len(s) + 1 /\ Append(s, e)[Len(s) + 1] = e
<1>1. s \in Seq(S \cup {e}) /\ e \in S \cup {e}
  OBVIOUS
<1> QED
  BY <1>1

(* What each action that adds a checkpoint or a commit adds.               *)
LEMMA WhatIsAdded ==
  /\ LoopCheckpoint => \E new : cps' = Append(cps, new) /\ new.from = 0
                                /\ new.parent = Latest
  /\ ImportAppend => \E new : cps' = Append(cps, new) /\ new.from = imp.commit
                              /\ new.parent = imp.parent
  /\ OthersPush => \E new : commits' = Append(commits, new) /\ new.of = 0
                            /\ new.parent = remote
  /\ PublishOne => commits' = Append(commits, NextMade)
<1>1. ASSUME NEW p, NEW t, NEW d, NEW f, NEW g, Record(p, t, d, f, g)
      PROVE  \E new : cps' = Append(cps, new) /\ new.from = f /\ new.parent = p
  <2> DEFINE new == [parent |-> p, tree |-> t, touched |-> d, from |-> f, gap |-> g]
  <2>1. new.from = f /\ new.parent = p
    OBVIOUS
  <2>2. cps' = Append(cps, new)
    BY <1>1 DEF Record
  <2> HIDE DEF new
  <2> QED
    BY <2>1, <2>2
<1>2. ASSUME NEW p, NEW t, NEW i, NEW g, NewCommit(p, t, i, g)
      PROVE  \E new : commits' = Append(commits, new) /\ new.of = i /\ new.parent = p
  <2> DEFINE new == NewOf(p, t, i, g)
  <2>1. new.of = i /\ new.parent = p
    BY DEF NewOf
  <2>2. commits' = Append(commits, new)
    BY <1>2 DEF NewCommit
  <2> HIDE DEF new
  <2> QED
    BY <2>1, <2>2
<1>3. ASSUME LoopCheckpoint
      PROVE  \E new : cps' = Append(cps, new) /\ new.from = 0 /\ new.parent = Latest
  <2>1. \E p, g : Record(Latest, map', {p}, 0, g)
    BY <1>3, Zenon DEF LoopCheckpoint
  <2> QED
    BY <1>1, <2>1 DEF Record
<1>4. ASSUME ImportAppend
      PROVE  \E new : cps' = Append(cps, new) /\ new.from = imp.commit /\ new.parent = imp.parent
  <2>1. Record(imp.parent, commits[imp.commit].tree, {}, imp.commit, FALSE)
    BY <1>4, Zenon DEF ImportAppend
  <2> QED
    BY <1>1, <2>1 DEF Record
<1>5. ASSUME OthersPush
      PROVE  \E new : commits' = Append(commits, new) /\ new.of = 0 /\ new.parent = remote
  <2>1. \E t : NewCommit(remote, t, 0, FALSE)
    BY <1>5, Zenon DEF OthersPush
  <2> QED
    BY <1>2, <2>1, Zenon
<1>6. PublishOne => commits' = Append(commits, NextMade)
  BY DEF PublishOne, NewCommit, NextMade
<1> QED
  BY <1>3, <1>4, <1>5, <1>6

(* Nothing that was made of something else stops being so, and what is     *)
(* made is made of something new.                                          *)
LEMMA MadeStays ==
  ASSUME TypeInv, Next
  PROVE  /\ \A i, c : Made(i, c) => Made(i, c)'
         /\ \A i, c : Made(i, c)' /\ ~Made(i, c) =>
              \/ ImportAppend /\ i = Len(cps) + 1 /\ c = imp.commit
              \/ PublishOne /\ i = Head(pub.todo) /\ c = Len(commits) + 1
<1>1. CpsGrow /\ CommitsGrow /\ TypeInv'
  BY EachGrows, TypeStep
<1>2. /\ Checkpoints \subseteq Checkpoints' /\ \A i \in Checkpoints : cps'[i] = cps[i]
      /\ Commits \subseteq Commits' /\ \A c \in Commits : commits'[c] = commits[c]
      /\ Len(cps) \in Nat /\ Len(commits) \in Nat
      /\ Checkpoints = 1..Len(cps) /\ Checkpoints' = 1..Len(cps')
      /\ Commits = 1..Len(commits) /\ Commits' = 1..Len(commits')
  BY <1>1, WhatWasThere
<1>3. \A i, c : Made(i, c) => Made(i, c)'
  BY <1>2 DEF Made
<1>4. ASSUME NEW i, NEW c, Made(i, c)', ~Made(i, c)
      PROVE  \/ ImportAppend /\ i = Len(cps) + 1 /\ c = imp.commit
             \/ PublishOne /\ i = Head(pub.todo) /\ c = Len(commits) + 1
  <2>1. /\ i \in Checkpoints' /\ c \in Commits'
        /\ cps'[i].from = c \/ commits'[c].of = i
    BY <1>4 DEF Made
  <2>2. /\ \A j \in Checkpoints : cps[j].from \in 0..Len(commits)
        /\ \A d \in Commits : commits[d].of \in 0..Len(cps)
    BY DEF TypeInv, JournalOK, GraphOK
  <2>3. i \notin Checkpoints \/ c \notin Commits
    BY <1>2, <1>4, <2>1 DEF Made
  <2>4. CASE LoopCheckpoint \/ ImportAppend
    <3>1. commits' = commits
      BY <2>4 DEF LoopCheckpoint, ImportAppend
    <3>2. PICK new : /\ cps' = Append(cps, new)
                     /\ (LoopCheckpoint /\ new.from = 0) \/ (ImportAppend /\ new.from = imp.commit)
      BY <2>4, WhatIsAdded, Zenon
    <3>3. Len(cps') = Len(cps) + 1 /\ cps'[Len(cps) + 1] = new
      BY <3>2, AppendReads DEF TypeInv, JournalOK
    <3>4. i = Len(cps) + 1 /\ c \in Commits
      BY <1>2, <2>1, <2>3, <3>1, <3>3
    <3>5. cps'[i].from = c
      BY <1>2, <2>1, <2>2, <3>1, <3>4
    <3>6. new.from = c /\ c # 0
      BY <1>2, <3>3, <3>4, <3>5
    <3>7. ImportAppend /\ c = imp.commit
      BY <3>2, <3>6
    <3> QED
      BY <3>4, <3>7
  <2>5. CASE PublishOne \/ OthersPush
    <3>1. cps' = cps
      BY <2>5 DEF PublishOne, OthersPush, journalVars
    <3>2. PICK new : /\ commits' = Append(commits, new)
                     /\ (OthersPush /\ new.of = 0) \/ (PublishOne /\ new.of = Head(pub.todo))
      <4>1. NextMade.of = Head(pub.todo)
        BY DEF NextMade, NewOf
      <4> QED
        BY <2>5, <4>1, WhatIsAdded, Zenon
    <3>3. Len(commits') = Len(commits) + 1 /\ commits'[Len(commits) + 1] = new
      BY <3>2, AppendReads DEF TypeInv, GraphOK
    <3>4. c = Len(commits) + 1 /\ i \in Checkpoints
      BY <1>2, <2>1, <2>3, <3>1, <3>3
    <3>5. commits'[c].of = i
      BY <1>2, <2>1, <2>2, <3>1, <3>4
    <3>6. new.of = i /\ i # 0
      BY <1>2, <3>3, <3>4, <3>5
    <3>7. PublishOne /\ i = Head(pub.todo)
      BY <3>2, <3>6
    <3> QED
      BY <3>4, <3>7
  <2>6. CASE cps' = cps /\ commits' = commits
    BY <1>4, <2>6 DEF Made, Checkpoints, Commits
  <2>7. /\ cps' = cps \/ LoopCheckpoint \/ ImportAppend
        /\ commits' = commits \/ PublishOne \/ OthersPush
    BY CpsSteps, CommitsSteps DEF Collect
  <2> QED
    BY <2>4, <2>5, <2>6, <2>7
<1> QED
  BY <1>3, <1>4

(* What one step does to the mapping and to the commands that write it.    *)
Quiet ==
  /\ UNCHANGED <<cps, index, commits, lost>>
  /\ (states' = states /\ Session' = Session) \/ (states' = Flushed /\ Session' \subseteq Session)
  /\ imp'.step \in {"append", "map"} => imp' = imp \/ ImportBegin
  /\ imp.step = "map" => imp' = imp

ImportStops ==
  /\ imp.step # "idle" /\ imp' = NoImport /\ pub' = pub
  /\ LoseMapping(IF imp.cp # 0 THEN {imp.commit} ELSE {})
  /\ UNCHANGED <<cps, index, commits>>

LEMMA KnownSteps ==
  ASSUME TypeInv, Next
  PROVE  \/ Quiet
         \/ (LoopCheckpoint \/ OthersPush \/ Collect) /\ UNCHANGED <<pub, imp>>
         \/ PublishOne /\ imp' = imp
         \/ ImportAppend /\ pub' = pub
         \/ ImportMap /\ pub' = pub
         \/ PublishDies /\ imp' = imp
         \/ ImportStops
<1>1. /\ holder = "publish" <=> pub.step # "idle"
      /\ holder = "import" <=> imp.step # "idle"
      /\ pub.step \in {"idle", "convert", "flush", "bookmark", "pin"}
      /\ pub.step = "idle" => pub = NoPublish
      /\ imp.step = "idle" => imp = NoImport
      /\ imp.step \in {"idle", "append", "map", "flush", "pin"}
  BY DEF TypeInv, PubOK, ImpOK
<1>2. {NoPublish.made[k] : k \in DOMAIN NoPublish.made} = {} /\ NoPublish.step = "idle"
      /\ NoImport.step = "idle"
  BY DEF NoPublish, NoImport
<1>3. CASE PublishNext /\ UNCHANGED <<importVars, push>>
  <2> USE <1>3 DEF importVars
  <2>1. CASE \E s, e \in Checkpoints, compact, pin \in BOOLEAN : PublishBegin(s, e, compact, pin)
    <3>1. holder = "free" /\ pub'.made = <<>> /\ pub'.step = "convert"
      BY <2>1 DEF PublishBegin, TakeMapping
    <3>2. Session = {} /\ Session' = {}
      BY <1>1, <3>1 DEF Session
    <3> QED
      BY <2>1, <3>2 DEF PublishBegin, Quiet, journalVars
  <2>2. CASE PublishFlush \/ PublishBookmark
    <3>1. pub'.made = pub.made /\ pub.step # "idle" /\ pub'.step # "idle"
      BY <2>2 DEF PublishFlush, PublishBookmark, TypeInv, PubOK
    <3>2. Session' = Session
      BY <3>1 DEF Session
    <3> QED
      BY <2>2, <3>2 DEF PublishFlush, PublishBookmark, Quiet, journalVars, mapVars
  <2>3. CASE PublishPin \/ PublishFails
    <3>1. pub' = NoPublish /\ imp.step = "idle"
      BY <1>1, <2>3 DEF PublishPin, PublishFails
    <3>2. Session' = {}
      BY <1>2, <3>1 DEF Session
    <3> QED
      BY <2>3, <3>2 DEF PublishPin, PublishFails, DropMapping, Quiet, journalVars
  <2> QED
    BY <1>3, <2>1, <2>2, <2>3 DEF PublishNext
<1>4. CASE ImportNext /\ UNCHANGED <<pub, push>>
  <2> USE <1>4
  <2>1. CASE PullBegin \/ PullGivesUp \/ PullSynced \/ DaemonStarts
    <3>1. imp' = imp
      BY <2>1 DEF PullBegin, PullGivesUp, PullSynced, DaemonStarts, importVars
    <3>2. Session' = Session
      BY <3>1 DEF Session
    <3> QED
      BY <2>1, <3>1, <3>2 DEF PullBegin, PullGivesUp, PullSynced, DaemonStarts, Quiet,
        journalVars, mapVars, repoVars
  <2>2. CASE ImportBegin
    <3>1. imp.step = "idle" /\ imp'.step \in {"idle", "append"}
      <4>1. holder = "free" /\ (imp' = imp \/ imp'.step = "append")
        BY <2>2 DEF ImportBegin
      <4> QED
        BY <1>1, <4>1
    <3>2. Session' = Session
      BY <3>1 DEF Session
    <3> QED
      BY <2>2, <3>1, <3>2 DEF ImportBegin, Quiet, journalVars
  <2>3. CASE ImportFlush
    <3>1. imp.step = "flush" /\ imp'.step = "pin" /\ imp'.commit = imp.commit
      BY <2>3 DEF ImportFlush, TypeInv, ImpOK
    <3>2. Session' = Session
      BY <3>1 DEF Session
    <3> QED
      BY <2>3, <3>1, <3>2 DEF ImportFlush, Quiet, journalVars
  <2>4. CASE ImportPin
    <3>1. imp' = NoImport /\ pub.step = "idle"
      BY <1>1, <2>4 DEF ImportPin
    <3>2. Session' = {}
      BY <1>2, <3>1 DEF Session
    <3> QED
      BY <1>2, <2>4, <3>1, <3>2 DEF ImportPin, DropMapping, Quiet
  <2>5. CASE DaemonDies \/ PullDies
    <3>1. CASE UNCHANGED <<imp, mapVars>>
      <4>1. Session' = Session
        BY <3>1 DEF Session
      <4> QED
        BY <2>5, <3>1, <4>1 DEF DaemonDies, PullDies, Quiet, journalVars, mapVars
    <3>2. CASE ImportLeaves /\ imp.step = "idle"
      <4>1. imp' = imp /\ UNCHANGED mapVars
        BY <1>1, <3>2 DEF ImportLeaves
      <4> QED
        BY <3>1, <4>1
    <3>3. CASE ImportLeaves /\ imp.step # "idle"
      BY <2>5, <3>3 DEF ImportLeaves, ImportStops, DaemonDies, PullDies, journalVars
    <3> QED
      BY <2>5, <3>1, <3>2, <3>3 DEF DaemonDies, PullDies
  <2> QED
    BY <2>1, <2>2, <2>3, <2>4, <2>5 DEF ImportNext
<1>5. ASSUME UNCHANGED <<cps, index, commits, mapVars, pub, imp>>
      PROVE  Quiet
  <2>1. Session' = Session
    BY <1>5 DEF Session
  <2> QED
    BY <1>5, <2>1 DEF Quiet, mapVars
<1>6. CASE PushNext /\ UNCHANGED <<pub, importVars>>
  BY <1>5, <1>6 DEF PushNext, PushHead, PushHeadSend, PushFetch, PushSend, PushRecord, PushDies,
    journalVars, importVars
<1>7. CASE (RebuildMap \/ DeleteBranch \/ \E i \in Checkpoints : CreateBranch(i))
             /\ UNCHANGED <<pub, importVars, push>>
  BY <1>5, <1>7 DEF RebuildMap, DeleteBranch, CreateBranch, journalVars, importVars
<1>8. UNCHANGED <<pub, importVars, push>> => UNCHANGED <<pub, imp>>
  BY DEF importVars
<1> QED
  BY <1>3, <1>4, <1>6, <1>7, <1>8 DEF Next

LEMMA KnownStays ==
  ASSUME TypeInv, KnownInv, Next
  PROVE  KnownInv'
<1>1. /\ StatesOK /\ mapping \in Mapping /\ Len(states) \in 1..Len(states)
      /\ \A k \in 1..Len(states) : states[k] \in Mapping
      /\ \A c \in Commits : c \in 1..MaxCommit
      /\ index \subseteq Checkpoints /\ Checkpoints = 1..Len(cps) /\ Commits = 1..Len(commits)
      /\ Len(cps) \in Nat /\ Len(commits) \in Nat /\ Len(states) \in Nat
      /\ mapping = states[Len(states)]
  BY CurrentMapping, JjRepoAssumption
  DEF TypeInv, StatesOK, JournalOK, GraphOK, Checkpoints, Commits, mapping
<1>2. /\ \A i, c : Made(i, c) => Made(i, c)'
      /\ \A i, c : Made(i, c)' /\ ~Made(i, c) =>
           \/ ImportAppend /\ i = Len(cps) + 1 /\ c = imp.commit
           \/ PublishOne /\ i = Head(pub.todo) /\ c = Len(commits) + 1
  BY MadeStays
<1>3. \A c \in 1..MaxCommit : mapping.rev[c] \in 0..Len(cps)
  BY <1>1 DEF Mapping
<1>4. /\ KeysMade /\ OnlySession /\ StillUnknown /\ KeyOfEach
  BY DEF KnownInv
<1>5. /\ holder = "publish" <=> pub.step # "idle"
      /\ holder = "import" <=> imp.step # "idle"
      /\ imp.step \in {"map", "flush", "pin"} => imp.cp # 0
      /\ imp.step # "idle" => imp.commit \in Commits
  BY <1>1 DEF TypeInv, PubOK, ImpOK
<1>6. CASE Quiet
  <2>1. mapping' = mapping
    BY <1>1, <1>6, FlushedReads DEF Quiet, mapping
  <2>2. KeysMade'
    <3>1. \A k \in 1..Len(states') : \E j \in 1..Len(states) : states'[k] = states[j]
      BY <1>1, <1>6, FlushedReads DEF Quiet
    <3> QED
      BY <1>2, <1>4, <3>1 DEF KeysMade
  <2>3. OnlySession'
    <3>1. CASE states' = states /\ Session' = Session
      BY <1>4, <2>1, <3>1 DEF OnlySession
    <3>2. CASE states' = Flushed
      <4>1. Len(states') = 1 /\ states'[1] = mapping'
        BY <1>1, <2>1, <3>2, FlushedReads
      <4>2. \A k \in 1..Len(states') : k = 1
        BY <4>1
      <4> QED
        BY <4>1, <4>2, Zenon DEF OnlySession
    <3> QED
      BY <1>6, <3>1, <3>2 DEF Quiet
  <2>4. StillUnknown'
    <3>1. CASE ImportBegin /\ imp'.step \in {"append", "map"}
      <4>1. ~Known(imp'.commit)
        <5>1. holder = "free" /\ imp.step = "idle" /\ NoImport.step = "idle"
          BY <1>5, <3>1 DEF ImportBegin, NoImport
        <5>2. imp' # imp
          BY <3>1, <5>1
        <5> QED
          BY <3>1, <5>2 DEF ImportBegin
      <4> QED
        BY <1>6, <2>1, <4>1 DEF Quiet, StillUnknown, Known
    <3>2. CASE imp' = imp
      BY <1>4, <1>6, <2>1, <3>2 DEF Quiet, StillUnknown
    <3> QED
      BY <1>6, <3>1, <3>2 DEF Quiet, StillUnknown
  <2>5. KeyOfEach'
    <3> SUFFICES ASSUME NEW c \in Commits' \ lost', NEW i \in index', Made(i, c)'
                 PROVE  mapping'.rev[c] = i \/ Unmapped(i, c)'
      BY DEF KeyOfEach
    <3>1. c \in Commits \ lost /\ i \in index /\ Made(i, c)
      BY <1>6 DEF Quiet, Made, Checkpoints, Commits
    <3>2. mapping.rev[c] = i \/ Unmapped(i, c)
      BY <1>4, <3>1 DEF KeyOfEach
    <3> QED
      BY <1>6, <2>1, <3>2 DEF Quiet, Unmapped
  <2> QED
    BY <2>2, <2>3, <2>4, <2>5 DEF KnownInv
<1>7. CASE (LoopCheckpoint \/ OthersPush \/ Collect) /\ UNCHANGED <<pub, imp>>
  <2>1. UNCHANGED <<states, lost, pub, imp>>
    BY <1>7 DEF LoopCheckpoint, OthersPush, Collect, mapVars
  <2>2. mapping' = mapping /\ Session' = Session
    BY <2>1 DEF mapping, Session
  <2>3. ~ImportAppend /\ ~PublishOne
    <3>1. ~ImportAppend
      <4>1. ImportAppend => imp.step = "append" /\ imp'.step = "map"
        BY DEF ImportAppend, TypeInv, ImpOK
      <4> QED
        BY <2>1, <4>1
    <3>2. ~PublishOne
      <4>1. pub.made \in Seq(Commits)
        BY DEF TypeInv, PubOK
      <4>2. Len(Append(pub.made, Len(commits) + 1)) = Len(pub.made) + 1
        BY <4>1, AppendReads
      <4>3. Len(pub.made) # Len(pub.made) + 1
        BY <4>1
      <4>4. PublishOne => pub'.made = Append(pub.made, Len(commits) + 1)
        BY DEF PublishOne, TypeInv, PubOK
      <4> QED
        BY <2>1, <4>2, <4>3, <4>4
    <3> QED
      BY <3>1, <3>2
  <2>4. index' \subseteq index \cup {Len(cps) + 1}
    BY <1>7 DEF LoopCheckpoint, OthersPush, Collect, Record, journalVars
  <2>5. KeysMade'
    BY <1>2, <1>4, <2>1 DEF KeysMade
  <2>6. OnlySession'
    BY <1>4, <2>1, <2>2 DEF OnlySession
  <2>7. StillUnknown'
    BY <1>1, <1>3, <1>4, <1>5, <2>1, <2>2, <2>4 DEF StillUnknown
  <2>8. KeyOfEach'
    <3> SUFFICES ASSUME NEW c \in Commits' \ lost', NEW i \in index', Made(i, c)'
                 PROVE  mapping'.rev[c] = i \/ Unmapped(i, c)'
      BY DEF KeyOfEach
    <3>1. Made(i, c)
      BY <1>2, <2>3
    <3>2. c \in Commits \ lost /\ i \in index
      <4>1. i \in Checkpoints /\ i # Len(cps) + 1 /\ c \in Commits
        BY <1>1, <3>1 DEF Made
      <4> QED
        BY <2>1, <2>4, <4>1
    <3>3. mapping.rev[c] = i \/ Unmapped(i, c)
      BY <1>4, <3>1, <3>2 DEF KeyOfEach
    <3> QED
      BY <2>1, <2>2, <3>3 DEF Unmapped
  <2> QED
    BY <2>5, <2>6, <2>7, <2>8 DEF KnownInv
<1>8. CASE PublishOne /\ imp' = imp
  <2>1. PICK h, new :
          /\ h = Head(pub.todo) /\ new = Len(commits) + 1
          /\ h \in Checkpoints /\ h \in 1..MaxCheckpoint /\ new \in 1..MaxCommit
          /\ states' = Recorded(h, new) /\ imp.step = "idle"
    BY <1>8, WhoRecords
  <2>2. /\ Len(states') = Len(states) + 2
        /\ \A k \in 1..Len(states) : states'[k] = states[k]
        /\ states'[Len(states) + 1].rev = mapping.rev
        /\ mapping' = states'[Len(states) + 2]
        /\ mapping'.rev = [mapping.rev EXCEPT ![new] = h]
    BY <1>1, <2>1, RecordedReads
  <2>3. UNCHANGED <<cps, index, lost>>
    BY <1>8 DEF PublishOne, journalVars
  <2>4. Made(h, new)' /\ new \notin Commits /\ commits'[new].of = h
        /\ \A i : Made(i, new)' => i = h
    <3>1. commits' = Append(commits, NextMade) /\ NextMade.of = h
      BY <1>8, <2>1, WhatIsAdded DEF NextMade, NewOf
    <3>2. Len(commits') = new /\ commits'[new] = NextMade
      BY <2>1, <3>1, AppendReads DEF TypeInv, GraphOK
    <3>3. new \in Commits' /\ h \in Checkpoints' /\ new \notin Commits
      BY <1>1, <2>1, <2>3, <3>2 DEF Commits, Checkpoints
    <3>4. \A i \in Checkpoints' : cps'[i].from # new
      BY <1>1, <2>1, <2>3 DEF TypeInv, JournalOK, Checkpoints
    <3>5. commits'[new].of = h
      BY <3>1, <3>2
    <3> QED
      BY <3>3, <3>4, <3>5 DEF Made
  <2>5. Session' = Session \cup {new}
    <3>1. pub.step # "idle" /\ pub'.step # "idle" /\ pub'.made = Append(pub.made, new)
      BY <1>8, <2>1 DEF PublishOne, TypeInv, PubOK
    <3>2. pub.made \in Seq(Nat) /\ new \in Nat
      BY <1>1, <2>1 DEF TypeInv, PubOK
    <3>3. /\ DOMAIN Append(pub.made, new) = 1..(Len(pub.made) + 1)
          /\ DOMAIN pub.made = 1..Len(pub.made) /\ Len(pub.made) \in Nat
          /\ Append(pub.made, new)[Len(pub.made) + 1] = new
          /\ \A k \in 1..Len(pub.made) : Append(pub.made, new)[k] = pub.made[k]
      BY <3>2
    <3> QED
      BY <3>1, <3>3 DEF Session
  <2>6. \A c \in 1..MaxCommit : mapping'.rev[c] = IF c = new THEN h ELSE mapping.rev[c]
    BY <1>1, <2>1, <2>2 DEF Mapping
  <2>7. \A k \in 1..Len(states') : k \in 1..Len(states) \/ k = Len(states) + 1
                                   \/ k = Len(states) + 2
    BY <1>1, <2>2
  <2>8. KeysMade'
    <3> SUFFICES ASSUME NEW k \in 1..Len(states'), NEW c \in 1..MaxCommit,
                        states'[k].rev[c] # 0
                 PROVE  Made(states[k].rev[c], c)'
      BY DEF KeysMade
    <3>1. \/ states'[k].rev[c] = h /\ c = new
          \/ \E j \in 1..Len(states) : states'[k].rev[c] = states[j].rev[c]
      BY <1>1, <2>2, <2>6, <2>7
    <3> QED
      BY <1>2, <1>4, <2>4, <3>1 DEF KeysMade
  <2>9. OnlySession'
    <3> SUFFICES ASSUME NEW k \in 1..Len(states'), NEW c \in 1..MaxCommit, c \notin Session'
                 PROVE  states'[k].rev[c] = mapping'.rev[c]
      BY DEF OnlySession
    <3>1. c \notin Session /\ c # new /\ mapping'.rev[c] = mapping.rev[c]
      BY <2>5, <2>6
    <3>2. \A j \in 1..Len(states) : states[j].rev[c] = mapping.rev[c]
      BY <1>4, <3>1 DEF OnlySession
    <3> QED
      BY <2>2, <2>7, <3>1, <3>2
  <2>10. StillUnknown'
    BY <1>8, <2>1 DEF StillUnknown
  <2>11. KeyOfEach'
    <3> SUFFICES ASSUME NEW c \in Commits' \ lost', NEW i \in index', Made(i, c)'
                 PROVE  mapping'.rev[c] = i
      BY DEF KeyOfEach
    <3>1. CASE c = new
      <4>1. i = h
        BY <2>4, <3>1
      <4> QED
        BY <2>1, <2>6, <3>1, <4>1
    <3>2. CASE c # new
      <4>1. Made(i, c)
        <5>1. ~ImportAppend
          BY <2>1 DEF ImportAppend
        <5> QED
          BY <1>2, <2>1, <3>2, <5>1
      <4>2. c \in Commits \ lost /\ i \in index /\ c \in 1..MaxCommit
        BY <1>1, <2>3, <4>1 DEF Made
      <4>3. mapping.rev[c] = i
        BY <1>4, <2>1, <4>1, <4>2 DEF KeyOfEach, Unmapped
      <4> QED
        BY <2>6, <3>2, <4>2, <4>3
    <3> QED
      BY <3>1, <3>2
  <2> QED
    BY <2>8, <2>9, <2>10, <2>11 DEF KnownInv
<1>9. CASE ImportAppend /\ pub' = pub
  <2>1. /\ UNCHANGED <<states, lost, commits>> /\ index' = index \cup {Len(cps) + 1}
        /\ imp.step = "append" /\ imp'.step = "map" /\ imp'.commit = imp.commit
        /\ imp'.cp = Len(cps) + 1
    BY <1>9 DEF ImportAppend, Record, mapVars, TypeInv, ImpOK
  <2>2. mapping' = mapping /\ Session' = Session
    BY <1>9, <2>1 DEF mapping, Session
  <2>3. KeysMade' /\ OnlySession'
    BY <1>2, <1>4, <2>1, <2>2 DEF KeysMade, OnlySession
  <2>4. StillUnknown'
    BY <1>1, <1>3, <1>4, <1>5, <2>1, <2>2 DEF StillUnknown
  <2>5. KeyOfEach'
    <3> SUFFICES ASSUME NEW c \in Commits' \ lost', NEW i \in index', Made(i, c)'
                 PROVE  mapping'.rev[c] = i \/ Unmapped(i, c)'
      BY DEF KeyOfEach
    <3>1. CASE Made(i, c)
      <4>1. c \in Commits \ lost /\ i \in index
        BY <1>1, <2>1, <3>1 DEF Made
      <4>2. mapping.rev[c] = i
        BY <1>4, <2>1, <3>1, <4>1 DEF KeyOfEach, Unmapped
      <4> QED
        BY <2>2, <4>2
    <3>2. CASE ~Made(i, c)
      <4>1. i = Len(cps) + 1 /\ c = imp.commit
        <5>1. ~PublishOne
          BY <2>1, WhoRecords
        <5> QED
          BY <1>2, <2>1, <3>2, <5>1
      <4> QED
        BY <2>1, <4>1 DEF Unmapped
    <3> QED
      BY <3>1, <3>2
  <2> QED
    BY <2>3, <2>4, <2>5 DEF KnownInv
<1>10. CASE ImportMap /\ pub' = pub
  <2>1. PICK h, c0 :
          /\ h = imp.cp /\ c0 = imp.commit
          /\ h \in Checkpoints /\ h \in 1..MaxCheckpoint /\ c0 \in 1..MaxCommit /\ c0 \in Commits
          /\ states' = Recorded(h, c0) /\ pub.step = "idle"
    BY <1>10, WhoRecords
  <2>2. /\ Len(states') = Len(states) + 2
        /\ \A k \in 1..Len(states) : states'[k] = states[k]
        /\ states'[Len(states) + 1].rev = mapping.rev
        /\ mapping' = states'[Len(states) + 2]
        /\ mapping'.rev = [mapping.rev EXCEPT ![c0] = h]
    BY <1>1, <2>1, RecordedReads
  <2>3. UNCHANGED <<cps, index, lost, commits>>
    BY <1>10 DEF ImportMap, journalVars
  <2>4. /\ imp.step = "map" /\ imp'.step \in {"flush", "pin"} /\ imp'.commit = c0
    BY <1>10, <2>1 DEF ImportMap, TypeInv, ImpOK
  <2>5. \A i, c : Made(i, c)' <=> Made(i, c)
    BY <2>3 DEF Made, Checkpoints, Commits
  <2>6. Made(h, c0)
    BY <2>1, <2>4 DEF Made, TypeInv, ImpOK
  <2>7. Session = {} /\ Session' = {c0}
    BY <1>10, <2>1, <2>4 DEF Session
  <2>8. \A c \in 1..MaxCommit : mapping'.rev[c] = IF c = c0 THEN h ELSE mapping.rev[c]
    BY <1>1, <2>1, <2>2 DEF Mapping
  <2>9. \A k \in 1..Len(states') : k \in 1..Len(states) \/ k = Len(states) + 1
                                   \/ k = Len(states) + 2
    BY <1>1, <2>2
  <2>10. KeysMade'
    <3> SUFFICES ASSUME NEW k \in 1..Len(states'), NEW c \in 1..MaxCommit,
                        states'[k].rev[c] # 0
                 PROVE  Made(states[k].rev[c], c)'
      BY DEF KeysMade
    <3>1. \/ states'[k].rev[c] = h /\ c = c0
          \/ \E j \in 1..Len(states) : states'[k].rev[c] = states[j].rev[c]
      BY <1>1, <2>2, <2>8, <2>9
    <3> QED
      BY <1>4, <2>5, <2>6, <3>1 DEF KeysMade
  <2>11. OnlySession'
    <3> SUFFICES ASSUME NEW k \in 1..Len(states'), NEW c \in 1..MaxCommit, c \notin Session'
                 PROVE  states'[k].rev[c] = mapping'.rev[c]
      BY DEF OnlySession
    <3>1. c \notin Session /\ c # c0 /\ mapping'.rev[c] = mapping.rev[c]
      BY <2>7, <2>8
    <3>2. \A j \in 1..Len(states) : states[j].rev[c] = mapping.rev[c]
      BY <1>4, <3>1 DEF OnlySession
    <3> QED
      BY <2>2, <2>9, <3>1, <3>2
  <2>12. StillUnknown'
    BY <2>4 DEF StillUnknown
  <2>13. KeyOfEach'
    <3> SUFFICES ASSUME NEW c \in Commits \ lost, NEW i \in index, Made(i, c)
                 PROVE  mapping'.rev[c] = i
      BY <2>3, <2>5 DEF KeyOfEach, Commits
    <3>1. mapping.rev[c] = i \/ (h = i /\ c0 = c)
      BY <1>4, <2>1 DEF KeyOfEach, Unmapped
    <3>2. c = c0 => mapping.rev[c] # i
      BY <1>4, <2>1, <2>4 DEF StillUnknown
    <3> QED
      BY <1>1, <2>8, <3>1, <3>2
  <2> QED
    BY <2>10, <2>11, <2>12, <2>13 DEF KnownInv
<1>11. CASE (PublishDies /\ imp' = imp) \/ ImportStops
  <2>1. PICK new : LoseMapping(new) /\ Session \subseteq new
                   /\ (imp.step = "map" => imp.commit \in new)
    <3>1. CASE PublishDies
      <4>1. imp.step # "map" /\ pub.step # "idle"
        BY <1>5, <3>1 DEF PublishDies
      <4> QED
        BY <3>1, <4>1 DEF PublishDies, Session
    <3>2. CASE ImportStops
      <4>1. pub.step = "idle"
        BY <1>5, <3>2 DEF ImportStops
      <4>2. LoseMapping(IF imp.cp # 0 THEN {imp.commit} ELSE {})
        BY <3>2 DEF ImportStops
      <4>3. Session \subseteq IF imp.cp # 0 THEN {imp.commit} ELSE {}
        BY <1>5, <4>1 DEF Session
      <4> QED
        BY <1>5, <4>2, <4>3
    <3> QED
      BY <1>11, <3>1, <3>2
  <2>2. UNCHANGED <<cps, index, commits>> /\ imp'.step = "idle"
    <3>1. NoImport.step = "idle"
      BY DEF NoImport
    <3> QED
      BY <1>5, <1>11, <3>1 DEF PublishDies, ImportStops, journalVars
  <2>3. PICK k \in 1..Len(states) :
          Len(states') = 1 /\ states'[1] = states[k] /\ mapping' = states[k]
    BY <1>1, <2>1, SurvivorReads DEF LoseMapping
  <2>4. \A i, c : Made(i, c)' <=> Made(i, c)
    BY <2>2 DEF Made, Checkpoints, Commits
  <2>5. KeysMade'
    BY <1>4, <2>3, <2>4 DEF KeysMade
  <2>6. OnlySession'
    BY <2>3 DEF OnlySession
  <2>7. StillUnknown'
    BY <2>2 DEF StillUnknown
  <2>8. KeyOfEach'
    <3> SUFFICES ASSUME NEW c \in Commits \ lost', NEW i \in index, Made(i, c)
                 PROVE  states[k].rev[c] = i
      BY <2>2, <2>3, <2>4 DEF KeyOfEach, Commits
    <3>1. c \in Commits \ lost /\ c \in 1..MaxCommit
          /\ (c \in new => states[k].rev[c] \in index)
      BY <1>1, <2>1, <2>2, <2>3 DEF LoseMapping
    <3>2. mapping.rev[c] = i \/ Unmapped(i, c)
      BY <1>4, <3>1 DEF KeyOfEach
    <3>3. CASE c \in Session
      <4>1. states[k].rev[c] \in index /\ states[k].rev[c] # 0
        BY <1>1, <2>1, <3>1, <3>3
      <4>2. Made(states[k].rev[c], c)
        BY <1>4, <3>1, <4>1 DEF KeysMade
      <4>3. imp.step # "map"
        BY <1>5, <3>3 DEF Session
      <4>4. mapping.rev[c] = states[k].rev[c]
        BY <1>4, <3>1, <4>1, <4>2, <4>3 DEF KeyOfEach, Unmapped
      <4> QED
        BY <3>2, <4>3, <4>4 DEF Unmapped
    <3>4. CASE c \notin Session
      <4>1. states[k].rev[c] = mapping.rev[c]
        BY <1>4, <3>1, <3>4 DEF OnlySession
      <4>2. ~Unmapped(i, c)
        BY <1>4, <2>1, <3>1, <4>1 DEF Unmapped, StillUnknown
      <4> QED
        BY <3>2, <4>1, <4>2
    <3> QED
      BY <3>3, <3>4
  <2> QED
    BY <2>5, <2>6, <2>7, <2>8 DEF KnownInv
<1> QED
  BY <1>6, <1>7, <1>8, <1>9, <1>10, <1>11, KnownSteps

LEMMA KnownInit == Init => KnownInv
<1> SUFFICES ASSUME Init PROVE KnownInv
  OBVIOUS
<1>1. /\ states = <<NoMapping>> /\ pub = NoPublish /\ imp = NoImport
      /\ \A i \in Checkpoints : cps[i].from = 0
      /\ \A c \in Commits : commits[c].of = 0
  <2>1. states = <<NoMapping>> /\ pub = NoPublish /\ imp = NoImport
    BY DEF Init, RepoInit, PublishInit, ImportInit
  <2>2. \A i \in Checkpoints : cps[i].from = 0
    BY ShapeOfInit DEF InitShape, Checkpoints
  <2>3. \A c \in Commits : commits[c].of = 0
    BY ShapeOfInit DEF InitShape, Commits
  <2> QED
    BY <2>1, <2>2, <2>3
<1>2. Len(states) = 1 /\ states[1] = mapping /\ mapping = NoMapping
  BY <1>1 DEF mapping
<1>3. KeysMade
  <2>1. \A k \in 1..Len(states) : k = 1
    BY <1>2
  <2>2. \A c \in 1..MaxCommit : states[1].rev[c] = 0
    BY <1>2 DEF NoMapping
  <2> QED
    BY <2>1, <2>2 DEF KeysMade
<1>4. OnlySession
  BY <1>2 DEF OnlySession
<1>5. StillUnknown
  BY <1>1 DEF StillUnknown, NoImport
<1>6. KeyOfEach
  <2>1. \A i, c : ~Made(i, c)
    BY <1>1 DEF Made, Checkpoints, Commits
  <2> QED
    BY <2>1 DEF KeyOfEach
<1> QED
  BY <1>3, <1>4, <1>5, <1>6 DEF KnownInv

(* No commit of the remote has two checkpoints in the journal, however     *)
(* often it is pulled, asked for again, or published first, and whatever   *)
(* prefix of its writes a death leaves of the mapping: what was imported   *)
(* is recognised by its reverse key, unless a death has lost that.         *)
THEOREM ImportsAreIdempotent == Spec => []OneCheckpointPerCommit
<1>1. TypeInv /\ KnownInv /\ [Next]_vars => KnownInv'
  <2> SUFFICES ASSUME TypeInv, KnownInv, [Next]_vars PROVE KnownInv'
    OBVIOUS
  <2>1. CASE Next
    BY <2>1, KnownStays
  <2>2. CASE UNCHANGED vars
    <3>1. UNCHANGED <<cps, index, states, commits, lost, pub, imp>>
      BY <2>2 DEF vars, repoVars, journalVars, mapVars, importVars
    <3>2. mapping' = mapping /\ Session' = Session
      BY <3>1 DEF mapping, Session
    <3>3. \A i, c : (Made(i, c)' <=> Made(i, c)) /\ (Unmapped(i, c)' <=> Unmapped(i, c))
      BY <3>1 DEF Made, Unmapped, Checkpoints, Commits
    <3> QED
      BY <3>1, <3>2, <3>3
      DEF KnownInv, KeysMade, OnlySession, StillUnknown, KeyOfEach, Commits
  <2> QED
    BY <2>1, <2>2
<1>2. Spec => [](TypeInv /\ KnownInv)
  BY TypeInit, TypeStep, KnownInit, <1>1, PTL DEF Spec
<1> QED
  BY <1>2, KnownImplies, PTL

-----------------------------------------------------------------------------
(* Every checkpoint of which a commit at or under c was made has a key.    *)
Safe(fwd, c) == \A d \in Ancestors[c] : commits[d].of # 0 => fwd[commits[d].of] # 0

KeysLast ==
  \A k \in 1..Len(states), i \in 1..MaxCheckpoint :
    states[1].fwd[i] # 0 => states[k].fwd[i] # 0
KeysSafe ==
  \A k \in 1..Len(states), i \in 1..MaxCheckpoint :
    states[k].fwd[i] # 0 => Safe(states[k].fwd, states[k].fwd[i])
KeysPair ==
  \A k \in 1..Len(states), c \in 1..MaxCommit :
    states[k].rev[c] # 0 => states[k].fwd[states[k].rev[c]] # 0
(* What leads to commits: each may become the bookmark, be pushed, or be   *)
(* imported.                                                               *)
Refs == {bookmark, remote, push.target, pull.commit, imp.commit}
RefsSafe == \A c \in Refs : Safe(states[1].fwd, c)
BatchSafe == \A k \in DOMAIN pub.made : Safe(mapping.fwd, pub.made[k])

SafeInv == KeysLast /\ KeysSafe /\ KeysPair /\ RefsSafe /\ BatchSafe

LEMMA SafeImplies ==
  ASSUME TypeInv, SafeInv
  PROVE  MappingSafe
<1>1. BookmarkedIsMapped
  BY DEF SafeInv, RefsSafe, Refs, Safe, BookmarkedIsMapped
<1>2. \A c \in Commits : c \in 1..MaxCommit
  BY JjRepoAssumption DEF TypeInv, GraphOK, Commits
<1> QED
  BY <1>1, <1>2 DEF SafeInv, KeysPair, BothWays, MappingSafe

(* Safe, of the commits as they are after a step.                          *)
SafeThen(fwd, c) == \A d \in Ancestors'[c] : commits'[d].of # 0 => fwd[commits'[d].of] # 0

Extends(new, old) == \A i \in 1..MaxCheckpoint : old[i] # 0 => new[i] # 0

LEMMA SafeGrows ==
  ASSUME TypeInv, Next
  PROVE  \A c \in 0..Len(commits) : \A old, new :
           Safe(old, c) /\ Extends(new, old) => SafeThen(new, c)
<1>1. GraphOK /\ GraphOK'
  BY GraphStays DEF TypeInv
<1>2. \A c \in Commits : commits'[c] = commits[c]
  BY EachGrows, WhatWasThere
<1>3. \A c \in 0..Len(commits) : Ancestors'[c] = Ancestors[c] /\ Ancestors[c] \subseteq Commits
  BY <1>1, AncestorsStay, AncestorsUnfold
<1>4. \A d \in Commits : commits[d].of # 0 => commits[d].of \in 1..MaxCheckpoint
  BY JjRepoAssumption DEF TypeInv, GraphOK, JournalOK
<1> QED
  BY <1>2, <1>3, <1>4 DEF Safe, SafeThen, Extends

(* A commit that is made of i upon c is safe if c is, and i has a key.     *)
LEMMA SafeUpon ==
  ASSUME TypeInv, Next, NEW new, commits' = Append(commits, new),
         new.parent \in 0..Len(commits), NEW fwd, SafeThen(fwd, new.parent),
         new.of # 0 => fwd[new.of] # 0
  PROVE  SafeThen(fwd, Len(commits) + 1)
<1>1. GraphOK'
  BY GraphStays
<1>2. Len(commits') = Len(commits) + 1 /\ commits'[Len(commits) + 1] = new
  BY AppendReads DEF TypeInv, GraphOK
<1>3. Len(commits) + 1 \in Commits'
  BY <1>2 DEF Commits, TypeInv, GraphOK
<1>4. Ancestors'[Len(commits) + 1] = {Len(commits) + 1} \cup Ancestors'[new.parent]
  BY <1>1, <1>2, <1>3, AncestorsUnfoldNext
<1> QED
  BY <1>2, <1>4 DEF SafeThen

LEMMA NothingIsSafe ==
  ASSUME TypeInv
  PROVE  /\ \A fwd : Safe(fwd, 0)
         /\ seed.commit # 0 => \A fwd : Safe(fwd, seed.commit)
<1>1. Ancestors[0] = {} /\ (seed.commit # 0 => Ancestors[seed.commit] = {seed.commit})
  <2>1. seed.commit # 0 => seed.commit \in Commits
    BY DEF TypeInv, GraphOK, Commits
  <2> QED
    BY <2>1, AncestorsUnfold DEF TypeInv, GraphOK
<1> QED
  BY <1>1 DEF Safe, TypeInv, GraphOK

LEMMA StatesMove ==
  ASSUME TypeInv, Next
  PROVE  \/ states' = states
         \/ states' = Flushed
         \/ states' \in Survivors
         \/ PublishOne \/ ImportMap
<1>1. CASE UNCHANGED mapVars
  BY <1>1 DEF mapVars
<1>2. CASE \E s, e \in Checkpoints, compact, pin \in BOOLEAN : PublishBegin(s, e, compact, pin)
  BY <1>2 DEF PublishBegin
<1>3. CASE PublishFlush \/ PublishPin \/ PublishFails \/ PublishDies
  BY <1>3 DEF PublishFlush, PublishPin, PublishFails, PublishDies, DropMapping, LoseMapping
<1>4. CASE ImportBegin \/ ImportFlush \/ ImportPin
  BY <1>4 DEF ImportBegin, ImportFlush, ImportPin, DropMapping
<1>5. CASE DaemonDies \/ PullDies
  BY <1>5 DEF DaemonDies, PullDies, ImportLeaves, LoseMapping, mapVars
<1> QED
  BY <1>1, <1>2, <1>3, <1>4, <1>5, MappingSteps

LEMMA KeysShape ==
  ASSUME TypeInv
  PROVE  /\ StatesOK /\ mapping = states[Len(states)] /\ Len(states) \in 1..Len(states)
         /\ 1 \in 1..Len(states) /\ Len(states) \in Nat
         /\ \A k \in 1..Len(states) :
              /\ states[k].fwd \in [1..MaxCheckpoint -> 0..Len(commits)]
              /\ states[k].rev \in [1..MaxCommit -> 0..Len(cps)]
         /\ \A i \in Checkpoints : i \in 1..MaxCheckpoint
         /\ \A c \in Commits : c \in 1..MaxCommit /\ c # 0
         /\ mapping.fwd \in [1..MaxCheckpoint -> 0..Len(commits)]
         /\ mapping.rev \in [1..MaxCommit -> 0..Len(cps)]
<1>1. \A k \in 1..Len(states) : states[k] \in Mapping
  BY DEF TypeInv, StatesOK
<1>2. /\ StatesOK /\ mapping = states[Len(states)] /\ Len(states) \in 1..Len(states)
      /\ 1 \in 1..Len(states) /\ Len(states) \in Nat
  BY CurrentMapping DEF TypeInv, StatesOK, mapping
<1>3. /\ \A i \in Checkpoints : i \in 1..MaxCheckpoint
      /\ \A c \in Commits : c \in 1..MaxCommit /\ c # 0
  BY JjRepoAssumption DEF TypeInv, JournalOK, GraphOK, Checkpoints, Commits
<1> QED
  BY <1>1, <1>2, <1>3 DEF Mapping

LEMMA BaseSafe ==
  ASSUME TypeInv, SafeInv, PublishOne
  PROVE  Safe(mapping.fwd, ParentCommit(Head(pub.todo)))
<1>1. Head(pub.todo) \in Checkpoints
  BY WhoRecords
<1>2. CASE pub.made # <<>>
  <2>1. Len(pub.made) \in DOMAIN pub.made
    BY <1>2 DEF TypeInv, PubOK
  <2> QED
    BY <1>2, <2>1 DEF SafeInv, BatchSafe, ParentCommit, Last
<1>3. CASE pub.made = <<>>
  <2>1. cps[Head(pub.todo)].parent # 0 => cps[Head(pub.todo)].parent \in 1..MaxCheckpoint
    BY <1>1, JjRepoAssumption DEF TypeInv, JournalOK, Checkpoints
  <2>2. \A i \in 1..MaxCheckpoint : mapping.fwd[i] # 0 => Safe(mapping.fwd, mapping.fwd[i])
    BY KeysShape DEF SafeInv, KeysSafe
  <2>3. Safe(mapping.fwd, seed.commit)
    BY NothingIsSafe
  <2> QED
    BY <1>3, <2>1, <2>2, <2>3 DEF ParentCommit, Published
<1> QED
  BY <1>2, <1>3

(* A record: an older state, or the current one with a key more.           *)
LEMMA RecordSafe ==
  ASSUME TypeInv, SafeInv, Next, NEW i \in 1..MaxCheckpoint, NEW c \in 1..MaxCommit,
         states' = Recorded(i, c), SafeThen(mapping'.fwd, c)
  PROVE  /\ KeysLast' /\ KeysSafe' /\ KeysPair' /\ states'[1] = states[1]
         /\ Extends(mapping'.fwd, mapping.fwd)
<1>1. /\ StatesOK /\ mapping = states[Len(states)] /\ Len(states) \in 1..Len(states)
      /\ 1 \in 1..Len(states) /\ Len(states) \in Nat
      /\ \A k \in 1..Len(states) :
           /\ states[k].fwd \in [1..MaxCheckpoint -> 0..Len(commits)]
           /\ states[k].rev \in [1..MaxCommit -> 0..Len(cps)]
      /\ \A j \in Checkpoints : j \in 1..MaxCheckpoint
  BY KeysShape
<1>2. /\ Len(states') = Len(states) + 2
      /\ \A k \in 1..Len(states) : states'[k] = states[k]
      /\ states'[Len(states) + 1].fwd = [mapping.fwd EXCEPT ![i] = c]
      /\ states'[Len(states) + 1].rev = mapping.rev
      /\ mapping' = states'[Len(states) + 2]
      /\ mapping'.fwd = [mapping.fwd EXCEPT ![i] = c]
      /\ mapping'.rev = [mapping.rev EXCEPT ![c] = i]
  BY <1>1, RecordedReads
<1>3. /\ \A j \in 1..MaxCheckpoint : mapping'.fwd[j] = IF j = i THEN c ELSE mapping.fwd[j]
      /\ \A d \in 1..MaxCommit : mapping'.rev[d] = IF d = c THEN i ELSE mapping.rev[d]
      /\ c # 0
  <2>1. /\ mapping.fwd \in [1..MaxCheckpoint -> 0..Len(commits)]
        /\ mapping.rev \in [1..MaxCommit -> 0..Len(cps)]
    BY KeysShape
  <2>2. \A j \in 1..MaxCheckpoint : mapping'.fwd[j] = IF j = i THEN c ELSE mapping.fwd[j]
    BY <1>2, <2>1
  <2>3. \A d \in 1..MaxCommit : mapping'.rev[d] = IF d = c THEN i ELSE mapping.rev[d]
    BY <1>2, <2>1
  <2>4. c # 0
    OBVIOUS
  <2> QED
    BY <2>2, <2>3, <2>4
<1>4. \A k \in 1..Len(states') :
        \/ k \in 1..Len(states) /\ states'[k] = states[k]
        \/ states'[k].fwd = mapping'.fwd /\ states'[k].rev \in {mapping.rev, mapping'.rev}
  <2>1. \A k \in 1..Len(states') : k \in 1..Len(states) \/ k = Len(states) + 1
                                   \/ k = Len(states) + 2
    BY <1>1, <1>2
  <2> QED
    BY <1>2, <2>1
<1>5. states'[1] = states[1] /\ Extends(mapping'.fwd, mapping.fwd)
  BY <1>1, <1>2, <1>3 DEF Extends
<1>6. KeysLast'
  <2> SUFFICES ASSUME NEW k \in 1..Len(states'), NEW j \in 1..MaxCheckpoint, states[1].fwd[j] # 0
               PROVE  states'[k].fwd[j] # 0
    BY <1>5 DEF KeysLast
  <2>1. \A n \in 1..Len(states) : states[n].fwd[j] # 0
    BY DEF SafeInv, KeysLast
  <2> QED
    BY <1>1, <1>3, <1>4, <2>1
<1>7. KeysSafe'
  <2> SUFFICES ASSUME NEW k \in 1..Len(states'), NEW j \in 1..MaxCheckpoint,
                      states'[k].fwd[j] # 0
               PROVE  SafeThen(states'[k].fwd, states'[k].fwd[j])
    BY DEF KeysSafe, Safe, SafeThen
  <2>1. \A n \in 1..Len(states) : states[n].fwd[j] # 0 =>
          Safe(states[n].fwd, states[n].fwd[j]) /\ states[n].fwd[j] \in 0..Len(commits)
    BY <1>1 DEF SafeInv, KeysSafe
  <2>2. CASE k \in 1..Len(states) /\ states'[k] = states[k]
    <3>1. Extends(states[k].fwd, states[k].fwd)
      BY DEF Extends
    <3> QED
      BY <2>1, <2>2, <3>1, SafeGrows
  <2>3. CASE states'[k].fwd = mapping'.fwd /\ j = i
    BY <1>3, <2>3
  <2>4. CASE states'[k].fwd = mapping'.fwd /\ j # i
    <3>1. mapping'.fwd[j] = mapping.fwd[j]
      BY <1>3, <2>4
    <3>2. Safe(mapping.fwd, mapping.fwd[j]) /\ mapping.fwd[j] \in 0..Len(commits)
      BY <1>1, <2>1, <2>4, <3>1
    <3>3. SafeThen(mapping'.fwd, mapping.fwd[j])
      BY <1>5, <3>2, SafeGrows
    <3> QED
      BY <2>4, <3>1, <3>3
  <2> QED
    BY <1>4, <2>2, <2>3, <2>4
<1>8. KeysPair'
  <2> SUFFICES ASSUME NEW k \in 1..Len(states'), NEW d \in 1..MaxCommit,
                      states'[k].rev[d] # 0
               PROVE  states'[k].fwd[states'[k].rev[d]] # 0
    BY DEF KeysPair
  <2>1. \A n \in 1..Len(states) : states[n].rev[d] # 0 =>
          states[n].fwd[states[n].rev[d]] # 0 /\ states[n].rev[d] \in 1..MaxCheckpoint
    <3>1. \A j \in 0..Len(cps) : j # 0 => j \in 1..MaxCheckpoint
      BY JjRepoAssumption DEF TypeInv, JournalOK
    <3> QED
      BY <1>1, <3>1 DEF SafeInv, KeysPair
  <2>2. CASE k \in 1..Len(states) /\ states'[k] = states[k]
    BY <2>1, <2>2
  <2>3. CASE states'[k].fwd = mapping'.fwd /\ states'[k].rev \in {mapping.rev, mapping'.rev}
    <3>1. states'[k].rev[d] = i \/ states'[k].rev[d] = mapping.rev[d]
      BY <1>3, <2>3
    <3>2. CASE states'[k].rev[d] = i
      BY <1>3, <2>3, <3>2
    <3>3. CASE states'[k].rev[d] = mapping.rev[d]
      <4>1. mapping.rev[d] \in 1..MaxCheckpoint /\ mapping.fwd[mapping.rev[d]] # 0
        BY <1>1, <2>1, <3>3
      <4>2. mapping'.fwd[mapping.rev[d]] # 0
        BY <1>5, <4>1 DEF Extends
      <4> QED
        BY <2>3, <3>3, <4>2
    <3> QED
      BY <3>1, <3>2, <3>3
  <2> QED
    BY <1>4, <2>2, <2>3
<1> QED
  BY <1>5, <1>6, <1>7, <1>8

LEMMA KeysStaySafe ==
  ASSUME TypeInv, SafeInv, Next
  PROVE  /\ KeysLast' /\ KeysSafe' /\ KeysPair'
         /\ Extends(states'[1].fwd, states[1].fwd)
<1>1. /\ StatesOK /\ mapping = states[Len(states)] /\ Len(states) \in 1..Len(states)
      /\ 1 \in 1..Len(states) /\ Len(states) \in Nat
      /\ \A k \in 1..Len(states) :
           /\ states[k].fwd \in [1..MaxCheckpoint -> 0..Len(commits)]
           /\ states[k].rev \in [1..MaxCommit -> 0..Len(cps)]
  BY KeysShape
<1>2. \A fwd : Extends(fwd, fwd)
  BY DEF Extends
<1>3. \A k \in 1..Len(states) : Extends(states[k].fwd, states[1].fwd)
  BY DEF SafeInv, KeysLast, Extends
<1>4. \A k \in 1..Len(states), j \in 1..MaxCheckpoint : states[k].fwd[j] # 0 =>
        SafeThen(states[k].fwd, states[k].fwd[j])
  BY <1>1, <1>2, SafeGrows DEF SafeInv, KeysSafe
<1>5. ASSUME \A k \in 1..Len(states') : \E n \in 1..Len(states) : states'[k] = states[n],
             Len(states') = 1 \/ states'[1] = states[1], 1 \in 1..Len(states')
      PROVE  /\ KeysLast' /\ KeysSafe' /\ KeysPair'
             /\ Extends(states'[1].fwd, states[1].fwd)
  <2>1. KeysLast'
    <3>1. CASE Len(states') = 1
      <4>1. \A k \in 1..Len(states') : k = 1
        BY <3>1
      <4> QED
        BY <4>1, Zenon DEF KeysLast
    <3>2. CASE states'[1] = states[1]
      BY <1>5, <3>2 DEF SafeInv, KeysLast
    <3> QED
      BY <1>5, <3>1, <3>2
  <2>2. KeysSafe'
    <3> SUFFICES ASSUME NEW k \in 1..Len(states'), NEW j \in 1..MaxCheckpoint,
                        states'[k].fwd[j] # 0
                 PROVE  SafeThen(states'[k].fwd, states'[k].fwd[j])
      BY DEF KeysSafe, Safe, SafeThen
    <3> QED
      BY <1>4, <1>5
  <2>3. KeysPair'
    BY <1>5 DEF SafeInv, KeysPair
  <2>4. Extends(states'[1].fwd, states[1].fwd)
    BY <1>3, <1>5
  <2> QED
    BY <2>1, <2>2, <2>3, <2>4
<1>6. CASE states' = states
  BY <1>1, <1>5, <1>6
<1>7. CASE states' = Flushed
  <2>1. Len(states') = 1 /\ states'[1] = mapping
    BY <1>1, <1>7, FlushedReads
  <2>2. \A k \in 1..Len(states') : k = 1
    BY <2>1
  <2> QED
    BY <1>1, <1>5, <2>1, <2>2
<1>8. CASE states' \in Survivors
  <2>1. PICK n \in 1..Len(states) : Len(states') = 1 /\ states'[1] = states[n]
    BY <1>1, <1>8, SurvivorReads
  <2>2. \A k \in 1..Len(states') : k = 1
    BY <2>1
  <2> QED
    BY <1>5, <2>1, <2>2
<1>9. CASE PublishOne
  <2>1. PICK h, c :
          /\ h = Head(pub.todo) /\ c = Len(commits) + 1
          /\ h \in 1..MaxCheckpoint /\ c \in 1..MaxCommit /\ states' = Recorded(h, c)
    BY <1>9, WhoRecords
  <2>2. mapping'.fwd = [mapping.fwd EXCEPT ![h] = c]
    BY <1>1, <2>1, RecordedReads
  <2>3. mapping'.fwd[h] = c /\ c # 0 /\ Extends(mapping'.fwd, mapping.fwd)
    <3>1. mapping.fwd \in [1..MaxCheckpoint -> 0..Len(commits)] /\ c # 0
      BY <2>1, KeysShape
    <3> QED
      BY <2>1, <2>2, <3>1 DEF Extends
  <2>4. /\ commits' = Append(commits, NextMade) /\ NextMade.of = h
        /\ NextMade.parent \in 0..Len(commits)
        /\ NextMade.parent = ParentCommit(h)
    BY <1>9, <2>1, NextMadeType DEF NextMade, NewOf
  <2>5. SafeThen(mapping'.fwd, NextMade.parent)
    BY <1>9, <2>1, <2>3, <2>4, BaseSafe, SafeGrows
  <2>6. SafeThen(mapping'.fwd, c)
    BY <2>1, <2>3, <2>4, <2>5, SafeUpon
  <2> QED
    BY <1>2, <2>1, <2>6, RecordSafe
<1>10. CASE ImportMap
  <2>1. PICK h, c :
          /\ h = imp.cp /\ c = imp.commit /\ c \in Commits
          /\ h \in 1..MaxCheckpoint /\ c \in 1..MaxCommit /\ states' = Recorded(h, c)
    BY <1>10, WhoRecords
  <2>2. mapping'.fwd = [mapping.fwd EXCEPT ![h] = c]
    BY <1>1, <2>1, RecordedReads
  <2>3. mapping.fwd \in [1..MaxCheckpoint -> 0..Len(commits)] /\ c # 0
    BY <1>1, <2>1
  <2>4. Extends(mapping'.fwd, mapping.fwd)
    BY <2>1, <2>2, <2>3 DEF Extends
  <2>5. Extends(mapping'.fwd, states[1].fwd)
    BY <1>1, <1>3, <2>4 DEF Extends
  <2>6. Safe(states[1].fwd, c) /\ c \in 0..Len(commits)
    BY <2>1 DEF SafeInv, RefsSafe, Refs, Commits
  <2>7. SafeThen(mapping'.fwd, c)
    BY <2>5, <2>6, SafeGrows
  <2> QED
    BY <1>2, <2>1, <2>7, RecordSafe
<1> QED
  BY <1>6, <1>7, <1>8, <1>9, <1>10, StatesMove

(* Where a bookmark, or a command, may get the commit that it names.       *)
LEMMA RefsMove ==
  ASSUME TypeInv, Next
  PROVE  \A c \in Refs' :
           \/ c \in Refs \cup {0}
           \/ OthersPush /\ c = Len(commits) + 1
           \/ PublishBookmark /\ c = Last(pub.made)
           \/ \E i \in Checkpoints : CreateBranch(i) /\ c = mapping.fwd[i]
<1>1. bookmark' \in Refs \cup {0} \/ (PublishBookmark /\ bookmark' = Last(pub.made))
        \/ \E i \in Checkpoints : CreateBranch(i) /\ bookmark' = mapping.fwd[i]
  <2>1. CASE \E force \in BOOLEAN : PushFetch(force)
    <3>1. Merged \in {bookmark, remote, 0}
      BY DEF Merged, TypeInv, GitOK
    <3>2. bookmark' = Merged
      BY <2>1 DEF PushFetch
    <3> QED
      BY <3>1, <3>2 DEF Refs
  <2>2. CASE PublishBookmark
    BY <2>2 DEF PublishBookmark
  <2>3. CASE \E i \in Checkpoints : CreateBranch(i)
    BY <2>3 DEF CreateBranch
  <2>4. CASE bookmark' = bookmark \/ bookmark' = 0
    BY <2>4 DEF Refs
  <2> QED
    BY <2>1, <2>2, <2>3, <2>4, GitSteps
    DEF gitVars, PushHeadSend, PushSend, PushRecord, OthersPush, DeleteBranch
<1>2. remote' \in Refs \/ (OthersPush /\ remote' = Len(commits) + 1)
  BY GitSteps
  DEF Refs, gitVars, PublishBookmark, PushFetch, PushHeadSend, PushSend, PushRecord, OthersPush,
    DeleteBranch, CreateBranch
<1>3. pull'.commit \in Refs \cup {0}
  <2>1. CASE pull' = pull \/ pull' = NoPull
    BY <2>1 DEF Refs, NoPull
  <2>2. CASE PullBegin
    BY <2>2 DEF PullBegin, Refs
  <2>3. CASE pull' = [pull EXCEPT !.step = "asked"] \/ pull' = [pull EXCEPT !.step = "sync"]
             \/ pull' = [pull EXCEPT !.step = "sent"]
    BY <2>3 DEF Refs, TypeInv, ImpOK
  <2> QED
    BY <2>1, <2>2, <2>3, ImportSteps
    DEF PullGivesUp, PullSynced, ImportBegin, ImportAppend, ImportMap, ImportFlush, ImportPin,
      DaemonDies, PullDies
<1>4. imp'.commit \in Refs \cup {0}
  <2>1. CASE imp' = imp \/ imp' = NoImport
    BY <2>1 DEF Refs, NoImport
  <2>2. CASE ImportBegin
    BY <2>1, <2>2 DEF ImportBegin, Refs
  <2>3. CASE ImportAppend \/ ImportMap \/ ImportFlush
    <3>1. imp'.commit = imp.commit
      BY <2>3 DEF ImportAppend, ImportMap, ImportFlush, TypeInv, ImpOK
    <3> QED
      BY <3>1 DEF Refs
  <2> QED
    BY <2>1, <2>2, <2>3, ImportSteps
    DEF PullBegin, PullGivesUp, PullSynced, ImportPin, DaemonDies, PullDies, ImportLeaves
<1>5. push'.target \in Refs \cup {0}
  <2>1. CASE push' = push \/ push' = NoPush
    BY <2>1 DEF Refs, NoPush
  <2>2. CASE \E force \in BOOLEAN : PushHead(force)
    BY <2>2 DEF PushHead, Refs
  <2>3. CASE \E force \in BOOLEAN : PushFetch(force)
    BY <2>3 DEF PushFetch, NoPush
  <2>4. CASE PushSend
    BY <2>1, <2>4 DEF PushSend, Refs, TypeInv, PushOK
  <2>5. CASE PushNext
    BY <2>1, <2>2, <2>3, <2>4, <2>5 DEF PushNext, PushHeadSend, PushRecord, PushDies
  <2> QED
    BY <2>1, <2>5 DEF Next
<1> QED
  BY <1>1, <1>2, <1>3, <1>4, <1>5 DEF Refs

LEMMA RefsStaySafe ==
  ASSUME TypeInv, SafeInv, Next
  PROVE  RefsSafe'
<1>1. Extends(states'[1].fwd, states[1].fwd)
  BY KeysStaySafe
<1>2. \A c \in 0..Len(commits) : Safe(states[1].fwd, c) => SafeThen(states'[1].fwd, c)
  BY <1>1, SafeGrows
<1>3. \A c \in Refs \cup {0} : c \in 0..Len(commits) /\ Safe(states[1].fwd, c)
  <2>1. Refs \subseteq 0..Len(commits) /\ 0 \in 0..Len(commits)
    BY DEF Refs, TypeInv, GitOK, ImpOK, PushOK, GraphOK, Commits
  <2> QED
    BY <2>1, NothingIsSafe DEF SafeInv, RefsSafe
<1> SUFFICES ASSUME NEW c \in Refs' PROVE SafeThen(states'[1].fwd, c)
  BY DEF RefsSafe, Safe, SafeThen
<1>4. CASE c \in Refs \cup {0}
  BY <1>2, <1>3, <1>4
<1>5. CASE OthersPush /\ c = Len(commits) + 1
  <2>1. PICK new : commits' = Append(commits, new) /\ new.of = 0 /\ new.parent = remote
    BY <1>5, WhatIsAdded
  <2>2. remote \in 0..Len(commits) /\ SafeThen(states'[1].fwd, remote)
    BY <1>2, <1>3 DEF Refs
  <2> QED
    BY <1>5, <2>1, <2>2, SafeUpon
<1>6. CASE PublishBookmark /\ c = Last(pub.made)
  <2>1. Len(states) = 1 /\ pub.made # <<>> /\ pub.made \in Seq(Commits)
    BY <1>6 DEF PublishBookmark, TypeInv, PubOK
  <2>2. Len(pub.made) \in DOMAIN pub.made /\ c = pub.made[Len(pub.made)]
        /\ c \in 0..Len(commits)
    BY <1>6, <2>1 DEF Last, Commits
  <2>3. Safe(mapping.fwd, c) /\ mapping = states[1]
    BY <2>1, <2>2 DEF SafeInv, BatchSafe, mapping
  <2> QED
    BY <1>2, <2>2, <2>3
<1>7. CASE \E i \in Checkpoints : CreateBranch(i) /\ c = mapping.fwd[i]
  <2>1. PICK i \in Checkpoints : CreateBranch(i) /\ c = mapping.fwd[i]
    BY <1>7
  <2>2. Len(states) = 1 /\ mapping.fwd[i] # 0
    BY <2>1 DEF CreateBranch, TypeInv, StatesOK, Published
  <2>3. mapping = states[1] /\ i \in 1..MaxCheckpoint /\ 1 \in 1..Len(states)
    BY <2>2, KeysShape DEF mapping
  <2>4. Safe(states[1].fwd, c) /\ c \in 0..Len(commits)
    BY <2>1, <2>2, <2>3, KeysShape DEF SafeInv, KeysSafe
  <2> QED
    BY <1>2, <2>4
<1> QED
  BY <1>4, <1>5, <1>6, <1>7, RefsMove

LEMMA MadeSteps ==
  ASSUME TypeInv, Next
  PROVE  \/ pub'.made = <<>>
         \/ pub'.made = pub.made /\ mapping' = mapping
         \/ PublishOne /\ pub'.made = Append(pub.made, Len(commits) + 1)
<1>1. CASE pub' = pub /\ pub.made # <<>>
  <2>1. holder = "publish"
    BY <1>1 DEF TypeInv, PubOK, NoPublish
  <2>2. states' = states
    BY <1>1, <2>1, OthersLeaveIt
  <2> QED
    BY <1>1, <2>2 DEF mapping
<1>2. CASE \E s, e \in Checkpoints, compact, pin \in BOOLEAN : PublishBegin(s, e, compact, pin)
  BY <1>2 DEF PublishBegin
<1>3. CASE PublishOne
  BY <1>3 DEF PublishOne, TypeInv, PubOK
<1>4. CASE PublishFlush
  <2>1. mapping' = mapping
    BY <1>4, FlushedReads DEF PublishFlush, TypeInv
  <2> QED
    BY <1>4, <2>1 DEF PublishFlush, TypeInv, PubOK
<1>5. CASE PublishBookmark
  <2>1. states' = states
    BY <1>5 DEF PublishBookmark, mapVars
  <2> QED
    BY <1>5, <2>1 DEF PublishBookmark, TypeInv, PubOK, mapping
<1>6. CASE PublishPin \/ PublishFails \/ PublishDies
  BY <1>6 DEF PublishPin, PublishFails, PublishDies, NoPublish
<1> QED
  BY <1>1, <1>2, <1>3, <1>4, <1>5, <1>6, PubSteps

LEMMA BatchStaysSafe ==
  ASSUME TypeInv, SafeInv, Next
  PROVE  BatchSafe'
<1>1. pub.made \in Seq(Commits) /\ \A k \in DOMAIN pub.made : pub.made[k] \in 0..Len(commits)
  BY DEF TypeInv, PubOK, Commits
<1> SUFFICES ASSUME NEW k \in DOMAIN pub'.made PROVE SafeThen(mapping'.fwd, pub'.made[k])
  BY DEF BatchSafe, Safe, SafeThen
<1>2. CASE pub'.made = <<>>
  BY <1>2
<1>3. CASE pub'.made = pub.made /\ mapping' = mapping
  <2>1. Extends(mapping.fwd, mapping.fwd)
    BY DEF Extends
  <2> QED
    BY <1>1, <1>3, <2>1, SafeGrows DEF SafeInv, BatchSafe
<1>4. CASE PublishOne /\ pub'.made = Append(pub.made, Len(commits) + 1)
  <2>1. PICK h, c :
          /\ h = Head(pub.todo) /\ c = Len(commits) + 1
          /\ h \in 1..MaxCheckpoint /\ c \in 1..MaxCommit /\ states' = Recorded(h, c)
    BY <1>4, WhoRecords
  <2>2. mapping'.fwd = [mapping.fwd EXCEPT ![h] = c]
    BY <2>1, RecordedReads DEF TypeInv
  <2>3. mapping'.fwd[h] = c /\ c # 0 /\ Extends(mapping'.fwd, mapping.fwd)
    <3>1. mapping.fwd \in [1..MaxCheckpoint -> 0..Len(commits)] /\ c # 0
      BY <2>1, KeysShape
    <3> QED
      BY <2>1, <2>2, <3>1 DEF Extends
  <2>4. /\ commits' = Append(commits, NextMade) /\ NextMade.of = h
        /\ NextMade.parent \in 0..Len(commits)
        /\ NextMade.parent = ParentCommit(h)
    BY <1>4, <2>1, NextMadeType DEF NextMade, NewOf
  <2>5. SafeThen(mapping'.fwd, NextMade.parent)
    BY <1>4, <2>1, <2>3, <2>4, BaseSafe, SafeGrows
  <2>6. SafeThen(mapping'.fwd, c)
    BY <2>1, <2>3, <2>4, <2>5, SafeUpon
  <2>7. /\ pub'.made = Append(pub.made, c)
        /\ \/ k \in DOMAIN pub.made /\ pub'.made[k] = pub.made[k]
           \/ pub'.made[k] = c
    <3>1. pub.made \in Seq(Nat) /\ c \in Nat /\ pub'.made = Append(pub.made, c)
      BY <1>4, <2>1 DEF TypeInv, PubOK, Commits
    <3> QED
      BY <3>1
  <2>8. CASE k \in DOMAIN pub.made /\ pub'.made[k] = pub.made[k]
    BY <1>1, <2>3, <2>8, SafeGrows DEF SafeInv, BatchSafe
  <2> QED
    BY <2>6, <2>7, <2>8
<1> QED
  BY <1>2, <1>3, <1>4, MadeSteps

LEMMA SafeInit == Init => SafeInv
<1> SUFFICES ASSUME Init PROVE SafeInv
  OBVIOUS
<1>1. TypeInv
  BY TypeInit
<1>2. /\ states = <<NoMapping>> /\ pub = NoPublish
      /\ bookmark = 0 /\ remote = 1 /\ pull.commit = 0 /\ imp.commit = 0
  BY DEF Init, RepoInit, PublishInit, ImportInit, NoPull, NoImport
<1>3. /\ Len(states) = 1 /\ states[1] = NoMapping /\ \A k \in 1..Len(states) : k = 1
  BY <1>2
<1>4. /\ \A i \in 1..MaxCheckpoint : states[1].fwd[i] = 0
      /\ \A c \in 1..MaxCommit : states[1].rev[c] = 0
  BY <1>3 DEF NoMapping
<1>5. \A c \in 0..Len(commits) : \A fwd : Safe(fwd, c)
  BY <1>1, ShapeOfInit, AncestorsUnfold DEF TypeInv, InitShape, Safe, Commits
<1>6. RefsSafe
  <2>1. Refs \subseteq 0..Len(commits)
    BY <1>1 DEF Refs, TypeInv, GitOK, ImpOK, PushOK, Commits
  <2> QED
    BY <1>5, <2>1 DEF RefsSafe
<1>7. BatchSafe
  BY <1>2 DEF BatchSafe, NoPublish
<1>8. KeysLast /\ KeysSafe /\ KeysPair
  BY <1>3, <1>4, Zenon DEF KeysLast, KeysSafe, KeysPair
<1> QED
  BY <1>6, <1>7, <1>8 DEF SafeInv

(* What the bookmark and the remote branch lead to is in the mapping on    *)
(* the disk, so that no death makes a second commit of a checkpoint that   *)
(* may have been pushed; and every prefix of the writes that a death may   *)
(* leave leads from a commit to a checkpoint that leads to a commit.       *)
THEOREM PublishedIsMapped == Spec => []MappingSafe
<1>1. TypeInv /\ SafeInv /\ [Next]_vars => SafeInv'
  <2> SUFFICES ASSUME TypeInv, SafeInv, [Next]_vars PROVE SafeInv'
    OBVIOUS
  <2>1. CASE Next
    BY <2>1, KeysStaySafe, RefsStaySafe, BatchStaysSafe DEF SafeInv
  <2>2. CASE UNCHANGED vars
    <3>1. UNCHANGED <<commits, bookmark, remote, states, pub, push, pull, imp>>
      BY <2>2 DEF vars, repoVars, gitVars, mapVars, importVars
    <3>2. mapping' = mapping /\ Refs' = Refs /\ Ancestors' = Ancestors
      BY <3>1 DEF mapping, Refs, Ancestors
    <3> QED
      BY <3>1, <3>2
      DEF SafeInv, KeysLast, KeysSafe, KeysPair, RefsSafe, BatchSafe, Safe
  <2> QED
    BY <2>1, <2>2
<1>2. Spec => [](TypeInv /\ SafeInv)
  BY TypeInit, TypeStep, SafeInit, <1>1, PTL DEF Spec
<1> QED
  BY <1>2, SafeImplies, PTL

-----------------------------------------------------------------------------
(* A batch follows the line of parents.                                    *)

(* Whatever in T is not the first of T comes right after its parent.       *)
ParentClosed(T) ==
  \A i, j \in T : j < i => cps[i].parent \in T /\ j <= cps[i].parent

LEMMA LineClosed ==
  ASSUME JournalOK
  PROVE  \A e \in 0..Len(cps) : (\A i \in Line[e] : i <= e) /\ ParentClosed(Line[e])
<1> DEFINE Good(e) == (\A i \in Line[e] : i <= e) /\ ParentClosed(Line[e])
           Bad == {e \in 0..Len(cps) : ~Good(e)}
<1> SUFFICES ASSUME Bad # {} PROVE FALSE
  OBVIOUS
<1>1. /\ index \subseteq 1..Len(cps) /\ Len(cps) \in Nat
      /\ \A i \in 1..Len(cps) : cps[i].parent \in 0..(i - 1)
      /\ \A i \in index : i \in Nat /\ i <= Len(cps)
  BY DEF JournalOK, Checkpoints
<1>5. \A e \in 0..Len(cps) :
        /\ Line[e] \subseteq index
        /\ Line[e] = IF e \notin index THEN {} ELSE {e} \cup Line[cps[e].parent]
  BY LineUnfold
<1> HIDE DEF Good
<1>2. PICK e \in Bad : \A d \in Bad : e <= d
  <2>1. Bad \subseteq Nat
    BY <1>1
  <2> HIDE DEF Bad
  <2> QED
    BY <2>1, LeastNumber
<1>3. CASE e \notin index
  BY <1>3, <1>5 DEF Good, ParentClosed
<1>4. CASE e \in index
  <2> DEFINE p == cps[e].parent
  <2>1. p \in 0..Len(cps) /\ p < e /\ e \in Nat /\ p \in Nat
    BY <1>1, <1>4
  <2>6. Line[e] = {e} \cup Line[p] /\ Line[p] \subseteq index
        /\ (p \in index \/ Line[p] = {}) /\ (p \in index => p \in Line[p])
    BY <1>4, <1>5, <2>1
  <2>2. Good(p)
    BY <1>2, <2>1
  <2>3. \A j \in Line[p] : j \in Nat /\ j <= p /\ p \in Line[p]
    <3>1. \A j \in Line[p] : j <= p
      BY <2>2 DEF Good
    <3> QED
      BY <1>1, <2>6, <3>1
  <2> HIDE DEF p
  <2>4. \A i \in Line[e] : i <= e
    BY <2>1, <2>3, <2>6
  <2>5. ASSUME NEW i \in Line[e], NEW j \in Line[e], j < i
        PROVE  cps[i].parent \in Line[e] /\ j <= cps[i].parent
    <3>1. j \in Line[p]
      BY <2>1, <2>3, <2>5, <2>6
    <3>2. CASE i = e
      BY <2>3, <2>6, <3>1, <3>2 DEF p
    <3>3. CASE i # e
      <4>1. i \in Line[p]
        BY <2>6, <3>3
      <4> QED
        BY <2>2, <2>5, <2>6, <3>1, <4>1 DEF Good, ParentClosed
    <3> QED
      BY <3>2, <3>3
  <2> QED
    BY <2>4, <2>5 DEF Good, ParentClosed
<1> QED
  BY <1>3, <1>4

LEMMA UpClosed ==
  ASSUME JournalOK, NEW chosen
  PROVE  \A u \in Checkpoints : 0 \notin Unpublished(chosen)[u] =>
           /\ \A i \in Unpublished(chosen)[u] : i \in index /\ i < u
           /\ ParentClosed({u} \cup Unpublished(chosen)[u])
<1> DEFINE Up(u) == Unpublished(chosen)[u]
           Good(u) == 0 \notin Up(u) =>
                        (\A i \in Up(u) : i \in index /\ i < u) /\ ParentClosed({u} \cup Up(u))
           Bad == {u \in Checkpoints : ~Good(u)}
<1> SUFFICES ASSUME Bad # {} PROVE FALSE
  OBVIOUS
<1>1. /\ index \subseteq 1..Len(cps) /\ Len(cps) \in Nat /\ Checkpoints = 1..Len(cps)
      /\ \A i \in 1..Len(cps) : cps[i].parent \in 0..(i - 1)
      /\ \A i \in index : i \in Nat /\ i \in Checkpoints
  BY DEF JournalOK, Checkpoints
<1>6. \A u \in Checkpoints :
        Up(u) = IF GoesUp(u, chosen) THEN {cps[u].parent} \cup Up(cps[u].parent)
                ELSE IF cps[u].parent # 0 /\ cps[u].parent \notin chosen
                          /\ ~Published(cps[u].parent) THEN {0} ELSE {}
  BY UnpublishedUnfold, Zenon
<1> HIDE DEF Good, Up
<1>2. PICK u \in Bad : \A d \in Bad : u <= d
  <2>1. Bad \subseteq Nat
    BY <1>1
  <2> HIDE DEF Bad
  <2> QED
    BY <2>1, LeastNumber
<1>3. u \in Checkpoints /\ u \in Nat /\ 0 \notin Up(u)
  BY <1>1, <1>2 DEF Good
<1>4. CASE ~GoesUp(u, chosen)
  <2>1. Up(u) = {}
    BY <1>3, <1>4, <1>6
  <2> QED
    BY <1>2, <1>3, <2>1 DEF Good, ParentClosed
<1>5. CASE GoesUp(u, chosen)
  <2> DEFINE p == cps[u].parent
  <2>6. p \in index /\ Up(u) = {p} \cup Up(p)
    BY <1>3, <1>5, <1>6 DEF GoesUp
  <2>1. p \in index /\ p \in Checkpoints /\ p < u /\ p \in Nat /\ Up(u) = {p} \cup Up(p)
    BY <1>1, <1>3, <2>6
  <2>2. Good(p) /\ 0 \notin Up(p)
    BY <1>1, <1>2, <1>3, <2>1
  <2>3. /\ \A i \in Up(p) : i \in index /\ i \in Nat /\ i < p
        /\ ParentClosed({p} \cup Up(p))
    BY <1>1, <2>2 DEF Good
  <2> HIDE DEF p
  <2>4. \A i \in Up(u) : i \in index /\ i < u /\ i \in Nat /\ i <= p
    BY <1>3, <2>1, <2>3
  <2>5. ASSUME NEW i \in {u} \cup Up(u), NEW j \in {u} \cup Up(u), j < i
        PROVE  cps[i].parent \in {u} \cup Up(u) /\ j <= cps[i].parent
    <3>1. j \in Up(u)
      BY <1>3, <2>4, <2>5
    <3>2. CASE i = u
      BY <2>1, <2>4, <3>1, <3>2 DEF p
    <3>3. CASE i # u
      BY <2>1, <2>3, <2>5, <3>1, <3>3 DEF ParentClosed
    <3> QED
      BY <3>2, <3>3
  <2> QED
    BY <1>2, <2>4, <2>5 DEF Good, ParentClosed
<1> QED
  BY <1>4, <1>5

LEMMA BatchClosed ==
  ASSUME JournalOK, NEW start \in Checkpoints, NEW end \in Checkpoints, start \in Line[end],
         NEW chosen, chosen = CheckpointRange(start, end)
  PROVE  /\ chosen \subseteq Checkpoints /\ start \in chosen
         /\ \A i \in AncestorsOf(chosen) : i \in index /\ i < start
         /\ ParentClosed(AncestorsOf(chosen) \cup chosen)
<1>1. /\ index \subseteq 1..Len(cps) /\ Len(cps) \in Nat /\ Checkpoints = 1..Len(cps)
      /\ \A i \in 1..Len(cps) : cps[i].parent \in 0..(i - 1)
      /\ start \in Nat /\ end \in 0..Len(cps)
      /\ \A i \in index : i \in Nat /\ i \in Checkpoints
  <2>1. /\ index \subseteq Checkpoints /\ Len(cps) \in Nat /\ Checkpoints = 1..Len(cps)
        /\ \A i \in Checkpoints : cps[i].parent \in 0..(i - 1)
    BY DEF JournalOK, Checkpoints
  <2>2. \A i \in Checkpoints : i \in Nat /\ i \in 0..Len(cps)
    BY <2>1
  <2> QED
    BY <2>1, <2>2
<1>10. Line[end] \subseteq index
  BY <1>1, LineUnfold
<1>2. chosen = {i \in Line[end] : i >= start}
  BY DEF CheckpointRange
<1>3. start \in chosen /\ chosen \subseteq Checkpoints
      /\ \A i \in chosen : i \in Nat /\ i >= start /\ i \in Line[end]
  <2>1. start >= start
    BY <1>1
  <2>2. \A i \in chosen : i \in Line[end] /\ i >= start
    BY <1>2
  <2>3. start \in chosen
    BY <1>2, <2>1
  <2> QED
    BY <1>1, <1>10, <2>2, <2>3
<1>4. ParentClosed(Line[end])
  BY <1>1, LineClosed
<1>5. ParentClosed(chosen)
  <2> SUFFICES ASSUME NEW i \in chosen, NEW j \in chosen, j < i
               PROVE  cps[i].parent \in chosen /\ j <= cps[i].parent
    BY DEF ParentClosed
  <2>1. cps[i].parent \in Line[end] /\ j <= cps[i].parent
    BY <1>3, <1>4 DEF ParentClosed
  <2>2. cps[i].parent \in Nat /\ cps[i].parent >= start
    BY <1>1, <1>3, <1>10, <2>1
  <2> QED
    BY <1>2, <1>3, <2>1, <2>2
<1>6. \A i \in chosen : i # start => Chain(i, chosen) = {}
  <2> SUFFICES ASSUME NEW i \in chosen, i # start PROVE Chain(i, chosen) = {}
    OBVIOUS
  <2>1. start < i
    BY <1>1, <1>3
  <2>2. cps[i].parent \in chosen
    BY <1>3, <1>5, <2>1 DEF ParentClosed
  <2>3. Unpublished(chosen)[i] = {}
    BY <1>3, <2>2, UnpublishedUnfold DEF GoesUp
  <2> QED
    BY <2>3 DEF Chain
<1> DEFINE A == AncestorsOf(chosen)
           Up == Unpublished(chosen)[start]
<1>7. A = {} \/ (A = Up /\ 0 \notin Up)
  <2>1. A \subseteq Chain(start, chosen)
    BY <1>6 DEF AncestorsOf
  <2>2. Chain(start, chosen) = {} \/ (Chain(start, chosen) = Up /\ 0 \notin Up)
    BY DEF Chain
  <2>3. A = {} \/ A = Chain(start, chosen)
    BY <1>6 DEF AncestorsOf
  <2> QED
    BY <2>2, <2>3
<1> HIDE DEF A, Up
<1>8. \A i \in A : i \in index /\ i < start
  BY <1>7, UpClosed DEF Up
<1>9. ParentClosed(A \cup chosen)
  <2>1. CASE A = {}
    BY <1>5, <2>1
  <2>2. CASE A = Up /\ 0 \notin Up
    <3>1. ParentClosed({start} \cup A)
      BY <2>2, UpClosed DEF Up
    <3> SUFFICES ASSUME NEW i \in A \cup chosen, NEW j \in A \cup chosen, j < i
                 PROVE  cps[i].parent \in A \cup chosen /\ j <= cps[i].parent
      BY DEF ParentClosed
    <3>2. i \in Nat /\ j \in Nat
      BY <1>1, <1>3, <1>8
    <3>3. CASE i > start
      <4>1. i \in chosen
        BY <1>1, <1>8, <3>2, <3>3
      <4>2. cps[i].parent \in chosen /\ start <= cps[i].parent
        BY <1>3, <1>5, <3>3, <4>1 DEF ParentClosed
      <4>3. CASE j \in chosen
        BY <1>5, <4>1, <4>2, <4>3 DEF ParentClosed
      <4>4. CASE j \in A
        BY <1>1, <1>3, <1>8, <3>2, <4>2, <4>4
      <4> QED
        BY <4>3, <4>4
    <3>4. CASE ~(i > start)
      <4>1. i \in {start} \cup A
        BY <1>1, <1>3, <3>2, <3>4
      <4>2. j \in A
        BY <1>1, <1>3, <3>2, <3>4
      <4> QED
        BY <1>3, <3>1, <4>1, <4>2 DEF ParentClosed
    <3> QED
      BY <3>3, <3>4
  <2> QED
    BY <1>7, <2>1, <2>2
<1> QED
  BY <1>3, <1>8, <1>9 DEF A

(* Each checkpoint of the list is the parent of the next one.              *)
Follows(s) == \A k \in 1..(Len(s) - 1) : cps[s[k + 1]].parent = s[k]

LEMMA ListFollows ==
  ASSUME JournalOK, NEW T, T \subseteq Checkpoints, ParentClosed(T), NEW s, s \in Seq(T),
         \A j, k \in 1..Len(s) : j < k => s[j] < s[k],
         \A i \in T : \E j \in 1..Len(s) : s[j] = i
  PROVE  Follows(s)
<1> SUFFICES ASSUME NEW k \in 1..(Len(s) - 1) PROVE cps[s[k + 1]].parent = s[k]
  BY DEF Follows
<1>1. k \in 1..Len(s) /\ k + 1 \in 1..Len(s) /\ k < k + 1 /\ Len(s) \in Nat
  OBVIOUS
<1>2. \A i \in T : i \in Nat /\ cps[i].parent < i /\ cps[i].parent \in Nat
  BY DEF JournalOK, Checkpoints
<1>3. s[k] \in T /\ s[k + 1] \in T /\ s[k] < s[k + 1]
  <2>1. s[k] \in T /\ s[k + 1] \in T
    BY <1>1
  <2>2. s[k] < s[k + 1]
    BY <1>1, Zenon
  <2> QED
    BY <2>1, <2>2
<1> DEFINE p == cps[s[k + 1]].parent
<1>4. p \in T /\ s[k] <= p /\ p < s[k + 1]
  BY <1>2, <1>3 DEF ParentClosed
<1> HIDE DEF p
<1>5. PICK m \in 1..Len(s) : s[m] = p
  BY <1>4
<1>6. s[k] \in Nat /\ s[k + 1] \in Nat /\ p \in Nat
  BY <1>2, <1>3, <1>4
<1>7. ~(k + 1 < m)
  BY <1>1, <1>4, <1>5, <1>6
<1>8. m # k + 1
  BY <1>4, <1>5, <1>6
<1>9. ~(m < k)
  BY <1>1, <1>4, <1>5, <1>6
<1>10. m = k
  BY <1>1, <1>7, <1>8, <1>9
<1> QED
  BY <1>5, <1>10 DEF p

LEMMA BatchFollows ==
  ASSUME JournalOK, NEW start \in Checkpoints, NEW end \in Checkpoints, start \in Line[end]
  PROVE  Follows(WithAncestors(CheckpointRange(start, end)))
<1> DEFINE chosen == CheckpointRange(start, end)
           A == AncestorsOf(chosen)
<1> HIDE DEF chosen
<1>1. /\ chosen \subseteq Checkpoints /\ start \in chosen
      /\ \A i \in A : i \in index /\ i < start
      /\ ParentClosed(A \cup chosen)
  BY BatchClosed DEF chosen
<1>2. \A i \in chosen : i >= start
  BY DEF chosen, CheckpointRange
<1> HIDE DEF A
<1>3. /\ index \subseteq 1..Len(cps) /\ Len(cps) \in Nat /\ Checkpoints = 1..Len(cps)
  BY DEF JournalOK, Checkpoints
<1>4. A \subseteq Checkpoints
  BY <1>1, <1>3
<1>5. PICK s : s = InOrder(A)
  OBVIOUS
<1>6. PICK t : t = InOrder(chosen)
  OBVIOUS
<1>7. /\ s \in Seq(A) /\ \A j, k \in 1..Len(s) : j < k => s[j] < s[k]
      /\ \A i \in A : \E j \in 1..Len(s) : s[j] = i
  <2>1. /\ s \in Seq(A) /\ Len(s) = Cardinality(A) /\ Increasing(s, A)
        /\ \A i \in A : \E j \in 1..Cardinality(A) : s[j] = i
    BY <1>3, <1>4, <1>5, InOrderLists
  <2> QED
    BY <2>1 DEF Increasing
<1>8. /\ t \in Seq(chosen) /\ \A j, k \in 1..Len(t) : j < k => t[j] < t[k]
      /\ \A i \in chosen : \E j \in 1..Len(t) : t[j] = i
  <2>1. /\ t \in Seq(chosen) /\ Len(t) = Cardinality(chosen) /\ Increasing(t, chosen)
        /\ \A i \in chosen : \E j \in 1..Cardinality(chosen) : t[j] = i
    BY <1>1, <1>3, <1>6, InOrderLists
  <2> QED
    BY <2>1 DEF Increasing
<1>9. PICK all : all = s \o t
  OBVIOUS
<1>10. /\ all \in Seq(A \cup chosen) /\ Len(all) = Len(s) + Len(t)
       /\ Len(s) \in Nat /\ Len(t) \in Nat
       /\ \A j \in 1..Len(s) : all[j] = s[j] /\ s[j] \in A
       /\ \A j \in 1..Len(t) : all[Len(s) + j] = t[j] /\ t[j] \in chosen
  <2>1. s \in Seq(A \cup chosen) /\ t \in Seq(A \cup chosen) /\ s \in Seq(A) /\ t \in Seq(chosen)
    BY <1>7, <1>8
  <2>2. all \in Seq(A \cup chosen) /\ Len(all) = Len(s) + Len(t)
        /\ Len(s) \in Nat /\ Len(t) \in Nat
    BY <1>9, <2>1
  <2>3. \A j \in 1..Len(s) : all[j] = s[j]
    BY <1>9, <2>1
  <2>4. \A j \in 1..Len(t) : all[Len(s) + j] = t[j]
    BY <1>9, <2>1
  <2>5. \A j \in 1..Len(s) : s[j] \in A
    BY <2>1
  <2>6. \A j \in 1..Len(t) : t[j] \in chosen
    BY <2>1
  <2> QED
    BY <2>2, <2>3, <2>4, <2>5, <2>6
<1>11. \A j \in 1..Len(all) :
         \/ j \in 1..Len(s)
         \/ j > Len(s) /\ j - Len(s) \in 1..Len(t) /\ Len(s) + (j - Len(s)) = j
  BY <1>10
<1>12. \A j, k \in 1..Len(all) : j < k => all[j] < all[k]
  <2> SUFFICES ASSUME NEW j \in 1..Len(all), NEW k \in 1..Len(all), j < k
               PROVE  all[j] < all[k]
    OBVIOUS
  <2>1. CASE k \in 1..Len(s)
    <3>1. j \in 1..Len(s)
      BY <1>10, <2>1
    <3> QED
      BY <1>7, <1>10, <2>1, <3>1
  <2>2. CASE j \in 1..Len(s) /\ k > Len(s)
    <3>1. all[j] \in A /\ all[k] \in chosen
      <4>1. k - Len(s) \in 1..Len(t) /\ Len(s) + (k - Len(s)) = k
        BY <1>10, <1>11, <2>2
      <4>2. all[k] \in chosen
        BY <1>10, <4>1
      <4> QED
        BY <1>10, <2>2, <4>2
    <3>2. all[j] < start /\ start <= all[k]
      BY <1>1, <1>2, <3>1
    <3>3. all[j] \in Nat /\ all[k] \in Nat /\ start \in Nat
      <4>1. \A i \in Checkpoints : i \in Nat
        BY <1>3
      <4> QED
        BY <1>1, <1>4, <3>1, <4>1
    <3> QED
      BY <3>2, <3>3
  <2>3. CASE j > Len(s)
    <3>1. /\ j - Len(s) \in 1..Len(t) /\ Len(s) + (j - Len(s)) = j
          /\ k - Len(s) \in 1..Len(t) /\ Len(s) + (k - Len(s)) = k
          /\ j - Len(s) < k - Len(s)
      BY <1>10, <1>11, <2>3
    <3>2. all[j] = t[j - Len(s)] /\ all[k] = t[k - Len(s)]
      BY <1>10, <3>1
    <3>3. t[j - Len(s)] < t[k - Len(s)]
      BY <1>8, <3>1
    <3> QED
      BY <3>2, <3>3
  <2> QED
    BY <1>10, <1>11, <2>1, <2>2, <2>3
<1>13. \A i \in A \cup chosen : \E j \in 1..Len(all) : all[j] = i
  <2>1. ASSUME NEW i \in A PROVE \E j \in 1..Len(all) : all[j] = i
    <3>1. PICK j \in 1..Len(s) : s[j] = i
      BY <1>7
    <3> QED
      BY <1>10, <3>1
  <2>2. ASSUME NEW i \in chosen PROVE \E j \in 1..Len(all) : all[j] = i
    <3>1. PICK j \in 1..Len(t) : t[j] = i
      BY <1>8
    <3>2. Len(s) + j \in 1..Len(all) /\ all[Len(s) + j] = i
      BY <1>10, <3>1
    <3> QED
      BY <3>2
  <2> QED
    BY <2>1, <2>2
<1>14. Follows(all)
  BY <1>1, <1>4, <1>10, <1>12, <1>13, ListFollows
<1> QED
  BY <1>5, <1>6, <1>9, <1>14 DEF chosen, A, WithAncestors

(* Every key of the mapping leads to a commit that was made of the         *)
(* checkpoint, or that the checkpoint was imported from.                   *)
KeysLead ==
  \A k \in 1..Len(states), i \in 1..MaxCheckpoint :
    states[k].fwd[i] # 0 => Made(i, states[k].fwd[i])

LEMMA KeysKeepLeading ==
  ASSUME TypeInv, KeysLead, Next
  PROVE  KeysLead'
<1>1. /\ StatesOK /\ mapping = states[Len(states)] /\ Len(states) \in 1..Len(states)
      /\ Len(states) \in Nat
  BY KeysShape
<1>2. \A i, c : Made(i, c) => Made(i, c)'
  BY MadeStays
<1>3. ASSUME \A k \in 1..Len(states') : \E n \in 1..Len(states) : states'[k] = states[n]
      PROVE  KeysLead'
  BY <1>2, <1>3 DEF KeysLead
<1>4. CASE states' = states
  BY <1>3, <1>4
<1>5. CASE states' = Flushed
  <2>1. Len(states') = 1 /\ states'[1] = states[Len(states)]
    BY <1>1, <1>5, FlushedReads
  <2>2. \A k \in 1..Len(states') : k = 1
    BY <2>1
  <2> QED
    BY <1>1, <1>3, <2>1, <2>2
<1>6. CASE states' \in Survivors
  <2>1. PICK n \in 1..Len(states) : Len(states') = 1 /\ states'[1] = states[n]
    BY <1>1, <1>6, SurvivorReads
  <2>2. \A k \in 1..Len(states') : k = 1
    BY <2>1
  <2> QED
    BY <1>3, <2>1, <2>2
<1>7. ASSUME NEW h \in 1..MaxCheckpoint, NEW c \in 1..MaxCommit, states' = Recorded(h, c),
             Made(h, c)'
      PROVE  KeysLead'
  <2>1. /\ Len(states') = Len(states) + 2
        /\ \A k \in 1..Len(states) : states'[k] = states[k]
        /\ states'[Len(states) + 1].fwd = [mapping.fwd EXCEPT ![h] = c]
        /\ states'[Len(states) + 2].fwd = [mapping.fwd EXCEPT ![h] = c]
    BY <1>1, <1>7, RecordedReads
  <2>2. mapping.fwd \in [1..MaxCheckpoint -> 0..Len(commits)]
    BY KeysShape
  <2>3. \A k \in 1..Len(states') : \/ k \in 1..Len(states) /\ states'[k] = states[k]
                                   \/ states'[k].fwd = [mapping.fwd EXCEPT ![h] = c]
    <3>1. \A k \in 1..Len(states') : k \in 1..Len(states) \/ k = Len(states) + 1
                                     \/ k = Len(states) + 2
      BY <1>1, <2>1
    <3> QED
      BY <2>1, <3>1
  <2> SUFFICES ASSUME NEW k \in 1..Len(states'), NEW i \in 1..MaxCheckpoint,
                      states'[k].fwd[i] # 0
               PROVE  Made(i, states[k].fwd[i])'
    BY DEF KeysLead
  <2>4. \/ i = h /\ states'[k].fwd[i] = c
        \/ \E n \in 1..Len(states) : states'[k].fwd[i] = states[n].fwd[i]
    BY <1>1, <2>2, <2>3
  <2> QED
    BY <1>2, <1>7, <2>4 DEF KeysLead
<1>8. CASE PublishOne
  <2>1. PICK h, c :
          /\ h = Head(pub.todo) /\ c = Len(commits) + 1
          /\ h \in 1..MaxCheckpoint /\ c \in 1..MaxCommit /\ states' = Recorded(h, c)
          /\ h \in Checkpoints
    BY <1>8, WhoRecords
  <2>2. commits' = Append(commits, NextMade) /\ NextMade.of = h /\ cps' = cps
    BY <1>8, <2>1, WhatIsAdded DEF NextMade, NewOf, PublishOne, journalVars
  <2>3. Len(commits') = c /\ commits'[c].of = h
    BY <2>1, <2>2, AppendReads DEF TypeInv, GraphOK
  <2>4. Made(h, c)'
    BY <2>1, <2>2, <2>3 DEF Made, Checkpoints, Commits
  <2> QED
    BY <1>7, <2>1, <2>4
<1>9. CASE ImportMap
  <2>1. /\ imp.cp \in Checkpoints /\ imp.cp \in 1..MaxCheckpoint
        /\ imp.commit \in Commits /\ imp.commit \in 1..MaxCommit
        /\ states' = Recorded(imp.cp, imp.commit) /\ imp.step = "map"
    BY <1>9, WhoRecords DEF ImportMap
  <2>2. Made(imp.cp, imp.commit)
    BY <2>1 DEF Made, TypeInv, ImpOK
  <2>3. PICK h, c : h = imp.cp /\ c = imp.commit
    OBVIOUS
  <2>4. Made(h, c)'
    BY <1>2, <2>2, <2>3
  <2> QED
    BY <1>7, <2>1, <2>3, <2>4
<1> QED
  BY <1>4, <1>5, <1>6, <1>8, <1>9, StatesMove

(* The command publishes along the line of parents: what it makes next has *)
(* as parent what it made last.                                            *)
Chained ==
  pub.step = "convert" =>
    /\ Follows(pub.todo)
    /\ pub.made # <<>> =>
         /\ cps[Head(pub.todo)].parent # 0
         /\ commits[Last(pub.made)].of = cps[Head(pub.todo)].parent

(* The batch that a command begins with.                                   *)
LEMMA BeginShape ==
  ASSUME TypeInv, NEW s \in Checkpoints, NEW e \in Checkpoints, NEW compact, NEW pin,
         PublishBegin(s, e, compact, pin)
  PROVE  LET all == WithAncestors(CheckpointRange(s, e))
             p == cps[all[1]].parent
         IN  /\ pub'.step = "convert" /\ pub'.made = <<>> /\ pub'.all = all
             /\ pub'.todo = IF compact THEN <<e>> ELSE all
             /\ pub'.paths = IF p # 0 /\ ~Published(p) THEN Accumulated[all[1]] ELSE NoPaths
             /\ pub'.whole = (ReachesRoot(all[1]) /\ ~compact)
             /\ Follows(pub'.todo) /\ UNCHANGED <<cps, index, commits, states, seed>>
             /\ all # <<>> /\ all[1] \in Checkpoints
<1> DEFINE chosen == CheckpointRange(s, e)
           all == WithAncestors(chosen)
           p == cps[all[1]].parent
           paths == IF p # 0 /\ ~Published(p) THEN Accumulated[all[1]] ELSE NoPaths
           todo == IF compact THEN <<e>> ELSE all
           whole == ReachesRoot(all[1]) /\ ~compact
<1>1. pub' = [step |-> "convert", all |-> all, todo |-> todo, made |-> <<>>,
              paths |-> paths, whole |-> whole, compact |-> compact, pin |-> pin]
  BY Zenon DEF PublishBegin
<1>2. JournalOK /\ s \in Line[e]
  BY DEF PublishBegin, TypeInv
<1>3. Follows(all)
  BY <1>2, BatchFollows
<1>4. chosen \subseteq Checkpoints /\ chosen # {}
  BY <1>2, BatchClosed
<1> HIDE DEF chosen
<1>5. all # <<>> /\ all[1] \in Checkpoints
  BY <1>2, <1>4, BatchLists
<1> HIDE DEF all
<1>6. Follows(<<e>>)
  BY DEF Follows
<1>7. Follows(todo)
  BY <1>3, <1>6
<1>8. UNCHANGED <<cps, index, commits, states, seed>>
  BY DEF PublishBegin, journalVars
<1> HIDE DEF p, paths, todo, whole
<1>9. /\ pub'.step = "convert" /\ pub'.made = <<>> /\ pub'.all = all /\ pub'.todo = todo
      /\ pub'.paths = paths /\ pub'.whole = whole
  BY <1>1
<1> QED
  BY <1>5, <1>7, <1>8, <1>9 DEF chosen, all, p, paths, todo, whole

(* What is left to do once one commit is made.                             *)
LEMMA OneShape ==
  ASSUME TypeInv, PublishOne
  PROVE  /\ pub.step = "convert" /\ pub.todo # <<>> /\ Head(pub.todo) \in Checkpoints
         /\ Len(pub.todo) \in Nat /\ Head(pub.todo) = pub.todo[1]
         /\ pub'.step = IF Len(pub.todo) = 1 THEN "flush" ELSE "convert"
         /\ pub'.todo = Tail(pub.todo) /\ pub'.made = Append(pub.made, Len(commits) + 1)
         /\ pub'.made # <<>> /\ Last(pub'.made) = Len(commits) + 1
         /\ Len(commits') = Len(commits) + 1 /\ commits'[Len(commits) + 1] = NextMade
         /\ UNCHANGED <<cps, index, seed>>
<1>1. /\ pub' = [pub EXCEPT !.todo = Tail(@), !.made = Append(@, Len(commits) + 1),
                            !.step = IF Len(pub.todo) = 1 THEN "flush" ELSE @]
      /\ pub.step = "convert" /\ pub.todo # <<>> /\ UNCHANGED <<cps, index, seed>>
  BY DEF PublishOne, journalVars
<1>2. /\ pub.todo \in Seq(Checkpoints) /\ pub.made \in Seq(Commits)
      /\ pub'.step = IF Len(pub.todo) = 1 THEN "flush" ELSE "convert"
      /\ pub'.todo = Tail(pub.todo) /\ pub'.made = Append(pub.made, Len(commits) + 1)
  BY <1>1 DEF TypeInv, PubOK
<1>3. Len(pub'.made) = Len(pub.made) + 1 /\ pub'.made[Len(pub.made) + 1] = Len(commits) + 1
  BY <1>2, AppendReads
<1>4. pub'.made # <<>> /\ Last(pub'.made) = Len(commits) + 1
  <2>1. Len(pub.made) \in Nat
    BY <1>2
  <2>2. pub'.made # <<>>
    BY <1>3, <2>1
  <2> QED
    BY <1>3, <2>2 DEF Last
<1>5. Len(commits') = Len(commits) + 1 /\ commits'[Len(commits) + 1] = NextMade
  BY NextMadeType, AppendReads DEF TypeInv, GraphOK
<1>6. Head(pub.todo) \in Checkpoints /\ Len(pub.todo) \in Nat /\ Head(pub.todo) = pub.todo[1]
  BY <1>1, <1>2
<1> QED
  BY <1>1, <1>2, <1>4, <1>5, <1>6

LEMMA TailShape ==
  ASSUME NEW S, NEW s, s \in Seq(S), s # <<>>, Len(s) # 1
  PROVE  /\ Len(Tail(s)) = Len(s) - 1 /\ Head(Tail(s)) = s[2] /\ 1 \in 1..(Len(s) - 1)
         /\ s[1] \in S /\ s[2] \in S
         /\ \A k \in 1..(Len(Tail(s)) - 1) : /\ Tail(s)[k] = s[k + 1] /\ Tail(s)[k + 1] = s[k + 2]
                                             /\ k + 1 \in 1..(Len(s) - 1)
<1>1. Len(s) \in Nat /\ Len(s) >= 2
  <2>1. Len(s) \in Nat
    OBVIOUS
  <2>2. Len(s) # 0
    OBVIOUS
  <2>3. \A n \in Nat : n # 0 /\ n # 1 => n >= 2
    OBVIOUS
  <2> QED
    BY <2>1, <2>2, <2>3, Zenon
<1>2. Len(Tail(s)) = Len(s) - 1
  OBVIOUS
<1>3. \A k \in 1..(Len(s) - 1) : Tail(s)[k] = s[k + 1]
  OBVIOUS
<1>4. Tail(s) \in Seq(S) /\ Tail(s) # <<>>
  BY TailType
<1>5. Head(Tail(s)) = Tail(s)[1]
  BY <1>4
<1>6. Tail(s)[1] = s[2]
  BY <1>1, <1>3
<1>7. s[1] \in S /\ s[2] \in S
  BY <1>1
<1>8. \A k \in 1..(Len(Tail(s)) - 1) :
        /\ k \in 1..(Len(s) - 1) /\ k + 1 \in 1..(Len(s) - 1) /\ (k + 1) + 1 = k + 2
  BY <1>1, <1>2
<1>9. \A k \in 1..(Len(Tail(s)) - 1) : Tail(s)[k] = s[k + 1] /\ Tail(s)[k + 1] = s[k + 2]
  BY <1>3, <1>8
<1> QED
  BY <1>1, <1>2, <1>5, <1>6, <1>7, <1>8, <1>9

LEMMA ChainedStays ==
  ASSUME TypeInv, Chained, Next
  PROVE  Chained'
<1>1. /\ \A i \in Checkpoints : cps'[i] = cps[i]
      /\ \A c \in Commits : commits'[c] = commits[c]
  BY EachGrows, WhatWasThere
<1>2. /\ pub.todo \in Seq(Checkpoints) /\ pub.made \in Seq(Commits)
      /\ pub.step = "convert" => pub.todo # <<>>
  BY DEF TypeInv, PubOK
<1>3. CASE pub' = pub
  <2> SUFFICES ASSUME pub.step = "convert"
               PROVE  /\ Follows(pub.todo)'
                      /\ pub.made # <<>> =>
                           /\ cps'[Head(pub.todo)].parent # 0
                           /\ commits'[Last(pub.made)].of = cps'[Head(pub.todo)].parent
    BY <1>3 DEF Chained
  <2>1. \A k \in 1..(Len(pub.todo) - 1) : pub.todo[k + 1] \in Checkpoints
    BY <1>2
  <2>2. Follows(pub.todo)'
    BY <1>1, <1>3, <2>1 DEF Chained, Follows
  <2>3. Head(pub.todo) \in Checkpoints /\ (pub.made # <<>> => Last(pub.made) \in Commits)
    BY <1>2 DEF Last
  <2> QED
    BY <1>1, <2>2, <2>3 DEF Chained
<1>4. CASE \E s, e \in Checkpoints, compact, pin \in BOOLEAN : PublishBegin(s, e, compact, pin)
  <2>1. pub'.made = <<>> /\ Follows(pub'.todo) /\ cps' = cps
    BY <1>4, BeginShape
  <2> QED
    BY <2>1 DEF Chained, Follows
<1>5. CASE PublishOne
  <2>1. /\ pub'.step = IF Len(pub.todo) = 1 THEN "flush" ELSE "convert"
        /\ pub'.todo = Tail(pub.todo) /\ pub.step = "convert" /\ pub.todo # <<>>
        /\ Last(pub'.made) = Len(commits) + 1 /\ cps' = cps
        /\ commits'[Len(commits) + 1] = NextMade /\ Head(pub.todo) = pub.todo[1]
    BY <1>5, OneShape
  <2> SUFFICES ASSUME Len(pub.todo) # 1
               PROVE  /\ Follows(pub.todo)'
                      /\ cps[Head(pub'.todo)].parent # 0
                      /\ commits'[Last(pub'.made)].of = cps[Head(pub'.todo)].parent
    BY <2>1 DEF Chained
  <2>2. Follows(pub.todo)
    BY <2>1 DEF Chained
  <2>3. Follows(pub.todo)'
    BY <1>2, <2>1, <2>2, TailShape DEF Follows
  <2>4. cps[Head(pub'.todo)].parent = pub.todo[1]
    <3>1. Head(pub'.todo) = pub.todo[2] /\ 1 \in 1..(Len(pub.todo) - 1)
      BY <1>2, <2>1, TailShape
    <3> QED
      BY <2>2, <3>1 DEF Follows
  <2>5. pub.todo[1] \in Checkpoints /\ pub.todo[1] # 0
    BY <1>2, <2>1 DEF Checkpoints
  <2>6. NextMade.of = pub.todo[1]
    BY <2>1 DEF NextMade, NewOf
  <2> QED
    BY <2>1, <2>3, <2>4, <2>5, <2>6
<1>6. CASE PublishFlush \/ PublishBookmark \/ PublishPin \/ PublishFails \/ PublishDies
  <2>1. pub'.step # "convert"
    BY <1>6 DEF PublishFlush, PublishBookmark, PublishPin, PublishFails, PublishDies, NoPublish,
      TypeInv, PubOK
  <2> QED
    BY <2>1 DEF Chained
<1> QED
  BY <1>3, <1>4, <1>5, <1>6, PubSteps

(* What the next commit is made upon.                                      *)
LEMMA UponParent ==
  ASSUME TypeInv, KeysLead, Chained, PublishOne
  PROVE  LET i == Head(pub.todo)
             base == ParentCommit(i)
             p == cps[i].parent
         IN  IF TrueParent(i)
             THEN p # 0 /\ p \in Checkpoints /\ base \in Commits
                    /\ (commits[base].of = p \/ cps[p].from = base)
             ELSE base = seed.commit
<1> DEFINE i == Head(pub.todo)
           base == ParentCommit(i)
           p == cps[i].parent
<1>1. i \in Checkpoints /\ pub.step = "convert"
  BY OneShape
<1>2. p # 0 => p \in Checkpoints /\ p \in 1..MaxCheckpoint
  BY <1>1, JjRepoAssumption DEF TypeInv, JournalOK, Checkpoints
<1>3. CASE pub.made # <<>>
  <2>1. base = Last(pub.made) /\ Last(pub.made) \in Commits
    BY <1>3 DEF ParentCommit, TypeInv, PubOK, Last
  <2> QED
    BY <1>1, <1>2, <1>3, <2>1 DEF Chained, TrueParent
<1>4. CASE pub.made = <<>> /\ p # 0 /\ Published(p)
  <2>1. base = mapping.fwd[p] /\ mapping.fwd[p] # 0
    BY <1>4 DEF ParentCommit, Published
  <2>2. Made(p, base)
    BY <1>2, <1>4, <2>1, KeysShape DEF KeysLead
  <2> QED
    BY <1>2, <1>4, <2>2 DEF TrueParent, Made
<1>5. CASE pub.made = <<>> /\ ~(p # 0 /\ Published(p))
  BY <1>5 DEF ParentCommit, TrueParent
<1> QED
  BY <1>3, <1>4, <1>5

LEMMA LineageStays ==
  ASSUME TypeInv, KeysLead, Chained, CommitLineage, Next
  PROVE  CommitLineage'
<1>1. /\ \A i \in Checkpoints : cps'[i] = cps[i]
      /\ \A c \in Commits : commits'[c] = commits[c]
      /\ Commits = 1..Len(commits) /\ Commits' = 1..Len(commits') /\ Len(commits) \in Nat
      /\ Checkpoints = 1..Len(cps)
  BY EachGrows, WhatWasThere
<1>2. seed' = seed
  BY SeedSteps
<1>3. \A c \in Commits : /\ commits[c].parent \in {0} \cup Commits
                         /\ commits[c].of # 0 => commits[c].of \in Checkpoints
  BY <1>1 DEF TypeInv, GraphOK
<1>4. \A i \in Checkpoints : cps[i].parent # 0 => cps[i].parent \in Checkpoints
  BY <1>1 DEF TypeInv, JournalOK
<1>5. ASSUME NEW c \in Commits, commits'[c].of # 0
      PROVE  LET upon == commits'[c].parent
                 p == cps'[commits'[c].of].parent
             IN  \/ upon \in {0, seed'.commit}
                 \/ p # 0 /\ (commits'[upon].of = p \/ cps'[p].from = upon)
  <2>1. commits'[c] = commits[c] /\ commits[c].of \in Checkpoints
    BY <1>1, <1>3, <1>5
  <2> DEFINE upon == commits[c].parent
             p == cps[commits[c].of].parent
  <2>2. cps'[commits[c].of].parent = p
    BY <1>1, <2>1
  <2>3. \/ upon = 0 \/ upon = seed.commit
        \/ upon \in Commits /\ p # 0 /\ p \in Checkpoints
             /\ (commits[upon].of = p \/ cps[p].from = upon)
    BY <1>3, <1>4, <1>5, <2>1 DEF CommitLineage
  <2> HIDE DEF upon, p
  <2>4. (upon \in Commits => commits'[upon] = commits[upon])
        /\ (p \in Checkpoints => cps'[p] = cps[p])
    BY <1>1
  <2>5. \/ upon \in {0, seed.commit}
        \/ p # 0 /\ (commits'[upon].of = p \/ cps'[p].from = upon)
    BY <2>3, <2>4
  <2> QED
    BY <1>2, <2>1, <2>2, <2>5 DEF upon, p
<1>6. CASE PublishOne
  <2>1. /\ Len(commits') = Len(commits) + 1 /\ commits'[Len(commits) + 1] = NextMade
        /\ cps' = cps /\ Head(pub.todo) \in Checkpoints
    BY <1>6, OneShape
  <2> DEFINE i == Head(pub.todo)
             base == ParentCommit(i)
             p == cps[i].parent
  <2>2. NextMade.of = i /\ NextMade.parent = base
    BY DEF NextMade, NewOf
  <2>3. base = seed.commit \/ (base \in Commits /\ p # 0
                                 /\ (commits[base].of = p \/ cps[p].from = base))
    BY <1>6, UponParent
  <2> HIDE DEF base, p, i
  <2>4. base = seed.commit \/ (p # 0 /\ (commits'[base].of = p \/ cps[p].from = base))
    BY <1>1, <2>3
  <2>5. \A c \in Commits' : c \in Commits \/ c = Len(commits) + 1
    BY <1>1, <2>1
  <2> QED
    BY <1>2, <1>5, <2>1, <2>2, <2>4, <2>5 DEF CommitLineage, p
<1>7. CASE OthersPush
  <2>1. PICK new : commits' = Append(commits, new) /\ new.of = 0
    BY <1>7, WhatIsAdded
  <2>2. Len(commits') = Len(commits) + 1 /\ commits'[Len(commits) + 1].of = 0
    BY <2>1, AppendReads DEF TypeInv, GraphOK
  <2>3. \A c \in Commits' : c \in Commits \/ c = Len(commits) + 1
    BY <1>1, <2>2
  <2> QED
    BY <1>5, <2>2, <2>3 DEF CommitLineage
<1>8. CASE commits' = commits
  <2>1. Commits' = Commits
    BY <1>8 DEF Commits
  <2> QED
    BY <1>5, <2>1 DEF CommitLineage
<1> QED
  BY <1>6, <1>7, <1>8, CommitsSteps

LEMMA LeadInit == Init => KeysLead /\ Chained
<1> SUFFICES ASSUME Init PROVE KeysLead /\ Chained
  OBVIOUS
<1>1. states = <<NoMapping>> /\ pub = NoPublish
  BY DEF Init, RepoInit, PublishInit
<1>2. KeysLead
  <2>1. \A k \in 1..Len(states) : k = 1
    BY <1>1
  <2>2. \A i \in 1..MaxCheckpoint : states[1].fwd[i] = 0
    BY <1>1 DEF NoMapping
  <2> QED
    BY <2>1, <2>2, Zenon DEF KeysLead
<1>3. Chained
  BY <1>1 DEF Chained, NoPublish
<1> QED
  BY <1>2, <1>3

LEMMA LeadStutters ==
  ASSUME KeysLead, Chained, UNCHANGED <<cps, commits, states, seed, pub>>
  PROVE  KeysLead' /\ Chained'
<1>1. \A i, c : Made(i, c)' <=> Made(i, c)
  BY DEF Made, Checkpoints, Commits
<1>2. KeysLead'
  BY <1>1 DEF KeysLead
<1>3. Chained'
  BY DEF Chained, Follows
<1> QED
  BY <1>2, <1>3

(* The commit of a checkpoint lies upon the commit of the checkpoint's     *)
(* parent, or upon the base that publishing without a parent starts from,  *)
(* through batches, squashed ranges, pulls, collections and deaths.        *)
THEOREM CommitsFollowParents == Spec => []CommitLineage
<1>1. Init => KeysLead /\ Chained /\ CommitLineage
  <2>1. Init => CommitLineage
    BY ShapeOfInit DEF InitShape, CommitLineage, Commits
  <2> QED
    BY <2>1, LeadInit
<1>2. TypeInv /\ KeysLead /\ Chained /\ CommitLineage /\ [Next]_vars =>
        KeysLead' /\ Chained' /\ CommitLineage'
  <2> SUFFICES ASSUME TypeInv, KeysLead, Chained, CommitLineage, [Next]_vars
               PROVE  KeysLead' /\ Chained' /\ CommitLineage'
    OBVIOUS
  <2>1. CASE Next
    BY <2>1, KeysKeepLeading, ChainedStays, LineageStays
  <2>2. CASE UNCHANGED vars
    <3>1. UNCHANGED <<cps, commits, states, seed, pub>>
      BY <2>2 DEF vars, repoVars, journalVars, mapVars
    <3>2. CommitLineage'
      BY <3>1 DEF CommitLineage, Commits
    <3> QED
      BY <3>1, <3>2, LeadStutters
  <2> QED
    BY <2>1, <2>2
<1>3. Spec => [](TypeInv /\ KeysLead /\ Chained /\ CommitLineage)
  BY TypeInit, TypeStep, <1>1, <1>2, PTL DEF Spec
<1> QED
  BY <1>3, PTL

-----------------------------------------------------------------------------
(* Trees of checkpoints: that of the imported commit; or, unless the loop  *)
(* did not know the tree of the parent, that tree but for touched paths.   *)
TouchedAt(i) ==
  /\ cps[i].from # 0 => cps[i].touched = {} /\ cps[i].tree = commits[cps[i].from].tree
  /\ cps[i].from = 0 /\ ~cps[i].gap /\ cps[i].parent # 0 =>
       \A p \in Path \ cps[i].touched : cps[i].tree[p] = cps[cps[i].parent].tree[p]
TreesTouched == \A i \in Checkpoints : TouchedAt(i)
TreesMade ==
  \A c \in Commits :
    commits[c].of # 0 => commits[c].guessed \/ commits[c].tree = cps[commits[c].of].tree
SeedKnown ==
  seed.commit # 0 => seed.tree = cps[1].tree /\ commits[seed.commit].tree = seed.tree
(* Accumulated paths that go back to the first checkpoint are all that has *)
(* changed since then.                                                     *)
WholePaths ==
  pub.step = "convert" /\ pub.made = <<>> /\ pub.paths # NoPaths /\ pub.whole =>
    \A p \in Path \ pub.paths : cps[Head(pub.todo)].tree[p] = cps[1].tree[p]

TreeInv == TreesTouched /\ TreesMade /\ SeedKnown /\ WholePaths

LEMMA TreeImplies ==
  ASSUME TypeInv, KeysLead, TreeInv
  PROVE  MappedTree
<1> SUFFICES ASSUME NEW i \in Checkpoints, Published(i)
             PROVE  LET c == commits[mapping.fwd[i]] IN c.guessed \/ c.tree = cps[i].tree
  BY DEF MappedTree
<1>1. mapping.fwd[i] # 0 /\ mapping = states[Len(states)] /\ Len(states) \in 1..Len(states)
      /\ i \in 1..MaxCheckpoint
  BY KeysShape DEF Published
<1>2. Made(i, mapping.fwd[i])
  BY <1>1 DEF KeysLead
<1>3. mapping.fwd[i] \in Commits /\ i # 0
  BY <1>2 DEF Made, Checkpoints
<1> QED
  BY <1>1, <1>2, <1>3 DEF Made, TreeInv, TreesTouched, TouchedAt, TreesMade

LEMMA TreesStayTouched ==
  ASSUME TypeInv, TreesTouched, Next
  PROVE  TreesTouched'
<1>1. /\ \A i \in Checkpoints : cps'[i] = cps[i]
      /\ \A c \in Commits : commits'[c] = commits[c]
      /\ Commits = 1..Len(commits) /\ Len(commits) \in Nat /\ Len(cps) \in Nat
      /\ Checkpoints = 1..Len(cps) /\ Checkpoints' = 1..Len(cps')
  BY EachGrows, WhatWasThere
<1>2. \A i \in Checkpoints : /\ cps[i].from # 0 => cps[i].from \in Commits
                             /\ cps[i].parent # 0 => cps[i].parent \in Checkpoints
  BY <1>1 DEF TypeInv, JournalOK
<1>3. ASSUME NEW i \in Checkpoints
      PROVE  /\ cps'[i].from # 0 =>
                  cps'[i].touched = {} /\ cps'[i].tree = commits'[cps'[i].from].tree
             /\ cps'[i].from = 0 /\ ~cps'[i].gap /\ cps'[i].parent # 0 =>
                  \A p \in Path \ cps'[i].touched : cps'[i].tree[p] = cps'[cps'[i].parent].tree[p]
  <2>1. cps'[i] = cps[i]
    BY <1>1
  <2>2. cps[i].from # 0 => commits'[cps[i].from] = commits[cps[i].from]
    BY <1>1, <1>2
  <2>3. cps[i].parent # 0 => cps'[cps[i].parent] = cps[cps[i].parent]
    BY <1>1, <1>2
  <2> QED
    BY <2>1, <2>2, <2>3 DEF TreesTouched, TouchedAt
<1>4. CASE LoopCheckpoint
  <2>1. PICK p \in Path, v \in Content \cup {Absent} :
          /\ map' = [map EXCEPT ![p] = v]
          /\ Record(Latest, map', {p}, 0, map # cps[Latest].tree)
    BY <1>4 DEF LoopCheckpoint
  <2> DEFINE new == [parent |-> Latest, tree |-> map', touched |-> {p}, from |-> 0,
                     gap |-> map # cps[Latest].tree]
  <2>2. cps' = Append(cps, new)
    BY <2>1 DEF Record
  <2>3. /\ new.from = 0 /\ new.parent = Latest /\ new.touched = {p} /\ new.tree = map'
        /\ ~new.gap => map = cps[Latest].tree
    OBVIOUS
  <2> HIDE DEF new
  <2>4. Len(cps') = Len(cps) + 1 /\ cps'[Len(cps) + 1] = new
    BY <2>2, AppendReads DEF TypeInv, JournalOK
  <2>5. Latest \in Checkpoints /\ cps'[Latest] = cps[Latest]
    BY <1>1, LatestIsLast DEF TypeInv
  <2>6. \A q \in Path \ {p} : map'[q] = map[q]
    BY <2>1 DEF TypeInv, DaemonOK, Tree
  <2>7. ~new.gap => \A q \in Path \ new.touched : new.tree[q] = cps'[new.parent].tree[q]
    BY <2>3, <2>5, <2>6
  <2>8. \A i \in Checkpoints' : i \in Checkpoints \/ i = Len(cps) + 1
    BY <1>1, <2>4
  <2> QED
    BY <1>3, <2>3, <2>4, <2>7, <2>8 DEF TreesTouched, TouchedAt
<1>5. CASE ImportAppend
  <2> DEFINE new == [parent |-> imp.parent, tree |-> commits[imp.commit].tree, touched |-> {},
                     from |-> imp.commit, gap |-> FALSE]
  <2>1. cps' = Append(cps, new) /\ commits' = commits /\ imp.commit # 0
    BY <1>5 DEF ImportAppend, Record, TypeInv, ImpOK
  <2>2. /\ new.from = imp.commit /\ new.touched = {} /\ new.tree = commits[imp.commit].tree
    OBVIOUS
  <2> HIDE DEF new
  <2>3. Len(cps') = Len(cps) + 1 /\ cps'[Len(cps) + 1] = new
    BY <2>1, AppendReads DEF TypeInv, JournalOK
  <2>4. \A i \in Checkpoints' : i \in Checkpoints \/ i = Len(cps) + 1
    BY <1>1, <2>3
  <2> SUFFICES ASSUME NEW i \in Checkpoints'
               PROVE  TouchedAt(i)'
    BY DEF TreesTouched, TouchedAt
  <2>5. CASE i \in Checkpoints
    BY <1>3, <2>1, <2>5 DEF TreesTouched, TouchedAt
  <2>6. CASE i = Len(cps) + 1
    BY <2>1, <2>2, <2>3, <2>6 DEF TouchedAt
  <2> QED
    BY <2>4, <2>5, <2>6
<1>6. CASE cps' = cps
  <2>1. Checkpoints' = Checkpoints
    BY <1>6 DEF Checkpoints
  <2> QED
    BY <1>3, <2>1 DEF TreesTouched, TouchedAt
<1> QED
  BY <1>4, <1>5, <1>6, CpsSteps DEF Collect

(* The tree that comes of the parent's tree and the list of paths.         *)
LEMMA NextTree ==
  ASSUME TypeInv, KeysLead, Chained, TreeInv, PublishOne
  PROVE  NextMade.guessed \/ NextMade.tree = cps[Head(pub.todo)].tree
<1>1. PICK i, base, paths :
        i = Head(pub.todo) /\ base = ParentCommit(i) /\ paths = ChangedPaths(i)
  OBVIOUS
<1>2. /\ NextMade.tree = Convert(base, paths, cps[i].tree)
      /\ NextMade.guessed = (base # 0 /\ Guess(i, base))
  BY <1>1 DEF NextMade, NewOf
<1>3. i \in Checkpoints /\ cps[i].tree \in Tree /\ pub.step = "convert"
  <2>1. i \in Checkpoints /\ pub.step = "convert"
    BY <1>1, OneShape
  <2>2. cps[i] \in Checkpoint
    BY <2>1 DEF TypeInv, JournalOK, Checkpoints
  <2> QED
    BY <2>1, <2>2 DEF Checkpoint
<1>4. ASSUME \A p \in Path \ paths : commits[base].tree[p] = cps[i].tree[p]
      PROVE  NextMade.tree = cps[i].tree
  BY <1>2, <1>3, <1>4 DEF Convert, Tree
<1>5. base = 0 \/ paths = {} => NextMade.tree = cps[i].tree
  BY <1>2 DEF Convert
<1>6. CASE TrueParent(i)
  <2>1. /\ paths = cps[i].touched
        /\ Guess(i, base) <=> paths # {} /\ (cps[i].gap \/ commits[base].guessed)
    BY <1>1, <1>6 DEF ChangedPaths, Guess
  <2>2. PICK p : p = cps[i].parent /\ p # 0 /\ p \in Checkpoints /\ base \in Commits
                 /\ (commits[base].of = p \/ cps[p].from = base)
    BY <1>1, <1>6, UponParent
  <2>3. base # 0 /\ p # 0
    BY <2>2 DEF Commits
  <2> SUFFICES ASSUME paths # {}, ~cps[i].gap, ~commits[base].guessed
               PROVE  NextMade.tree = cps[i].tree
    BY <1>1, <1>2, <1>5, <2>1, <2>3
  <2>4. commits[base].tree = cps[p].tree
    BY <2>2, <2>3 DEF TreeInv, TreesMade, TreesTouched, TouchedAt
  <2>5. cps[i].from = 0
    BY <1>3, <2>1 DEF TreeInv, TreesTouched, TouchedAt
  <2>6. \A q \in Path \ paths : cps[i].tree[q] = cps[p].tree[q]
    BY <1>3, <2>1, <2>2, <2>5 DEF TreeInv, TreesTouched, TouchedAt
  <2> QED
    BY <1>4, <2>4, <2>6
<1>7. CASE ~TrueParent(i) /\ base # 0
  <2>1. base = seed.commit /\ pub.made = <<>>
    BY <1>1, <1>7, UponParent DEF TrueParent
  <2>2. commits[base].tree = cps[1].tree /\ seed.tree = cps[1].tree
    BY <1>7, <2>1 DEF TreeInv, SeedKnown
  <2>3. CASE pub.paths # NoPaths
    <3>1. paths = pub.paths /\ (Guess(i, base) <=> ~pub.whole)
      BY <1>1, <1>7, <2>3 DEF ChangedPaths, Guess
    <3>2. pub.whole => \A q \in Path \ paths : cps[i].tree[q] = cps[1].tree[q]
      BY <1>1, <1>3, <2>1, <2>3, <3>1 DEF TreeInv, WholePaths
    <3> QED
      BY <1>1, <1>2, <1>4, <1>7, <2>2, <3>1, <3>2
  <2>4. CASE pub.paths = NoPaths
    <3>1. paths = Differ(cps[1].tree, cps[i].tree)
      BY <1>1, <1>7, <2>1, <2>2, <2>4 DEF ChangedPaths
    <3> QED
      BY <1>1, <1>4, <2>2, <3>1 DEF Differ
  <2> QED
    BY <2>3, <2>4
<1> QED
  BY <1>1, <1>5, <1>6, <1>7

LEMMA TreesStayMade ==
  ASSUME TypeInv, KeysLead, Chained, TreeInv, Next
  PROVE  TreesMade'
<1>1. /\ \A i \in Checkpoints : cps'[i] = cps[i]
      /\ \A c \in Commits : commits'[c] = commits[c]
      /\ Commits = 1..Len(commits) /\ Commits' = 1..Len(commits') /\ Len(commits) \in Nat
      /\ Checkpoints = 1..Len(cps)
  BY EachGrows, WhatWasThere
<1>2. \A c \in Commits : commits[c].of # 0 => commits[c].of \in Checkpoints
  BY <1>1 DEF TypeInv, GraphOK
<1>3. ASSUME NEW c \in Commits, commits'[c].of # 0
      PROVE  commits'[c].guessed \/ commits'[c].tree = cps'[commits'[c].of].tree
  <2>1. commits'[c] = commits[c] /\ cps'[commits[c].of] = cps[commits[c].of]
    BY <1>1, <1>2, <1>3
  <2> QED
    BY <1>3, <2>1 DEF TreeInv, TreesMade
<1>4. CASE PublishOne
  <2>1. /\ Len(commits') = Len(commits) + 1 /\ commits'[Len(commits) + 1] = NextMade
        /\ cps' = cps
    BY <1>4, OneShape
  <2>2. NextMade.of = Head(pub.todo)
    BY DEF NextMade, NewOf
  <2>3. \A c \in Commits' : c \in Commits \/ c = Len(commits) + 1
    BY <1>1, <2>1
  <2> QED
    BY <1>3, <1>4, <2>1, <2>2, <2>3, NextTree DEF TreesMade
<1>5. CASE OthersPush
  <2>1. PICK new : commits' = Append(commits, new) /\ new.of = 0
    BY <1>5, WhatIsAdded
  <2>2. Len(commits') = Len(commits) + 1 /\ commits'[Len(commits) + 1].of = 0
    BY <2>1, AppendReads DEF TypeInv, GraphOK
  <2>3. \A c \in Commits' : c \in Commits \/ c = Len(commits) + 1
    BY <1>1, <2>2
  <2> QED
    BY <1>3, <2>2, <2>3 DEF TreesMade
<1>6. CASE commits' = commits
  <2>1. Commits' = Commits
    BY <1>6 DEF Commits
  <2> QED
    BY <1>3, <2>1 DEF TreesMade
<1> QED
  BY <1>4, <1>5, <1>6, CommitsSteps

LEMMA SeedStaysKnown ==
  ASSUME TypeInv, SeedKnown, Next
  PROVE  SeedKnown'
<1>1. /\ \A i \in Checkpoints : cps'[i] = cps[i]
      /\ \A c \in Commits : commits'[c] = commits[c]
  BY EachGrows, WhatWasThere
<1>2. 1 \in Checkpoints /\ (seed.commit # 0 => seed.commit \in Commits)
  BY DEF TypeInv, JournalOK, GraphOK, Checkpoints, Commits
<1>3. seed' = seed
  BY SeedSteps
<1> QED
  BY <1>1, <1>2, <1>3 DEF SeedKnown

(* Along checkpoints of the loop, without a gap, back to the first one.    *)
LEMMA RootReached ==
  ASSUME JournalOK, TreesTouched
  PROVE  \A i \in Checkpoints : ReachesRoot(i) =>
           \A p \in Path \ Accumulated[i] : cps[i].tree[p] = cps[1].tree[p]
<1> DEFINE U == Unpublished({})
           Good(i) == ReachesRoot(i) =>
                        \A p \in Path \ Accumulated[i] : cps[i].tree[p] = cps[1].tree[p]
           Bad == {i \in Checkpoints : ~Good(i)}
<1> SUFFICES ASSUME Bad # {} PROVE FALSE
  OBVIOUS
<1>1. /\ Len(cps) \in Nat /\ Checkpoints = 1..Len(cps)
      /\ \A i \in Checkpoints : /\ cps[i].parent \in 0..(i - 1)
                                /\ cps[i].parent = 0 => i = 1
      /\ \A i \in Checkpoints : i \in Nat
  BY DEF JournalOK, Checkpoints
<1> HIDE DEF Good
<1>2. PICK i \in Bad : \A j \in Bad : i <= j
  <2>1. Bad \subseteq Nat
    BY <1>1
  <2> HIDE DEF Bad
  <2> QED
    BY <2>1, LeastNumber
<1>3. i \in Checkpoints /\ ReachesRoot(i)
  BY <1>2 DEF Good
<1> DEFINE q == cps[i].parent
<1>4. CASE q = 0
  BY <1>1, <1>2, <1>3, <1>4 DEF Good
<1>5. CASE q # 0
  <2>1. /\ 0 \notin U[i]
        /\ \A j \in U[i] \cup {i} : /\ cps[j].parent = 0 \/ ~Published(cps[j].parent)
                                    /\ ~cps[j].gap /\ cps[j].from = 0
    BY <1>3, Zenon DEF ReachesRoot
  <2>2. ~Published(q) /\ ~cps[i].gap /\ cps[i].from = 0
    BY <1>5, <2>1
  <2>3. GoesUp(i, {})
    <3>1. ~GoesUp(i, {}) => U[i] = {0}
      BY <1>3, <1>5, <2>2, UnpublishedUnfold
    <3> QED
      BY <2>1, <3>1
  <2>4. U[i] = {q} \cup U[q] /\ q \in index
    BY <1>3, <2>3, UnpublishedUnfold DEF GoesUp
  <2>5. ReachesRoot(q)
    BY <2>1, <2>4 DEF ReachesRoot
  <2>6. q \in Checkpoints /\ q < i
    <3>1. q \in 0..(i - 1)
      BY <1>1, <1>3
    <3> QED
      BY <1>1, <1>3, <1>5, <3>1
  <2>7. Good(q)
    BY <1>1, <1>2, <2>6
  <2>8. Accumulated[i] = cps[i].touched \cup Accumulated[q]
    BY <1>3, <2>3, AccumulatedUnfold
  <2>9. \A p \in Path \ cps[i].touched : cps[i].tree[p] = cps[q].tree[p]
    BY <1>3, <1>5, <2>2 DEF TreesTouched, TouchedAt
  <2> QED
    BY <1>2, <2>5, <2>7, <2>8, <2>9 DEF Good
<1> QED
  BY <1>4, <1>5

LEMMA PathsStayWhole ==
  ASSUME TypeInv, TreesTouched, WholePaths, Next
  PROVE  WholePaths'
<1>1. \A i \in Checkpoints : cps'[i] = cps[i]
  BY EachGrows, WhatWasThere
<1>2. 1 \in Checkpoints /\ (pub.step = "convert" => Head(pub.todo) \in Checkpoints)
  BY DEF TypeInv, PubOK, JournalOK, Checkpoints
<1>3. CASE pub' = pub
  BY <1>1, <1>2, <1>3 DEF WholePaths
<1>4. CASE \E s, e \in Checkpoints, compact, pin \in BOOLEAN : PublishBegin(s, e, compact, pin)
  <2>1. PICK s \in Checkpoints, e \in Checkpoints, compact \in BOOLEAN, pin \in BOOLEAN :
          PublishBegin(s, e, compact, pin)
    BY <1>4
  <2>2. PICK all : all = WithAncestors(CheckpointRange(s, e))
    OBVIOUS
  <2>3. PICK p : p = cps[all[1]].parent
    OBVIOUS
  <2>4. /\ pub'.todo = IF compact THEN <<e>> ELSE all
        /\ pub'.paths = IF p # 0 /\ ~Published(p) THEN Accumulated[all[1]] ELSE NoPaths
        /\ pub'.whole = (ReachesRoot(all[1]) /\ ~compact)
        /\ cps' = cps /\ all # <<>> /\ all[1] \in Checkpoints
    BY <2>1, <2>2, <2>3, BeginShape
  <2> SUFFICES ASSUME pub'.paths # NoPaths, pub'.whole
               PROVE  \A q \in Path \ pub'.paths : cps[Head(pub'.todo)].tree[q] = cps[1].tree[q]
    BY <2>4 DEF WholePaths
  <2>5. ReachesRoot(all[1]) /\ pub'.todo = all /\ pub'.paths = Accumulated[all[1]]
    BY <2>4
  <2>6. Head(pub'.todo) = all[1]
    BY <2>4, <2>5
  <2> QED
    BY <2>4, <2>5, <2>6, RootReached DEF TypeInv
<1>5. CASE PublishOne
  BY <1>5, OneShape DEF WholePaths
<1>6. CASE PublishFlush \/ PublishBookmark \/ PublishPin \/ PublishFails \/ PublishDies
  <2>1. pub'.step # "convert"
    BY <1>6 DEF PublishFlush, PublishBookmark, PublishPin, PublishFails, PublishDies, NoPublish,
      TypeInv, PubOK
  <2> QED
    BY <2>1 DEF WholePaths
<1> QED
  BY <1>3, <1>4, <1>5, <1>6, PubSteps

LEMMA TreeInit ==
  ASSUME "empty" \notin Seeds
  PROVE  Init => TreeInv
<1> SUFFICES ASSUME Init PROVE TreeInv
  OBVIOUS
<1>1. pub = NoPublish
  BY DEF Init, PublishInit
<1>2. TreesTouched
  <2>1. \A i \in Checkpoints : i = 1
    BY ShapeOfInit DEF InitShape, Checkpoints
  <2> QED
    BY <2>1, ShapeOfInit DEF InitShape, TreesTouched, TouchedAt
<1>3. TreesMade
  BY ShapeOfInit DEF InitShape, TreesMade, Commits
<1>4. SeedKnown
  BY ShapeOfInit DEF InitShape, SeedKnown
<1>5. WholePaths
  BY <1>1 DEF WholePaths, NoPublish
<1> QED
  BY <1>2, <1>3, <1>4, <1>5 DEF TreeInv

(* A commit has the tree of its checkpoint, although it is made of its     *)
(* parent's tree and a list of paths: through batches, squashed ranges,    *)
(* imports, lost keys and collected ancestors; if the seed commit has the  *)
(* tree that it is said to have.  Excepted is what is known to be guessed. *)
THEOREM CommitsHaveTheirTrees ==
  ASSUME "empty" \notin Seeds
  PROVE  Spec => []MappedTree
<1>1. Init => KeysLead /\ Chained /\ TreeInv
  BY LeadInit, TreeInit
<1>2. TypeInv /\ KeysLead /\ Chained /\ TreeInv /\ [Next]_vars =>
        KeysLead' /\ Chained' /\ TreeInv'
  <2> SUFFICES ASSUME TypeInv, KeysLead, Chained, TreeInv, [Next]_vars
               PROVE  KeysLead' /\ Chained' /\ TreeInv'
    OBVIOUS
  <2>1. CASE Next
    <3>1. TreeInv'
      BY <2>1, TreesStayTouched, TreesStayMade, SeedStaysKnown, PathsStayWhole DEF TreeInv
    <3> QED
      BY <2>1, <3>1, KeysKeepLeading, ChainedStays
  <2>2. CASE UNCHANGED vars
    <3>1. UNCHANGED <<cps, commits, states, seed, pub>>
      BY <2>2 DEF vars, repoVars, journalVars, mapVars
    <3>2. TreeInv'
      BY <3>1
      DEF TreeInv, TreesTouched, TouchedAt, TreesMade, SeedKnown, WholePaths, Checkpoints, Commits
    <3> QED
      BY <3>1, <3>2, LeadStutters
  <2> QED
    BY <2>1, <2>2
<1>3. Spec => [](TypeInv /\ KeysLead /\ Chained /\ TreeInv)
  BY TypeInit, TypeStep, <1>1, <1>2, PTL DEF Spec
<1> QED
  BY <1>3, TreeImplies, PTL

-----------------------------------------------------------------------------
(* Whoever answers gives one answer.                                       *)

LEMMA AncestorsTransitive ==
  ASSUME GraphOK
  PROVE  \A c \in 0..Len(commits) : \A d \in Ancestors[c] : Ancestors[d] \subseteq Ancestors[c]
<1> DEFINE Bad == {c \in 0..Len(commits) :
                     ~(\A d \in Ancestors[c] : Ancestors[d] \subseteq Ancestors[c])}
<1> SUFFICES ASSUME Bad # {} PROVE FALSE
  OBVIOUS
<1>1. PICK c \in Bad : \A d \in Bad : c <= d
  <2>1. Bad \subseteq Nat
    BY DEF GraphOK
  <2> HIDE DEF Bad
  <2> QED
    BY <2>1, LeastNumber
<1>2. c \in Commits
  BY <1>1, AncestorsUnfold DEF Commits
<1>3. Ancestors[c] = {c} \cup Ancestors[commits[c].parent]
  BY <1>2, AncestorsUnfold
<1>4. commits[c].parent \in 0..Len(commits) /\ commits[c].parent < c /\ c \in Nat
  BY <1>2 DEF GraphOK, Commits
<1>5. \A d \in Ancestors[commits[c].parent] :
        Ancestors[d] \subseteq Ancestors[commits[c].parent]
  BY <1>1, <1>4
<1> QED
  BY <1>1, <1>3, <1>5

LEMMA StatusSame ==
  ASSUME GraphOK, GitOK
  PROVE  StatusAgrees
<1> SUFFICES ASSUME bookmark # 0, tracking # 0
             PROVE  DivergedFast(bookmark, tracking) <=> DivergedByCount(bookmark, tracking)
  BY DEF StatusAgrees
<1>1. bookmark \in Commits /\ tracking \in Commits
  BY DEF GitOK, GraphOK, Commits
<1>2. ASSUME NEW b \in Commits, NEW t \in Commits
      PROVE  Ahead(b, t) > 0 <=> b \notin Ancestors[t]
  <2>1. /\ b \in Ancestors[b] /\ Ancestors[b] \subseteq Commits
        /\ b \in 0..Len(commits) /\ t \in 0..Len(commits)
    BY <1>2, AncestorsUnfold DEF Commits
  <2> DEFINE own == Ancestors[b] \ Ancestors[t]
  <2>2. IsFiniteSet(own) /\ Cardinality(own) \in Nat
    BY <2>1, FinitePart DEF GraphOK, Commits
  <2>3. Cardinality(own) = 0 <=> own = {}
    BY <2>2, FS_EmptySet
  <2>4. own = {} <=> b \in Ancestors[t]
    BY <2>1, AncestorsTransitive
  <2> HIDE DEF own
  <2>5. Cardinality(own) > 0 <=> own # {}
    BY <2>2, <2>3
  <2> QED
    BY <2>4, <2>5 DEF own, Ahead
<1>3. bookmark \in Ancestors[bookmark]
  BY <1>1, AncestorsUnfold
<1> QED
  BY <1>1, <1>2, <1>3 DEF DivergedFast, DivergedByCount, IsAncestor

(* What "pulled" names is in the journal, and so is what an import has     *)
(* made and is about to name.                                              *)
PinInv ==
  /\ pins["pulled"] \in index \cup {0}
  /\ imp.cp \in index \cup {0}

LEMMA ReferencesSame ==
  ASSUME TypeInv, PinInv
  PROVE  ResolversAgree
<1> SUFFICES ASSUME NEW text \in Text, text.pin # "published"
             PROVE  /\ ViaJournal(text) = ViaDaemon(text)
                    /\ ViaUtil(text) \in {ViaDaemon(text), 0}
  BY DEF ResolversAgree
<1>1. 0 \notin index
  BY DEF TypeInv, JournalOK, Checkpoints
<1>2. text.pin \in {"pulled", "gone"}
  BY DEF Text, PinName
<1>3. InIndex(PinTarget(text.pin)) = PinTarget(text.pin)
  BY <1>1, <1>2 DEF InIndex, PinTarget, PinInv
<1>4. text.full \notin index => InIndex(text.full) = 0
  BY DEF InIndex
<1>5. text.full \in index => InIndex(text.full) = text.full
  BY DEF InIndex
<1> QED
  BY <1>1, <1>3, <1>4, <1>5 DEF ViaJournal, ViaDaemon, ViaUtil

(* The history, unfolded.                                                  *)
LEMMA WalkUnfold ==
  ASSUME JournalOK
  PROVE  /\ Walk \in [0..Len(cps) -> Seq(index)]
         /\ \A i \in 0..Len(cps) :
              Walk[i] = IF i \notin index THEN <<>> ELSE <<i>> \o Walk[cps[i].parent]
<1> DEFINE D == 0..Len(cps)
           F(f) == [i \in D |-> IF i \notin index THEN <<>> ELSE <<i>> \o f[cps[i].parent]]
           stop == {i \in D : i \notin index}
           par == [i \in D |-> cps[i].parent]
           base == [i \in D |-> <<>>]
           V == Seq(index)
           step == [i \in D |-> [v \in V |-> <<i>> \o v]]
<1>1. \A i \in D : i \notin stop => par[i] \in D /\ par[i] < i /\ i \in index
  BY DEF JournalOK, Checkpoints
<1>2. Len(cps) \in Nat /\ \A i \in D : i \in 0..Len(cps)
  BY DEF JournalOK
<1>3. \A i \in D : i \in stop => base[i] \in V
  OBVIOUS
<1>4. \A i \in index, v \in V : <<i>> \o v \in V
  OBVIOUS
<1>5. \A i \in D : i \notin stop => step[i] \in [V -> V]
  BY <1>1, <1>4
<1>6. \A i \in D, v \in V : step[i][v] = <<i>> \o v
  OBVIOUS
<1>7. \A i \in D : /\ i \in stop <=> i \notin index
                   /\ base[i] = <<>> /\ par[i] = cps[i].parent
  OBVIOUS
<1>8. \A f : f = F(f) => f = [i \in D |-> f[i]]
               /\ \A i \in D : f[i] = IF i \notin index THEN <<>> ELSE <<i>> \o f[cps[i].parent]
  OBVIOUS
<1>9. \A f \in [D -> V] :
        (\A i \in D : f[i] = IF i \notin index THEN <<>> ELSE <<i>> \o f[cps[i].parent])
          => f = F(f)
  OBVIOUS
<1> HIDE DEF D, stop, par, base, step, V, F
<1>10. PICK g \in [D -> V] : Solves(g, D, stop, base, step, par)
  BY <1>1, <1>2, <1>3, <1>5, Recursion
<1>11. g = F(g)
  <2>1. ASSUME NEW i \in D
        PROVE  g[i] = IF i \notin index THEN <<>> ELSE <<i>> \o g[cps[i].parent]
    <3>1. g[i] = IF i \in stop THEN base[i] ELSE step[i][g[par[i]]]
      BY <1>10 DEF Solves
    <3>2. i \notin stop => g[par[i]] \in V
      BY <1>1, <1>10
    <3> QED
      BY <3>1, <3>2, <1>6, <1>7
  <2> QED
    BY <2>1, <1>9, <1>10
<1>12. Walk = F(Walk)
  <2>1. \E f : f = F(f)
    BY <1>11
  <2> QED
    BY <2>1, Zenon DEF Walk, D, F
<1>13. \A i \in D : Walk[i] = IF i \notin index THEN <<>> ELSE <<i>> \o Walk[cps[i].parent]
  BY <1>8, <1>12
<1>14. Walk \in [D -> V]
  <2> DEFINE Bad == {i \in D : Walk[i] \notin V}
  <2>1. Bad = {}
    <3> SUFFICES ASSUME Bad # {} PROVE FALSE
      OBVIOUS
    <3>1. PICK i \in Bad : \A j \in Bad : i <= j
      <4>1. Bad \subseteq Nat
        BY <1>2
      <4> HIDE DEF Bad
      <4> QED
        BY <4>1, LeastNumber
    <3>2. i \in D /\ Walk[i] \notin V /\ i \in Nat
      BY <1>2, <3>1
    <3>3. CASE i \in stop
      BY <1>3, <1>7, <1>13, <3>2, <3>3
    <3>4. CASE i \notin stop
      <4>1. par[i] \in D /\ par[i] < i /\ i \in index /\ par[i] = cps[i].parent /\ par[i] \in Nat
        <5>1. par[i] \in D /\ par[i] < i /\ i \in index
          BY <1>1, <3>2, <3>4
        <5>2. par[i] \in 0..Len(cps)
          BY <1>2, <5>1
        <5>3. par[i] = cps[i].parent
          BY <1>7, <3>2
        <5> QED
          BY <1>2, <5>1, <5>2, <5>3
      <4>2. par[i] \notin Bad
        BY <3>1, <3>2, <4>1
      <4>3. Walk[cps[i].parent] \in V
        BY <4>1, <4>2
      <4> QED
        BY <1>4, <1>13, <3>2, <4>1, <4>3
    <3> QED
      BY <3>3, <3>4
  <2> QED
    BY <1>8, <1>12, <2>1
<1> QED
  BY <1>13, <1>14 DEF D, V

(* A sequence that goes up from i by parents, as far as there are any.     *)
GoesBack(s, i) ==
  /\ Len(s) >= 1 /\ s[1] = i
  /\ \A k \in 1..(Len(s) - 1) : s[k + 1] = cps[s[k]].parent
  /\ cps[s[Len(s)]].parent \notin index

LEMMA PrefixedReads ==
  ASSUME NEW S, NEW i \in S, NEW s \in Seq(S)
  PROVE  LET t == <<i>> \o s IN
         /\ t \in Seq(S) /\ Len(t) = Len(s) + 1 /\ t[1] = i
         /\ \A k \in 1..Len(s) : t[k + 1] = s[k]
OBVIOUS

LEMMA WalkGoesBack ==
  ASSUME JournalOK
  PROVE  \A i \in index : GoesBack(Walk[i], i)
<1> DEFINE Bad == {i \in index : ~GoesBack(Walk[i], i)}
<1> SUFFICES ASSUME Bad # {} PROVE FALSE
  OBVIOUS
<1>1. PICK i \in Bad : \A j \in Bad : i <= j
  <2>1. Bad \subseteq Nat
    <3>1. index \subseteq Nat
      BY DEF JournalOK, Checkpoints
    <3> QED
      BY <3>1
  <2> HIDE DEF Bad
  <2> QED
    BY <2>1, LeastNumber
<1>2. PICK p : p = cps[i].parent
  OBVIOUS
<1>3. i \in 0..Len(cps) /\ i \in index /\ p \in 0..Len(cps) /\ p < i
  BY <1>1, <1>2 DEF JournalOK, Checkpoints
<1>4. Walk[p] \in Seq(index) /\ Walk[i] = <<i>> \o Walk[p]
  BY <1>2, <1>3, WalkUnfold
<1>5. PICK s, t : s = Walk[p] /\ t = Walk[i]
  OBVIOUS
<1>6. /\ s \in Seq(index) /\ Len(t) = Len(s) + 1 /\ t[1] = i /\ Len(s) \in Nat
      /\ \A k \in 1..Len(s) : t[k + 1] = s[k]
  BY <1>3, <1>4, <1>5, PrefixedReads
<1>7. CASE p \in index
  <2>1. GoesBack(s, p)
    BY <1>1, <1>3, <1>5, <1>7
  <2>2. Len(s) >= 1 /\ s[1] = p /\ cps[s[Len(s)]].parent \notin index
    BY <2>1 DEF GoesBack
  <2>3. t[Len(t)] = s[Len(s)]
    BY <1>6, <2>2
  <2>4. ASSUME NEW k \in 1..(Len(t) - 1)
        PROVE  t[k + 1] = cps[t[k]].parent
    <3>1. CASE k = 1
      BY <1>2, <1>6, <2>2, <3>1
    <3>2. CASE k # 1
      <4>1. k - 1 \in 1..(Len(s) - 1) /\ k - 1 \in 1..Len(s) /\ k \in 1..Len(s) /\ (k - 1) + 1 = k
        BY <1>6, <2>4, <3>2
      <4>2. s[(k - 1) + 1] = cps[s[k - 1]].parent
        BY <2>1, <4>1 DEF GoesBack
      <4>3. t[k + 1] = s[k] /\ t[(k - 1) + 1] = s[k - 1]
        BY <1>6, <4>1
      <4> QED
        BY <4>1, <4>2, <4>3
    <3> QED
      BY <3>1, <3>2
  <2>5. GoesBack(t, i)
    BY <1>6, <2>2, <2>3, <2>4 DEF GoesBack
  <2> QED
    BY <1>1, <1>5, <2>5
<1>8. CASE p \notin index
  <2>1. Len(t) = 1
    <3>1. s = <<>>
      BY <1>3, <1>5, <1>8, WalkUnfold
    <3> QED
      BY <1>6, <3>1
  <2>2. t[Len(t)] = i
    BY <1>6, <2>1, Zenon
  <2>3. \A k \in 1..(Len(t) - 1) : FALSE
    <3>1. \A n : n = 1 => \A k \in 1..(n - 1) : FALSE
      OBVIOUS
    <3> QED
      BY <2>1, <3>1, Zenon
  <2>4. cps[t[Len(t)]].parent \notin index
    BY <1>2, <1>8, <2>2, Zenon
  <2>5. GoesBack(t, i)
    BY <1>6, <2>1, <2>3, <2>4 DEF GoesBack
  <2> QED
    BY <1>1, <1>5, <2>5
<1> QED
  BY <1>7, <1>8

(* HEAD~n is what stands at the place n of the history.                    *)
LEMMA HeadBackReads ==
  ASSUME JournalOK
  PROVE  /\ History \in Seq(index)
         /\ \A n \in Nat : HeadBack[n] = IF n < Len(History) THEN History[n + 1] ELSE 0
<1>1. Latest \in index /\ 0 \notin index /\ Latest \in 0..Len(cps)
  BY LatestIsLast DEF JournalOK, Checkpoints
<1>2. PICK s : s = History
  OBVIOUS
<1>3. s \in Seq(index) /\ GoesBack(s, Latest)
  BY <1>1, <1>2, WalkUnfold, WalkGoesBack DEF History
<1> DEFINE g == [n \in Nat |-> IF n < Len(s) THEN s[n + 1] ELSE 0]
           G(f) == [n \in Nat |-> IF n = 0 THEN Latest ELSE Back(f[n - 1])]
<1>4. \A n \in Nat : g[n] = IF n < Len(s) THEN s[n + 1] ELSE 0
  OBVIOUS
<1>5. g[0] = Latest
  BY <1>3 DEF GoesBack
<1>6. ASSUME NEW n \in Nat \ {0}
      PROVE  g[n] = Back(g[n - 1])
  <2>1. n - 1 \in Nat /\ (n - 1) + 1 = n /\ Len(s) \in Nat
    BY <1>3, <1>6
  <2>2. CASE n < Len(s)
    <3>1. n \in 1..(Len(s) - 1) /\ n \in 1..Len(s) /\ n + 1 \in 1..Len(s)
      BY <2>1, <2>2
    <3>2. g[n - 1] = s[n] /\ g[n] = s[n + 1] /\ s[n] \in index /\ s[n + 1] \in index
      BY <1>3, <1>4, <2>1, <2>2, <3>1
    <3>3. s[n + 1] = cps[s[n]].parent
      BY <1>3, <3>1 DEF GoesBack
    <3> QED
      BY <1>1, <3>2, <3>3 DEF Back, InIndex
  <2>3. CASE n = Len(s)
    <3>1. n \in 1..Len(s)
      BY <2>1, <2>3
    <3>2. g[n - 1] = s[n] /\ g[n] = 0 /\ s[n] \in index
      BY <1>3, <1>4, <2>1, <2>3, <3>1
    <3>3. cps[s[n]].parent \notin index
      BY <1>3, <2>3 DEF GoesBack
    <3> QED
      BY <1>1, <3>2, <3>3 DEF Back, InIndex
  <2>4. CASE n > Len(s)
    <3>1. g[n - 1] = 0 /\ g[n] = 0
      BY <1>4, <2>1, <2>4
    <3> QED
      BY <3>1 DEF Back
  <2> QED
    BY <2>1, <2>2, <2>3, <2>4
<1>7. g = G(g)
  <2>1. \A n \in Nat : g[n] = IF n = 0 THEN Latest ELSE Back(g[n - 1])
    BY <1>5, <1>6
  <2>2. g = [n \in Nat |-> g[n]]
    OBVIOUS
  <2> HIDE DEF g
  <2> QED
    BY <2>1, <2>2
<1>8. HeadBack = G(HeadBack)
  <2> HIDE DEF g, G
  <2>1. \E f : f = G(f)
    BY <1>7
  <2> QED
    BY <2>1, Zenon DEF HeadBack, G
<1>9. \A n \in Nat : HeadBack[n] = IF n = 0 THEN Latest ELSE Back(HeadBack[n - 1])
  BY <1>8
<1> HIDE DEF g, G
<1> DEFINE Bad == {n \in Nat : HeadBack[n] # g[n]}
<1>10. Bad = {}
  <2> SUFFICES ASSUME Bad # {} PROVE FALSE
    OBVIOUS
  <2>1. PICK n \in Bad : \A m \in Bad : n <= m
    BY LeastNumber
  <2>2. CASE n = 0
    BY <1>5, <1>9, <2>1, <2>2
  <2>3. CASE n # 0
    <3>1. n - 1 \in Nat /\ n - 1 < n
      BY <2>3
    <3>2. HeadBack[n - 1] = g[n - 1]
      BY <2>1, <3>1
    <3> QED
      BY <1>6, <1>9, <2>1, <2>3, <3>2
  <2> QED
    BY <2>2, <2>3
<1> QED
  BY <1>2, <1>3, <1>4, <1>10

LEMMA PageReads ==
  ASSUME JournalOK
  PROVE  LogNamesHead
<1> SUFFICES ASSUME NEW limit \in 1..2, NEW offset \in 0..MaxCheckpoint
             PROVE  LET page == Page(limit, offset) IN
                    /\ Len(page) <= limit
                    /\ \A k \in 1..limit :
                         HeadBack[offset + k - 1] = IF k <= Len(page) THEN page[k] ELSE 0
  BY DEF LogNamesHead
<1>1. PICK s : s = History
  OBVIOUS
<1>2. /\ s \in Seq(index) /\ Len(s) \in Nat /\ offset \in Nat /\ limit \in Nat
      /\ \A n \in Nat : HeadBack[n] = IF n < Len(s) THEN s[n + 1] ELSE 0
  BY <1>1, HeadBackReads, JjRepoAssumption
<1>3. PICK e : e = Min({offset + limit, Len(s)})
  OBVIOUS
<1>4. e \in Nat /\ e = IF offset + limit <= Len(s) THEN offset + limit ELSE Len(s)
  BY <1>2, <1>3 DEF Min
<1>5. PICK page : page = SubSeq(s, offset + 1, e)
  OBVIOUS
<1>6. page = Page(limit, offset)
  BY <1>1, <1>3, <1>5 DEF Page
<1>7. /\ Len(page) = IF offset + 1 <= e THEN e - offset ELSE 0
      /\ \A k \in 1..Len(page) : page[k] = s[offset + k]
  BY <1>2, <1>4, <1>5
<1>8. Len(page) <= limit /\ Len(page) \in Nat
  BY <1>2, <1>4, <1>7
<1>9. ASSUME NEW k \in 1..limit
      PROVE  HeadBack[offset + k - 1] = IF k <= Len(page) THEN page[k] ELSE 0
  <2>1. PICK n : n = offset + k - 1
    OBVIOUS
  <2>2. n \in Nat /\ n + 1 = offset + k
    BY <1>2, <2>1
  <2>3. k <= Len(page) <=> n < Len(s)
    BY <1>2, <1>4, <1>7, <2>1
  <2>4. k <= Len(page) => page[k] = s[offset + k]
    BY <1>7, <1>8
  <2> QED
    BY <1>2, <2>1, <2>2, <2>3, <2>4
<1> QED
  BY <1>6, <1>8, <1>9

(* Nothing that "pulled" names is collected: a collection wants the        *)
(* journal, and no import is under way then.                               *)
LEMMA PinsStay ==
  ASSUME TypeInv, PinInv, Next
  PROVE  PinInv'
<1>1. index \subseteq index' \/ (Collect /\ imp.by = "daemon" /\ imp' = imp)
  <2>2. index \subseteq index' \/ (Collect /\ imp.by = "daemon" /\ UNCHANGED importVars)
    BY DEF Next, PublishNext, PublishBegin, PublishOne, PublishFlush, PublishBookmark,
      PublishPin, PublishFails, PublishDies, ImportNext, PullBegin, PullGivesUp, PullSynced,
      ImportBegin, ImportAppend, ImportMap, ImportFlush, ImportPin, DaemonDies, PullDies,
      DaemonStarts, PushNext, PushHead, PushHeadSend, PushFetch, PushSend, PushRecord, PushDies,
      LoopCheckpoint, RebuildMap, OthersPush, DeleteBranch, CreateBranch, Record, journalVars,
      repoVars
  <2> QED
    BY <2>2 DEF importVars
<1>2. imp'.cp \in {imp.cp, 0} \/ ImportAppend
  <2>1. imp \in [step : {"idle", "append", "map", "flush", "pin"}, by : {"daemon", "command"},
                 commit : 0..Len(commits), parent : 0..Len(cps), cp : 0..Len(cps)]
    BY DEF TypeInv, ImpOK
  <2>2. CASE imp' = imp \/ imp' = NoImport
    BY <2>2 DEF NoImport
  <2>3. CASE ImportBegin
    BY <2>3 DEF ImportBegin
  <2>4. CASE ImportMap \/ ImportFlush
    BY <2>1, <2>4 DEF ImportMap, ImportFlush
  <2> QED
    BY <2>2, <2>3, <2>4, ImportSteps DEF PullBegin, PullGivesUp, PullSynced, ImportPin,
      DaemonDies, PullDies, ImportLeaves
<1>3. pins'["pulled"] \in {pins["pulled"], imp.cp}
  BY PinsSteps DEF PublishPin, ImportPin, TypeInv, JournalOK
<1>4. CASE Collect /\ imp.by = "daemon" /\ imp' = imp
  <2>1. ~up /\ imp' = imp /\ pins' = pins
    BY <1>4 DEF Collect
  <2>2. imp.cp = 0
    BY <1>4, <2>1 DEF TypeInv, ImpOK, NoImport
  <2>3. PICK i \in index \ {Latest, pins["published"], pins["pulled"]} : index' = index \ {i}
    BY <1>4 DEF Collect
  <2> QED
    BY <2>1, <2>2, <2>3 DEF PinInv
<1>5. CASE ImportAppend
  <2>1. index \subseteq index' /\ imp'.cp \in index' /\ pins' = pins
    BY <1>5 DEF ImportAppend, Record, TypeInv, ImpOK
  <2> QED
    BY <2>1 DEF PinInv
<1>6. CASE index \subseteq index' /\ imp'.cp \in {imp.cp, 0}
  BY <1>3, <1>6 DEF PinInv
<1> QED
  BY <1>1, <1>2, <1>4, <1>5, <1>6

(* Whoever answers, a reference, a line of a log and the state of a branch *)
(* are the same: however checkpoints were pulled, collected and published. *)
THEOREM OneAnswer == Spec => []AnswersAgree
<1>1. Init => PinInv
  BY DEF Init, RepoInit, ImportInit, NoImport, PinInv
<1>2. TypeInv /\ PinInv /\ [Next]_vars => PinInv'
  <2>1. UNCHANGED vars /\ PinInv => PinInv'
    BY DEF vars, repoVars, journalVars, importVars, PinInv
  <2> QED
    BY <2>1, PinsStay
<1>3. Spec => [](TypeInv /\ PinInv)
  BY TypeInit, TypeStep, <1>1, <1>2, PTL DEF Spec
<1>4. TypeInv /\ PinInv => AnswersAgree
  BY ReferencesSame, PageReads, StatusSame DEF AnswersAgree, TypeInv
<1> QED
  BY <1>3, <1>4, PTL
================================================================================
