-------------------------- MODULE SiteCacheProofs --------------------------
(***************************************************************************)
(* Proofs about SiteCache, for all sites, workers, lockfiles and limits    *)
(* and any number of builds, resets and kills.                             *)
(*                                                                         *)
(* CacheInv has four parts: what the variables hold and how a worker's     *)
(* prune or wipe goes with its build (Shape), that the directory of a      *)
(* build is fresh (Fresh), what an undisturbed directory contains at each  *)
(* stage of the only one who uses it (SiteOK), and how far a prune has got *)
(* with the sites it has to itself (PruneOK).                              *)
(***************************************************************************)
EXTENDS SiteCache, NaturalFacts

OnLoop == {"wiping", "wiped", "writing"}
Ahead == {"prepared", "pruning", "ready", "building"}
Stage == {"idle"} \cup OnLoop \cup Ahead
At == {"idle", "age", "size", "trim", "all", "judged", "removing"}

Build == [stage : Stage, site : Sites \cup {NoSite}, lock : Lockfiles \cup {NoLock},
          mounted : BOOLEAN]
Task == [at : At, why : {"none", "age", "size", "all", "one", "wipe"}, left : SUBSET Sites,
         site : Sites \cup {NoSite}, todo : SUBSET Entry, here : BOOLEAN]

DirsOK ==
  /\ dirs \in [Sites -> Directory \cup {NoDir}]
  /\ \A s \in Sites : Exists(s) => IsFiniteSet(dirs[s].files)

\* A build, and the prune or the wipe that its worker is at for it.
WorkerOK(w) ==
  /\ build[w].stage # "idle" <=> build[w].site \in Sites
  /\ build[w].stage \in OnLoop => build[w].mounted
  /\ build[w].mounted => build[w].lock \in Lockfiles
  /\ build[w].stage = "wiping" => task[w].why = "wipe" /\ task[w].site = build[w].site
  /\ build[w].stage = "pruning" =>
       /\ task[w].at \in {"age", "size", "trim"} \/ task[w].why \in {"age", "size"}
       /\ build[w].site \notin task[w].left \cup {task[w].site}
  /\ build[w].stage \notin {"wiping", "pruning"} => task[w] = NoTask
  /\ (build[w].stage = "building" /\ build[w].mounted) => Exists(build[w].site)

TaskOK(r) ==
  /\ task[r].at \in {"trim", "judged", "removing"} <=> task[r].site \in Sites
  /\ task[r].at \in {"judged", "removing"} <=> task[r].why # "none"
  /\ r \notin Workers => /\ task[r].at \in {"idle", "all", "judged", "removing"}
                         /\ task[r].why \in {"none", "one", "all"}

Looping == {w \in Workers : build[w].stage \in OnLoop} \cup {r \in {Handler} : task[r].at # "idle"}
OneOnLoop == \A x, y \in Looping : x = y

Shape ==
  /\ DirsOK
  /\ build \in [Workers -> Build] /\ task \in [Removers -> Task]
  /\ \A w \in Workers : WorkerOK(w)
  /\ \A r \in Removers : TaskOK(r)
  /\ OneOnLoop
  /\ disturbed \subseteq Sites /\ quiet \in [Workers -> SUBSET Sites]

\* The directory that a build mounts is not expired.
Fresh(w) == Mounts(w) => ~dirs[build[w].site].old

-----------------------------------------------------------------------------
(* What a directory contains while the operations on it follow one another. *)

AllOf(s, l) == \A f \in dirs[s].files : f.of = l

\* For the one who removes the directory, and for the build that uses it.
RemoverAt(r, s) ==
  (task[r].at = "removing" /\ task[r].site = s) =>
    Exists(s) /\ task[r].here /\ EntriesOf(s) \subseteq task[r].todo

BuildAt(w, s) ==
  (build[w].site = s /\ build[w].mounted) =>
    /\ (build[w].stage = "wiped" /\ Exists(s)) =>
         ~dirs[s].marker /\ dirs[s].meta \in {Absent, build[w].lock}
    /\ build[w].stage = "writing" =>
         Exists(s) /\ ~dirs[s].marker /\ dirs[s].meta = Torn /\ AllOf(s, build[w].lock)
    /\ build[w].stage \in Ahead =>
         Exists(s) /\ ~dirs[s].marker /\ dirs[s].meta = build[w].lock /\ AllOf(s, build[w].lock)

\* For the next build: metadata that can be read tells what the files are.
Labelled(s) ==
  (Exists(s) /\ ~dirs[s].marker /\ \A r \in Removers : task[r].at = "removing" => task[r].site # s) =>
    /\ dirs[s].meta = Absent => dirs[s].files = {}
    /\ dirs[s].meta \in Lockfiles => AllOf(s, dirs[s].meta)

SiteInv(s) ==
  /\ \A u, v \in Users(s) : u = v
  /\ Labelled(s)
  /\ \A r \in Removers : RemoverAt(r, s)
  /\ \A w \in Workers : BuildAt(w, s)

SiteOK(s) == s \notin disturbed => SiteInv(s)

-----------------------------------------------------------------------------
(* How far a prune has got.                                                *)

Sizing(w) == task[w].at \in {"size", "trim"} \/ task[w].why = "size"
Due(w) == task[w].left \cup {task[w].site}

Progress(w, s) ==
  Exists(s) =>
    IF Sizing(w) THEN ~dirs[s].old /\ (s \in Due(w) \/ Cardinality(dirs[s].files) <= SiteMax)
    ELSE s \in Due(w) \/ ~dirs[s].old

PruneOK(w) ==
  \A s \in quiet[w] :
    /\ build[w].stage = "pruning" /\ s # build[w].site
    /\ Users(s) \subseteq {w}
    /\ Progress(w, s)

CacheInv ==
  /\ Shape
  /\ \A w \in Workers : Fresh(w) /\ PruneOK(w)
  /\ \A s \in Sites : SiteOK(s)

-----------------------------------------------------------------------------
(* The history variables.                                                  *)

\* A finite set with at most one element.
LEMMA AtMostOne ==
  ASSUME NEW S, IsFiniteSet(S), ~(Cardinality(S) > 1), NEW u \in S, NEW v \in S
  PROVE  u = v
<1>. SUFFICES ASSUME u # v PROVE FALSE
  OBVIOUS
<1>1. Cardinality(S) \in Nat
  BY FS_CardinalityType
<1>2. IsFiniteSet({u}) /\ Cardinality({u}) = 1
  BY FS_Singleton
<1>3. Cardinality({u} \cup {v}) = 2
  BY <1>2, FS_AddElement
<1>4. Cardinality({u} \cup {v}) <= Cardinality(S)
  <2>1. {u} \cup {v} \in SUBSET S
    OBVIOUS
  <2>. QED  BY <2>1, FS_Subset
<1>. QED  BY <1>1, <1>3, <1>4

\* There are finitely many removers, so the users of a site can be counted.
LEMMA RemoversAreFinite == IsFiniteSet(Removers)
<1>1. IsFiniteSet({Handler}) /\ IsFiniteSet({Cli})
  BY FS_Singleton
<1>2. IsFiniteSet({Handler} \cup {Cli})
  BY <1>1, FS_Union
<1>3. Removers = Workers \cup ({Handler} \cup {Cli})
  BY DEF Removers
<1>. QED  BY <1>2, <1>3, FS_Union, SiteCacheAssumption

\* A site that is not disturbed has one user at most, and was not disturbed before
\* or has been removed.  A site that is quiet for a prune is used by it alone.
LEMMA HistoryFacts ==
  ASSUME NEW aged, NEW broken, History(aged, broken), broken \subseteq Sites,
         disturbed \subseteq Sites, quiet \in [Workers -> SUBSET Sites]
  PROVE  /\ disturbed' \subseteq Sites /\ quiet' \in [Workers -> SUBSET Sites]
         /\ \A s \in Sites \ disturbed' :
              /\ \A u, v \in Users(s)' : u = v
              /\ s \notin disturbed \cup broken \/ Clean(s)'
         /\ \A w \in Workers : \A s \in quiet'[w] :
              /\ build'[w].stage = "pruning"
              /\ build[w].stage # "pruning" => s # build[w].site /\ Users(s) = {}
              /\ build[w].stage = "pruning" => s \in quiet[w] \ aged /\ Users(s)' \subseteq {w}
<1>1. ASSUME NEW s \in Sites \ disturbed'
      PROVE  /\ \A u, v \in Users(s)' : u = v
             /\ s \notin disturbed \cup broken \/ Clean(s)'
  <2>1. ~(Cardinality(Users(s)') > 1)
    BY <1>1 DEF History
  <2>2. Users(s)' \subseteq Removers
    BY DEF Users, Removers
  <2>3. IsFiniteSet(Users(s)')
    BY <2>2, RemoversAreFinite, FS_Subset
  <2>4. ASSUME NEW u \in Users(s)', NEW v \in Users(s)' PROVE u = v
    <3>. DEFINE U == Users(s)'
    <3>1. IsFiniteSet(U) /\ ~(Cardinality(U) > 1) /\ u \in U /\ v \in U
      BY <2>1, <2>3, <2>4
    <3>. HIDE DEF U
    <3>. QED  BY <3>1, AtMostOne
  <2>5. s \notin disturbed \cup broken \/ Clean(s)'
    BY <1>1 DEF History
  <2>. QED  BY <2>4, <2>5
<1>2. disturbed' \subseteq Sites
  BY DEF History
<1>3. ASSUME NEW w \in Workers
      PROVE  /\ quiet'[w] \subseteq Sites
             /\ \A s \in quiet'[w] :
                  /\ build'[w].stage = "pruning"
                  /\ build[w].stage # "pruning" => s # build[w].site /\ Users(s) = {}
                  /\ build[w].stage = "pruning" => s \in quiet[w] \ aged /\ Users(s)' \subseteq {w}
  BY DEF History
<1>4. quiet' \in [Workers -> SUBSET Sites]
  <2>1. quiet' = [w \in Workers |-> quiet'[w]]
    BY DEF History
  <2>. QED  BY <1>3, <2>1
<1>. QED  BY <1>1, <1>2, <1>3, <1>4

-----------------------------------------------------------------------------
(* Steps of one actor: a worker, the handler or the CLI.  Alone(a) says what *)
(* such a step may do to the others and what has to be shown of a itself;    *)
(* AloneKeepsInv that it is enough.                                          *)

\* The directory stays, and loses files at most.
Kept(s) ==
  /\ Exists(s)' <=> Exists(s)
  /\ Exists(s) => /\ dirs'[s].meta = dirs[s].meta /\ dirs'[s].marker = dirs[s].marker
                  /\ dirs'[s].files \subseteq dirs[s].files

\* Whose site s is before and after the step.
Uses(a, s) == a \in Users(s) \/ a \in Users(s)'

\* The directories, seen by those who do not take the step.
Bystanders(a) ==
  \A s \in Sites :
    /\ Exists(s) => Exists(s)'
    /\ (Exists(s)' /\ dirs'[s].old) => Exists(s) /\ dirs[s].old
    /\ Kept(s) \/ Uses(a, s)

\* The site, seen by the one who takes the step and has it to itself.
OwnSite(a, s) ==
  (SiteInv(s) /\ Uses(a, s) /\ Users(s) \cup Users(s)' \subseteq {a}) =>
    Labelled(s)' /\ RemoverAt(a, s)' /\ (a \in Workers => BuildAt(a, s)')

Typed ==
  /\ DirsOK
  /\ build \in [Workers -> Build] /\ task \in [Removers -> Task]

Others(a) ==
  /\ \A q \in Removers \ {a} : task'[q] = task[q]
  /\ \A v \in Workers \ {a} : build'[v] = build[v]

Entering(a) == a \in Looping' => a \in Looping \/ LoopFree

Alone(a) ==
  /\ Typed' /\ Others(a) /\ Bystanders(a) /\ Entering(a)
  /\ TaskOK(a)'
  /\ a \in Workers => /\ WorkerOK(a)' /\ Fresh(a)'
                      /\ build'[a].stage = "pruning" => PruneOK(a)'
  /\ \A s \in Sites : OwnSite(a, s)
  /\ History({}, {})

\* A step of one actor keeps the types and how each task goes with its build.
LEMMA AloneKeepsShape ==
  ASSUME Shape, NEW a \in Removers, Alone(a)
  PROVE  Shape'
<1>1. \A q \in Removers : TaskOK(q)'
  BY DEF Shape, Alone, Others, TaskOK
<1>2. ASSUME NEW v \in Workers PROVE WorkerOK(v)'
  <2>1. CASE v = a
    BY <2>1 DEF Alone
  <2>2. CASE v # a
    <3>1. build'[v] = build[v] /\ task'[v] = task[v] /\ WorkerOK(v)
      BY <2>2 DEF Alone, Others, Shape, Removers
    <3>2. (build[v].stage = "building" /\ build[v].mounted) => Exists(build[v].site)'
      BY <3>1 DEF WorkerOK, Alone, Bystanders
    <3>. QED  BY <3>1, <3>2 DEF WorkerOK
  <2>. QED  BY <2>1, <2>2
<1>3. OneOnLoop'
  <2>1. Looping' \subseteq Looping \cup {a}
    BY DEF Alone, Others, Looping, Removers
  <2>2. LoopFree => Looping = {}
    BY DEF LoopFree, Looping, OnLoop
  <2>. QED  BY <2>1, <2>2 DEF Shape, Alone, OneOnLoop, Entering
<1>4. disturbed' \subseteq Sites /\ quiet' \in [Workers -> SUBSET Sites]
  BY HistoryFacts DEF Alone, Shape
<1>. QED  BY <1>1, <1>2, <1>3, <1>4 DEF Shape, Alone, Typed

\* It keeps the directories that builds mount fresh.
LEMMA AloneKeepsFresh ==
  ASSUME Shape, NEW a \in Removers, Alone(a), NEW v \in Workers, Fresh(v)
  PROVE  Fresh(v)'
<1>1. CASE v = a
  BY <1>1 DEF Alone
<1>2. CASE v # a
  <2>1. build'[v] = build[v]
    BY <1>2 DEF Alone, Others
  <2>2. Mounts(v)' => build[v].site \in Sites
    BY <2>1 DEF Shape, WorkerOK, Mounts
  <2>. QED  BY <2>1, <2>2 DEF Fresh, Mounts, Alone, Bystanders
<1>. QED  BY <1>1, <1>2

\* A site that the step does not use stays as it should be.
LEMMA UnusedSiteStays ==
  ASSUME Shape, NEW a \in Removers, Others(a), NEW s \in Sites, SiteInv(s),
         Kept(s), ~Uses(a, s), \A u, v \in Users(s)' : u = v
  PROVE  SiteInv(s)'
<1>1. ~Removing(a, s) /\ ~Removing(a, s)' /\ (a \in Workers => ~Building(a, s) /\ ~Building(a, s)')
  BY DEF Uses, Users
<1>2. \A r \in Removers : (task'[r].at = "removing" /\ task'[r].site = s)
                          <=> (task[r].at = "removing" /\ task[r].site = s)
  BY <1>1 DEF Others, Removing
<1>3. Labelled(s)'
  BY <1>2 DEF Labelled, SiteInv, Kept, AllOf
<1>4. Exists(s)' => EntriesOf(s)' \subseteq EntriesOf(s)
  BY DEF Kept, EntriesOf
<1>5. ASSUME NEW r \in Removers PROVE RemoverAt(r, s)'
  BY <1>1, <1>4 DEF SiteInv, RemoverAt, Others, Removing, Kept
<1>6. ASSUME NEW w \in Workers PROVE BuildAt(w, s)'
  <2>1. CASE w = a
    BY <1>1, <2>1 DEF BuildAt, Building, Ahead
  <2>2. CASE w # a
    BY <2>2 DEF BuildAt, Others, Kept, AllOf, SiteInv, Ahead
  <2>. QED  BY <2>1, <2>2
<1>. QED  BY <1>3, <1>5, <1>6 DEF SiteInv

\* A site is left to the one who uses it alone.
LEMMA SoleUser ==
  ASSUME NEW a \in Removers, Others(a), NEW s \in Sites, Uses(a, s),
         \A u, v \in Users(s) : u = v, \A u, v \in Users(s)' : u = v
  PROVE  Users(s) \cup Users(s)' \subseteq {a}
<1>1. \A u \in Removers \ {a} : u \in Users(s) <=> u \in Users(s)'
  BY DEF Others, Users, Removing, Building, Removers
<1>2. Users(s) \subseteq Removers /\ Users(s)' \subseteq Removers
  BY DEF Users, Removers
<1>. QED  BY <1>1, <1>2 DEF Uses

\* A site that is gone, and that only builds about to make it are at.
LEMMA CleanSiteIsOK ==
  ASSUME Shape', NEW s \in Sites, Clean(s)', \A u, v \in Users(s)' : u = v
  PROVE  SiteInv(s)'
<1>1. \A r \in Removers : ~(task'[r].at = "removing" /\ task'[r].site = s)
  BY DEF Clean, Users, Removing, Shape, WorkerOK, NoTask
<1>2. \A w \in Workers : build'[w].site = s => build'[w].stage \in {"idle", "wiped"}
  BY DEF Clean, Users, Building
<1>3. ~Exists(s)'
  BY DEF Clean
<1>. QED  BY <1>1, <1>2, <1>3 DEF SiteInv, Labelled, RemoverAt, BuildAt, Ahead

\* It keeps what undisturbed directories contain: if it is at the site it is the only
\* one there, and if not it leaves the directory as it is.
LEMMA AloneKeepsSites ==
  ASSUME Shape, NEW a \in Removers, Alone(a), NEW s \in Sites, SiteOK(s)
  PROVE  SiteOK(s)'
<1>. SUFFICES ASSUME s \notin disturbed' PROVE SiteInv(s)'
  BY DEF SiteOK
<1>1. Shape'
  BY AloneKeepsShape
<1>2. /\ \A u, v \in Users(s)' : u = v
      /\ s \notin disturbed \/ Clean(s)'
  BY HistoryFacts DEF Alone, Shape
<1>3. CASE Clean(s)'
  BY <1>1, <1>2, <1>3, CleanSiteIsOK
<1>4. CASE s \notin disturbed /\ ~Uses(a, s)
  <2>1. SiteInv(s) /\ Kept(s)
    BY <1>4 DEF SiteOK, Alone, Bystanders
  <2>. QED  BY <1>2, <1>4, <2>1, UnusedSiteStays DEF Alone
<1>5. CASE s \notin disturbed /\ Uses(a, s)
  <2>1. SiteInv(s)
    BY <1>5 DEF SiteOK
  <2>2. Users(s) \cup Users(s)' \subseteq {a}
    BY <1>2, <1>5, <2>1, SoleUser DEF Alone, SiteInv
  <2>3. Labelled(s)' /\ RemoverAt(a, s)' /\ (a \in Workers => BuildAt(a, s)')
    BY <1>5, <2>1, <2>2 DEF Alone, OwnSite
  <2>4. ASSUME NEW r \in Removers \ {a} PROVE RemoverAt(r, s)'
    BY <2>2 DEF Users, Removing, RemoverAt
  <2>5. ASSUME NEW w \in Workers \ {a} PROVE BuildAt(w, s)'
    BY <2>2 DEF Users, Building, BuildAt, Ahead
  <2>. QED  BY <1>2, <2>3, <2>4, <2>5 DEF SiteInv
<1>. QED  BY <1>2, <1>3, <1>4, <1>5

\* A directory that loses files does not grow.
LEMMA FewerFiles ==
  ASSUME Shape, Typed', NEW s \in Sites, Exists(s), Exists(s)', dirs'[s].files \subseteq dirs[s].files
  PROVE  /\ Cardinality(dirs[s].files) \in Nat /\ Cardinality(dirs'[s].files) \in Nat
         /\ Cardinality(dirs'[s].files) <= Cardinality(dirs[s].files)
<1>1. IsFiniteSet(dirs[s].files) /\ dirs'[s].files \in SUBSET dirs[s].files
  BY DEF Shape, DirsOK
<1>. QED  BY <1>1, FS_Subset, FS_CardinalityType

\* It keeps what a prune has reached on the sites the prune has to itself.
LEMMA AloneKeepsPrunes ==
  ASSUME Shape, NEW a \in Removers, Alone(a), NEW w \in Workers, PruneOK(w)
  PROVE  PruneOK(w)'
<1>1. CASE w = a
  <2>1. quiet'[w] # {} => build'[w].stage = "pruning"
    BY HistoryFacts DEF Alone, Shape
  <2>. QED  BY <1>1, <2>1 DEF Alone, PruneOK
<1>2. CASE w # a
  <2>. SUFFICES ASSUME NEW s \in quiet'[w]
                PROVE  /\ build'[w].stage = "pruning" /\ s # build'[w].site
                       /\ Users(s)' \subseteq {w} /\ Progress(w, s)'
    BY DEF PruneOK
  <2>1. build'[w] = build[w] /\ task'[w] = task[w]
    BY <1>2 DEF Alone, Others, Removers
  <2>2. s \in Sites /\ build[w].stage = "pruning" /\ s \in quiet[w] /\ Users(s)' \subseteq {w}
    BY <2>1, HistoryFacts DEF Alone, Shape
  <2>3. Users(s) \subseteq {w} /\ s # build[w].site /\ Progress(w, s)
    BY <2>2 DEF PruneOK
  <2>4. ~Uses(a, s)
    BY <1>2, <2>2, <2>3 DEF Uses
  <2>5. /\ Kept(s)
        /\ (Exists(s)' /\ dirs'[s].old) => Exists(s) /\ dirs[s].old
    BY <2>2, <2>4 DEF Alone, Bystanders
  <2>6. CASE Exists(s)'
    <3>1. Exists(s) /\ (~dirs[s].old => ~dirs'[s].old)
      BY <2>5, <2>6 DEF Kept
    <3>2. /\ Cardinality(dirs[s].files) \in Nat /\ Cardinality(dirs'[s].files) \in Nat
          /\ Cardinality(dirs'[s].files) <= Cardinality(dirs[s].files)
      BY <2>2, <2>5, <2>6, <3>1, FewerFiles DEF Kept, Alone
    <3>3. Cardinality(dirs[s].files) <= SiteMax => Cardinality(dirs'[s].files) <= SiteMax
      BY <3>2, SiteCacheAssumption
    <3>4. Progress(w, s)'
      BY <2>1, <2>3, <3>1, <3>3 DEF Progress, Sizing, Due
    <3>. QED  BY <2>1, <2>2, <2>3, <3>4
  <2>. QED  BY <2>1, <2>2, <2>3, <2>6 DEF Progress
<1>. QED  BY <1>1, <1>2

\* Together: it keeps the invariant.
LEMMA AloneKeepsInv ==
  ASSUME CacheInv, NEW a \in Removers, Alone(a)
  PROVE  CacheInv'
<1>. QED  BY AloneKeepsShape, AloneKeepsFresh, AloneKeepsSites, AloneKeepsPrunes DEF CacheInv

-----------------------------------------------------------------------------
(* The steps of a worker that prepares and mounts a cache.                 *)

\* Where the step leaves the directories alone.
LEMMA SameDirs ==
  ASSUME Shape, dirs' = dirs, NEW a \in Removers
  PROVE  DirsOK' /\ Bystanders(a)
  BY DEF Shape, DirsOK, Bystanders, Kept, Exists

\* Where the step makes or changes the directory of a site that its actor uses.
LEMMA OneDir ==
  ASSUME Shape, NEW a \in Removers, NEW t \in Sites, Uses(a, t),
         NEW d \in Directory, IsFiniteSet(d.files), dirs' = [dirs EXCEPT ![t] = d],
         d.old => Exists(t) /\ dirs[t].old
  PROVE  DirsOK' /\ Bystanders(a) /\ dirs'[t] = d /\ Exists(t)'
<1>1. dirs'[t] = d /\ \A s \in Sites \ {t} : dirs'[s] = dirs[s]
  BY DEF Shape, DirsOK
<1>2. d # NoDir
  BY NamesAssumption
<1>3. DirsOK'
  BY <1>1, <1>2 DEF Shape, DirsOK, Exists
<1>. QED  BY <1>1, <1>2, <1>3 DEF Bystanders, Kept, Exists

\* A directory that was just made is a directory without files.
LEMMA EmptyDirType == EmptyDir \in Directory /\ IsFiniteSet(EmptyDir.files)
  BY FS_EmptySet DEF EmptyDir, Directory

\* What the worker finds, or makes.
Found(s) == IF Exists(s) THEN dirs[s] ELSE EmptyDir

\* What a worker finds or makes is a directory, expired only if it was so before.
LEMMA FoundType ==
  ASSUME Shape, NEW s \in Sites
  PROVE  /\ Found(s) \in Directory /\ IsFiniteSet(Found(s).files)
         /\ Found(s).old => Exists(s) /\ dirs[s].old
  BY EmptyDirType DEF Shape, DirsOK, Found, Exists, EmptyDir

\* A build with the cache disabled marks its site; the marker makes the metadata irrelevant.
LEMMA PrepareDisabledAlone ==
  ASSUME CacheInv, NEW w \in Workers, NEW t \in Sites, PrepareDisabled(w, t)
  PROVE  Alone(w)
<1>. DEFINE d == Found(t)
            files == {[f EXCEPT !.of = Stale] : f \in d.files}
            e == [d EXCEPT !.marker = TRUE, !.files = files,
                           !.old = d.old /\ (d.meta # Absent \/ d.marker)]
            b == [NoBuild EXCEPT !.stage = "prepared", !.site = t]
<1>1. Shape /\ w \in Removers /\ WorkerOK(w) /\ TaskOK(w)
  BY DEF CacheInv, Shape, Removers
<1>2. /\ d \in Directory /\ IsFiniteSet(d.files)
      /\ d.old => Exists(t) /\ dirs[t].old
  BY <1>1, FoundType
<1>3. IsFiniteSet(files) /\ files \subseteq File
  <2>. DEFINE g == [f \in d.files |-> [f EXCEPT !.of = Stale]]
  <2>1. g \in Surjection(d.files, files)
    BY DEF Surjection
  <2>2. IsFiniteSet(files)
    <3>. HIDE DEF g, files
    <3>. QED  BY <1>2, <2>1, FS_Surjection
  <2>3. ASSUME NEW f \in d.files PROVE [f EXCEPT !.of = Stale] \in File
    BY <1>2 DEF Directory, File
  <2>. QED  BY <2>2, <2>3
<1>4. e \in Directory /\ e.files = files /\ e.marker /\ (e.old => d.old)
  BY <1>2, <1>3 DEF Directory
<1>5. /\ dirs' = [dirs EXCEPT ![t] = e] /\ task' = task
      /\ build' = [build EXCEPT ![w] = b]
      /\ LoopFree /\ build[w].stage = "idle" /\ History({}, {})
  BY DEF PrepareDisabled, Found
<1>6. b \in Build /\ b.stage = "prepared" /\ b.site = t /\ ~b.mounted
  BY DEF NoBuild, Build, Stage, Ahead
<1>7. task[w] = NoTask
  BY <1>1, <1>5 DEF WorkerOK
<1>. HIDE DEF d, e, b, files
<1>8. build' \in [Workers -> Build] /\ build'[w] = b /\ Others(w)
  BY <1>1, <1>5, <1>6 DEF Shape, Others
<1>9. Uses(w, t) /\ \A s \in Sites : Uses(w, s) => s = t
  BY <1>1, <1>5, <1>6, <1>7, <1>8 DEF Uses, Users, Building, Removing, NoTask
<1>10. DirsOK' /\ Bystanders(w) /\ dirs'[t] = e /\ Exists(t)'
  BY <1>1, <1>2, <1>3, <1>4, <1>5, <1>9, OneDir
<1>11. Typed'
  BY <1>1, <1>5, <1>8, <1>10 DEF Typed, Shape
<1>12. WorkerOK(w)' /\ TaskOK(w)' /\ Fresh(w)' /\ build'[w].stage # "pruning" /\ Entering(w)
  BY <1>1, <1>5, <1>6, <1>7, <1>8 DEF WorkerOK, TaskOK, Fresh, Mounts, Entering, OnLoop
<1>13. ASSUME NEW s \in Sites PROVE OwnSite(w, s)
  BY <1>4, <1>5, <1>6, <1>7, <1>8, <1>9, <1>10 DEF OwnSite, Labelled, RemoverAt, BuildAt, NoTask
<1>. QED  BY <1>5, <1>8, <1>10, <1>11, <1>12, <1>13 DEF Alone

\* A worker is a remover with a build.
LEMMA WorkerFacts ==
  ASSUME CacheInv, NEW w \in Workers
  PROVE  /\ Shape /\ w \in Removers /\ WorkerOK(w) /\ TaskOK(w) /\ Fresh(w) /\ PruneOK(w)
         /\ build[w] \in Build /\ task[w] \in Task /\ w # Handler
  BY SiteCacheAssumption DEF CacheInv, Shape, Removers

\* A worker that is not on its way to another stage of its task sees its site as before.
LEMMA SiteAsBefore ==
  ASSUME Shape, NEW a \in Removers, Others(a), NEW s \in Sites, dirs'[s] = dirs[s],
         ~(task[a].at = "removing" /\ task[a].site = s),
         ~(task'[a].at = "removing" /\ task'[a].site = s),
         a \in Workers => (BuildAt(a, s) => BuildAt(a, s)')
  PROVE  OwnSite(a, s)
<1>1. \A r \in Removers : (task'[r].at = "removing" /\ task'[r].site = s)
                          <=> (task[r].at = "removing" /\ task[r].site = s)
  BY DEF Others
<1>2. Labelled(s) => Labelled(s)'
  BY <1>1 DEF Labelled, Exists, AllOf
<1>. QED  BY <1>2 DEF OwnSite, RemoverAt, SiteInv

\* Unreadable metadata fails the preparation and changes nothing.
LEMMA PrepareRaisesAlone ==
  ASSUME CacheInv, NEW w \in Workers, NEW t, NEW l, PrepareRaises(w, t, l)
  PROVE  Alone(w)
<1>1. /\ Shape /\ w \in Removers /\ WorkerOK(w) /\ TaskOK(w) /\ Fresh(w)
      /\ dirs' = dirs /\ build' = build /\ task' = task
      /\ LoopFree /\ build[w].stage = "idle" /\ History({}, {})
  BY WorkerFacts DEF PrepareRaises
<1>2. DirsOK' /\ Bystanders(w)
  BY <1>1, SameDirs
<1>3. Typed' /\ Others(w) /\ Entering(w)
  BY <1>1, <1>2 DEF Typed, Shape, Others, Entering
<1>4. WorkerOK(w)' /\ TaskOK(w)' /\ Fresh(w)'
  BY <1>1 DEF WorkerOK, TaskOK, Fresh, Mounts, Exists
<1>5. ASSUME NEW s \in Sites PROVE ~Uses(w, s)
  BY <1>1 DEF Uses, Users, Building, Removing, WorkerOK, NoTask
<1>. QED  BY <1>1, <1>2, <1>3, <1>4, <1>5 DEF Alone, OwnSite

\* A preparation looks at marker and metadata: what it keeps fits its lockfile.
LEMMA PrepareAlone ==
  ASSUME CacheInv, NEW w \in Workers, NEW t \in Sites, NEW l \in Lockfiles, Prepare(w, t, l)
  PROVE  Alone(w)
<1>. DEFINE b == [stage |-> IF MustWipe(t, l) THEN "wiping" ELSE "wiped",
                  site |-> t, lock |-> l, mounted |-> TRUE]
<1>1. /\ Shape /\ w \in Removers /\ WorkerOK(w) /\ TaskOK(w) /\ Fresh(w)
      /\ dirs' = dirs /\ LoopFree /\ build[w].stage = "idle" /\ History({}, {})
      /\ build' = [build EXCEPT ![w] = b]
      /\ Exists(t) => dirs[t].marker \/ dirs[t].meta # Torn
      /\ task[w] = NoTask
  BY WorkerFacts DEF Prepare, WorkerOK
<1>2. /\ b \in Build /\ b.site = t /\ b.lock = l /\ b.mounted
      /\ b.stage = IF MustWipe(t, l) THEN "wiping" ELSE "wiped"
  BY DEF Build, Stage, OnLoop
<1>. HIDE DEF b
<1>3. PICK k \in Task :
        /\ task' = [task EXCEPT ![w] = k]
        /\ IF MustWipe(t, l) THEN k.at = "judged" /\ k.why = "wipe" /\ k.site = t ELSE k = NoTask
  <2>1. CASE MustWipe(t, l)
    <3>1. StartRemoval(t, "wipe", {}) \in Task
      BY DEF StartRemoval, NoTask, Task, At
    <3>. QED  BY <2>1, <3>1 DEF Prepare, StartRemoval, NoTask
  <2>2. CASE ~MustWipe(t, l)
    <3>1. NoTask \in Task
      BY DEF NoTask, Task, At
    <3>. QED  BY <1>1, <2>2, <3>1 DEF Prepare, Shape
  <2>. QED  BY <2>1, <2>2
<1>4. /\ build' \in [Workers -> Build] /\ build'[w] = b
      /\ task' \in [Removers -> Task] /\ task'[w] = k /\ Others(w)
  BY <1>1, <1>2, <1>3 DEF Shape, Others
<1>5. DirsOK' /\ Bystanders(w)
  BY <1>1, SameDirs
<1>6. Typed' /\ Entering(w)
  BY <1>1, <1>4, <1>5 DEF Typed, Entering
<1>7. WorkerOK(w)' /\ TaskOK(w)' /\ Fresh(w)' /\ build'[w].stage # "pruning"
  BY <1>2, <1>3, <1>4, NamesAssumption DEF WorkerOK, TaskOK, Fresh, Mounts, NoTask, OnLoop
<1>8. ASSUME NEW s \in Sites PROVE OwnSite(w, s)
  <2>1. task[w].at # "removing" /\ task'[w].at # "removing"
    BY <1>1, <1>3, <1>4 DEF NoTask
  <2>2. CASE s = t
    <3>1. BuildAt(w, s)'
      BY <1>1, <1>2, <1>4, <2>2 DEF BuildAt, MustWipe, Exists, Ahead
    <3>. QED  BY <1>1, <1>4, <2>1, <3>1, SiteAsBefore
  <2>3. CASE s # t
    BY <1>1, <1>2, <1>3, <1>4, <2>3 DEF OwnSite, Uses, Users, Building, Removing, NoTask
  <2>. QED  BY <2>2, <2>3
<1>. QED  BY <1>1, <1>4, <1>5, <1>6, <1>7, <1>8 DEF Alone

\* The metadata is torn before it is written, over files that fit the lockfile.
LEMMA TruncateMetadataAlone ==
  ASSUME CacheInv, NEW w \in Workers, TruncateMetadata(w)
  PROVE  Alone(w)
<1>0. /\ Shape /\ w \in Removers /\ WorkerOK(w) /\ TaskOK(w) /\ Fresh(w)
      /\ build[w].stage = "wiped" /\ build[w] \in Build /\ History({}, {}) /\ task' = task
  BY WorkerFacts DEF TruncateMetadata
<1>2. PICK t \in Sites, l \in Lockfiles : /\ t = build[w].site /\ l = build[w].lock
                                          /\ build[w].mounted /\ task[w] = NoTask
  BY <1>0 DEF WorkerOK, OnLoop
<1>. DEFINE d == Found(t)
            e == [d EXCEPT !.meta = Torn]
            b == [build[w] EXCEPT !.stage = "writing"]
<1>1. /\ dirs' = [dirs EXCEPT ![t] = e] /\ build' = [build EXCEPT ![w] = b]
      /\ Shape /\ w \in Removers /\ WorkerOK(w) /\ TaskOK(w)
      /\ build[w].stage = "wiped" /\ build[w] \in Build /\ History({}, {}) /\ task' = task
  BY <1>0, <1>2 DEF TruncateMetadata, Found
<1>3. /\ d \in Directory /\ IsFiniteSet(d.files)
      /\ d.old => Exists(t) /\ dirs[t].old
  BY <1>1, <1>2, FoundType
<1>4. /\ e \in Directory /\ e.files = d.files /\ e.marker = d.marker /\ e.old = d.old
      /\ e.meta = Torn
  BY <1>3 DEF Directory
<1>5. b \in Build /\ b.stage = "writing" /\ b.site = t /\ b.lock = l /\ b.mounted
  BY <1>1, <1>2 DEF Build, Stage, OnLoop
<1>6. build' \in [Workers -> Build] /\ build'[w] = b /\ Others(w)
  BY <1>1, <1>5 DEF Shape, Others
<1>7. Exists(t) => d = dirs[t]
  BY DEF Found
<1>8. ~Exists(t) => d.files = {} /\ ~d.marker
  BY DEF Found, EmptyDir
<1>. HIDE DEF d, e, b
<1>9. Uses(w, t) /\ \A s \in Sites : Uses(w, s) => s = t
  BY <1>1, <1>2, <1>5, <1>6 DEF Uses, Users, Building, Removing, NoTask
<1>10. DirsOK' /\ Bystanders(w) /\ dirs'[t] = e /\ Exists(t)'
  <2>1. IsFiniteSet(e.files) /\ (e.old => Exists(t) /\ dirs[t].old)
    BY <1>3, <1>4
  <2>. QED  BY <1>1, <1>2, <1>4, <1>9, <2>1, OneDir
<1>11. Typed' /\ Entering(w)
  BY <1>1, <1>6, <1>10 DEF Typed, Shape, Entering, Looping, OnLoop
<1>12. WorkerOK(w)' /\ TaskOK(w)' /\ Fresh(w)' /\ build'[w].stage # "pruning"
  BY <1>1, <1>2, <1>5, <1>6 DEF WorkerOK, TaskOK, Fresh, Mounts, OnLoop
<1>13. ASSUME NEW s \in Sites PROVE OwnSite(w, s)
  <2>. SUFFICES ASSUME SiteInv(t), Users(t) \subseteq {w}
                PROVE  Labelled(t)' /\ RemoverAt(w, t)' /\ BuildAt(w, t)'
    BY <1>2, <1>9 DEF OwnSite
  <2>1. \A r \in Removers : task[r].at = "removing" => task[r].site # t
    BY <1>1, <1>2 DEF Users, Removing, NoTask
  <2>2. \A f \in d.files : f.of = l
    <3>1. Exists(t) => (dirs[t].meta = Absent => dirs[t].files = {})
                         /\ (dirs[t].meta \in Lockfiles => AllOf(t, dirs[t].meta))
                         /\ dirs[t].meta \in {Absent, l}
      BY <1>1, <1>2, <2>1 DEF SiteInv, Labelled, BuildAt
    <3>. QED  BY <1>2, <1>7, <1>8, <3>1 DEF AllOf
  <2>3. ~d.marker
    BY <1>1, <1>2, <1>7, <1>8 DEF SiteInv, BuildAt
  <2>4. BuildAt(w, t)'
    BY <1>4, <1>5, <1>6, <1>10, <2>2, <2>3 DEF BuildAt, AllOf, Ahead
  <2>5. Labelled(t)'
    BY <1>4, <1>10, NamesAssumption DEF Labelled, Absent, Torn
  <2>6. RemoverAt(w, t)'
    BY <1>1, <1>2 DEF RemoverAt, NoTask
  <2>. QED  BY <2>4, <2>5, <2>6
<1>. QED  BY <1>1, <1>6, <1>10, <1>11, <1>12, <1>13 DEF Alone

\* The metadata names the lockfile of the files, and the directory is fresh again.
LEMMA WriteMetadataAlone ==
  ASSUME CacheInv, NEW w \in Workers, WriteMetadata(w)
  PROVE  Alone(w)
<1>0. /\ Shape /\ w \in Removers /\ WorkerOK(w) /\ TaskOK(w)
      /\ build[w].stage = "writing" /\ build[w] \in Build /\ History({}, {}) /\ task' = task
  BY WorkerFacts DEF WriteMetadata
<1>2. PICK t \in Sites, l \in Lockfiles : /\ t = build[w].site /\ l = build[w].lock
                                          /\ build[w].mounted /\ task[w] = NoTask
  BY <1>0 DEF WorkerOK, OnLoop
<1>. DEFINE d == Found(t)
            e == IF ~Exists(t) THEN EmptyDir
                 ELSE IF dirs[t].meta = Torn THEN [dirs[t] EXCEPT !.meta = build[w].lock, !.old = FALSE]
                 ELSE [dirs[t] EXCEPT !.old = FALSE]
            b == [build[w] EXCEPT !.stage = "prepared"]
<1>1. dirs' = [dirs EXCEPT ![t] = e] /\ build' = [build EXCEPT ![w] = b]
  BY <1>0, <1>2 DEF WriteMetadata
<1>3. d \in Directory /\ IsFiniteSet(d.files)
  BY <1>0, <1>2, FoundType
<1>4. /\ e \in Directory /\ e.files = d.files /\ e.marker = d.marker /\ ~e.old
      /\ (Exists(t) /\ dirs[t].meta = Torn) => d = dirs[t] /\ e.meta = l
  <2>1. CASE ~Exists(t)
    BY <2>1, EmptyDirType DEF Found, EmptyDir
  <2>2. CASE Exists(t)
    BY <1>2, <1>3, <2>2 DEF Found, Directory
  <2>. QED  BY <2>1, <2>2
<1>5. b \in Build /\ b.stage = "prepared" /\ b.site = t /\ b.lock = l /\ b.mounted
  BY <1>0, <1>2 DEF Build, Stage, Ahead
<1>6. build' \in [Workers -> Build] /\ build'[w] = b /\ Others(w)
  BY <1>0, <1>1, <1>5 DEF Shape, Others
<1>. HIDE DEF d, e, b
<1>9. Uses(w, t) /\ \A s \in Sites : Uses(w, s) => s = t
  BY <1>0, <1>2, <1>5, <1>6 DEF Uses, Users, Building, Removing, NoTask
<1>10. DirsOK' /\ Bystanders(w) /\ dirs'[t] = e /\ Exists(t)'
  <2>1. IsFiniteSet(e.files) /\ (e.old => Exists(t) /\ dirs[t].old)
    BY <1>3, <1>4
  <2>. QED  BY <1>0, <1>1, <1>2, <1>4, <1>9, <2>1, OneDir
<1>11. Typed' /\ Entering(w)
  BY <1>0, <1>5, <1>6, <1>10 DEF Typed, Shape, Entering, Looping, OnLoop
<1>12. WorkerOK(w)' /\ TaskOK(w)' /\ Fresh(w)' /\ build'[w].stage # "pruning"
  BY <1>0, <1>2, <1>4, <1>5, <1>6, <1>10 DEF WorkerOK, TaskOK, Fresh, Mounts, OnLoop
<1>13. ASSUME NEW s \in Sites PROVE OwnSite(w, s)
  <2>. SUFFICES ASSUME SiteInv(t)
                PROVE  Labelled(t)' /\ RemoverAt(w, t)' /\ BuildAt(w, t)'
    BY <1>2, <1>9 DEF OwnSite
  <2>1. Exists(t) /\ ~dirs[t].marker /\ dirs[t].meta = Torn /\ AllOf(t, l)
    BY <1>0, <1>2 DEF SiteInv, BuildAt
  <2>2. e.meta = l /\ ~e.marker /\ \A f \in e.files : f.of = l
    BY <1>4, <2>1 DEF AllOf
  <2>3. BuildAt(w, t)'
    BY <1>5, <1>6, <1>10, <2>2 DEF BuildAt, AllOf
  <2>4. Labelled(t)'
    BY <1>2, <1>10, <2>2, NamesAssumption DEF Labelled, AllOf
  <2>5. RemoverAt(w, t)'
    BY <1>0, <1>2 DEF RemoverAt, NoTask
  <2>. QED  BY <2>3, <2>4, <2>5
<1>. QED  BY <1>0, <1>6, <1>10, <1>11, <1>12, <1>13 DEF Alone

\* The container gets a directory, made anew only where operations overlapped.
LEMMA StartContainerAlone ==
  ASSUME CacheInv, NEW w \in Workers, StartContainer(w)
  PROVE  Alone(w)
<1>0. /\ Shape /\ w \in Removers /\ WorkerOK(w) /\ TaskOK(w) /\ Fresh(w)
      /\ build[w].stage = "ready" /\ build[w] \in Build /\ History({}, {}) /\ task' = task
  BY WorkerFacts DEF StartContainer
<1>2. PICK t \in Sites : t = build[w].site /\ task[w] = NoTask
  BY <1>0 DEF WorkerOK
<1>. DEFINE b == [build[w] EXCEPT !.stage = "building"]
<1>1. /\ dirs' = [dirs EXCEPT ![t] = IF build[w].mounted /\ ~Exists(t) THEN EmptyDir ELSE @]
      /\ build' = [build EXCEPT ![w] = b]
  BY <1>2 DEF StartContainer
<1>5. /\ b \in Build /\ b.stage = "building" /\ b.site = t
      /\ b.lock = build[w].lock /\ b.mounted = build[w].mounted
  BY <1>0, <1>2 DEF Build, Stage, Ahead
<1>6. build' \in [Workers -> Build] /\ build'[w] = b /\ Others(w)
  BY <1>0, <1>1, <1>5 DEF Shape, Others
<1>. HIDE DEF b
<1>9. Uses(w, t) /\ \A s \in Sites : Uses(w, s) => s = t
  BY <1>0, <1>2, <1>5, <1>6 DEF Uses, Users, Building, Removing, NoTask
<1>10. /\ DirsOK' /\ Bystanders(w)
       /\ IF build[w].mounted /\ ~Exists(t) THEN Exists(t)' /\ ~dirs'[t].old ELSE dirs' = dirs
  <2>1. CASE build[w].mounted /\ ~Exists(t)
    <3>1. dirs' = [dirs EXCEPT ![t] = EmptyDir] /\ ~EmptyDir.old
      BY <1>1, <2>1 DEF EmptyDir
    <3>. QED  BY <1>0, <1>2, <1>9, <2>1, <3>1, EmptyDirType, OneDir
  <2>2. CASE ~(build[w].mounted /\ ~Exists(t))
    <3>1. dirs' = dirs
      BY <1>0, <1>1, <2>2 DEF Shape, DirsOK
    <3>. QED  BY <1>0, <2>2, <3>1, SameDirs
  <2>. QED  BY <2>1, <2>2
<1>11. Typed' /\ Entering(w)
  BY <1>0, <1>5, <1>6, <1>10, SiteCacheAssumption DEF Typed, Shape, Entering, Looping, OnLoop
<1>12. WorkerOK(w)' /\ TaskOK(w)' /\ Fresh(w)' /\ build'[w].stage # "pruning"
  <2>1. b.mounted => Exists(t)' /\ ~dirs'[t].old
    BY <1>0, <1>2, <1>5, <1>10 DEF Fresh, Mounts, Exists
  <2>. QED  BY <1>0, <1>2, <1>5, <1>6, <2>1 DEF WorkerOK, TaskOK, Fresh, Mounts, OnLoop
<1>13. ASSUME NEW s \in Sites PROVE OwnSite(w, s)
  <2>. SUFFICES ASSUME SiteInv(t), Users(t) \subseteq {w}
                PROVE  Labelled(t)' /\ RemoverAt(w, t)' /\ BuildAt(w, t)'
    BY <1>2, <1>9 DEF OwnSite
  <2>1. dirs' = dirs
    BY <1>0, <1>2, <1>10 DEF SiteInv, BuildAt, Ahead
  <2>2. BuildAt(w, t)'
    BY <1>0, <1>2, <1>5, <1>6, <2>1 DEF SiteInv, BuildAt, AllOf, Ahead, Exists
  <2>3. Labelled(t)'
    BY <1>0, <2>1 DEF Labelled, SiteInv, AllOf, Exists
  <2>4. RemoverAt(w, t)'
    BY <1>0, <1>2 DEF RemoverAt, NoTask
  <2>. QED  BY <2>2, <2>3, <2>4
<1>. QED  BY <1>0, <1>6, <1>10, <1>11, <1>12, <1>13 DEF Alone

\* A build adds files of its own lockfile, which is the one in the metadata.
LEMMA WriteFileAlone ==
  ASSUME CacheInv, NEW w \in Workers, WriteFile(w)
  PROVE  Alone(w)
<1>0. /\ Shape /\ w \in Removers /\ WorkerOK(w) /\ TaskOK(w) /\ Fresh(w)
      /\ build[w].stage = "building" /\ build[w].mounted /\ History({}, {})
      /\ task' = task /\ build' = build
  BY WorkerFacts DEF WriteFile
<1>2. PICK t \in Sites, l \in Lockfiles : /\ t = build[w].site /\ l = build[w].lock
                                          /\ task[w] = NoTask /\ Exists(t)
  BY <1>0 DEF WorkerOK
<1>. DEFINE free == {n \in 1 .. MaxFiles : \A f \in dirs[t].files : f.n # n}
            f0 == [of |-> l, n |-> Min(free)]
            e == [dirs[t] EXCEPT !.files = @ \cup {f0}, !.old = @ /\ dirs[t].meta # Absent]
<1>1. free # {} /\ dirs' = [dirs EXCEPT ![t] = e]
  BY <1>0, <1>2 DEF WriteFile, Shape, DirsOK
<1>3. f0 \in File
  <2>1. free \subseteq Nat /\ free \subseteq 1 .. MaxFiles
    BY SiteCacheAssumption
  <2>2. \E n \in free : \A m \in free : n <= m
    <3>. HIDE DEF free
    <3>. QED  BY <1>1, <2>1, LeastNatural
  <2>3. Min(free) \in free
    <3>. HIDE DEF free
    <3>. QED  BY <2>2 DEF Min
  <2>. HIDE DEF free
  <2>. QED  BY <1>2, <2>1, <2>3 DEF File
<1>. HIDE DEF f0
<1>4. /\ e \in Directory /\ e.files = dirs[t].files \cup {f0} /\ e.marker = dirs[t].marker
      /\ e.meta = dirs[t].meta /\ (e.old => dirs[t].old)
  BY <1>0, <1>2, <1>3 DEF Shape, DirsOK, Directory, Exists
<1>5. f0.of = l
  BY DEF f0
<1>. HIDE DEF e
<1>9. Uses(w, t) /\ \A s \in Sites : Uses(w, s) => s = t
  BY <1>0, <1>2 DEF Uses, Users, Building, Removing, NoTask
<1>10. DirsOK' /\ Bystanders(w) /\ dirs'[t] = e /\ Exists(t)'
  <2>1. IsFiniteSet(dirs[t].files)
    BY <1>0, <1>2 DEF Shape, DirsOK
  <2>2. IsFiniteSet(dirs[t].files \cup {f0})
    BY <2>1, FS_AddElement
  <2>3. IsFiniteSet(e.files) /\ (e.old => Exists(t) /\ dirs[t].old)
    BY <1>2, <1>4, <2>2
  <2>4. Shape /\ w \in Removers /\ Uses(w, t) /\ e \in Directory /\ dirs' = [dirs EXCEPT ![t] = e]
    BY <1>0, <1>1, <1>4, <1>9
  <2>. QED  BY <2>3, <2>4, OneDir
<1>11. Typed' /\ Entering(w) /\ Others(w)
  BY <1>0, <1>10, SiteCacheAssumption DEF Typed, Shape, Entering, Looping, OnLoop, Others
<1>12. WorkerOK(w)' /\ TaskOK(w)' /\ Fresh(w)' /\ build'[w].stage # "pruning"
  BY <1>0, <1>2, <1>4, <1>10 DEF WorkerOK, TaskOK, Fresh, Mounts, OnLoop
<1>13. ASSUME NEW s \in Sites PROVE OwnSite(w, s)
  <2>. SUFFICES ASSUME SiteInv(t)
                PROVE  Labelled(t)' /\ RemoverAt(w, t)' /\ BuildAt(w, t)'
    BY <1>2, <1>9 DEF OwnSite
  <2>1. ~dirs[t].marker /\ dirs[t].meta = l /\ AllOf(t, l)
    BY <1>0, <1>2 DEF SiteInv, BuildAt, Ahead
  <2>2. e.meta = l /\ ~e.marker /\ \A f \in e.files : f.of = l
    BY <1>4, <1>5, <2>1 DEF AllOf
  <2>3. BuildAt(w, t)'
    BY <1>0, <1>2, <1>10, <2>2 DEF BuildAt, AllOf
  <2>4. Labelled(t)'
    BY <1>2, <1>10, <2>2, NamesAssumption DEF Labelled, AllOf
  <2>5. RemoverAt(w, t)'
    BY <1>0, <1>2 DEF RemoverAt, NoTask
  <2>. QED  BY <2>3, <2>4, <2>5
<1>. QED  BY <1>0, <1>10, <1>11, <1>12, <1>13 DEF Alone

\* A build that ends leaves a labelled directory to the next.
LEMMA EndBuildAlone ==
  ASSUME CacheInv, NEW w \in Workers, EndBuild(w)
  PROVE  Alone(w)
<1>1. /\ Shape /\ w \in Removers /\ WorkerOK(w) /\ TaskOK(w)
      /\ build[w].stage = "building" /\ History({}, {}) /\ task[w] = NoTask
      /\ task' = task /\ dirs' = dirs /\ build' = [build EXCEPT ![w] = NoBuild]
  BY WorkerFacts DEF EndBuild, WorkerOK
<1>2. NoBuild \in Build
  BY DEF NoBuild, Build, Stage
<1>3. build' \in [Workers -> Build] /\ build'[w] = NoBuild /\ Others(w)
  BY <1>1, <1>2 DEF Shape, Others
<1>4. DirsOK' /\ Bystanders(w)
  BY <1>1, SameDirs
<1>5. Typed' /\ Entering(w)
  BY <1>1, <1>3, <1>4, SiteCacheAssumption DEF Typed, Shape, Entering, Looping, OnLoop, NoBuild
<1>6. WorkerOK(w)' /\ TaskOK(w)' /\ Fresh(w)' /\ build'[w].stage # "pruning"
  BY <1>1, <1>3, NamesAssumption DEF WorkerOK, TaskOK, Fresh, Mounts, OnLoop, NoBuild
<1>7. ASSUME NEW s \in Sites PROVE OwnSite(w, s)
  <2>1. BuildAt(w, s)'
    BY <1>3 DEF BuildAt, NoBuild
  <2>. QED  BY <1>1, <1>3, <2>1, SiteAsBefore DEF NoTask
<1>. QED  BY <1>1, <1>3, <1>4, <1>5, <1>6, <1>7 DEF Alone

-----------------------------------------------------------------------------
(* The steps of a prune.                                                   *)

\* Doing nothing is a build and a task.
LEMMA NothingTypes == NoBuild \in Build /\ NoTask \in Task
  BY DEF NoBuild, Build, Stage, NoTask, Task, At

\* Whoever fails leaves everything; only a removal under way would leave a trace.
LEMMA FailsAlone ==
  ASSUME CacheInv, NEW a \in Removers, Fails(a), dirs' = dirs, History({}, {}),
         \A s \in Sites : (task[a].at = "removing" /\ task[a].site = s) => ~SiteInv(s)
  PROVE  Alone(a)
<1>1. Shape
  BY DEF CacheInv
<1>2. /\ task' \in [Removers -> Task] /\ task'[a] = NoTask /\ Others(a)
      /\ build' \in [Workers -> Build] /\ (a \in Workers => build'[a] = NoBuild)
  BY <1>1, NothingTypes DEF Shape, Fails, Others
<1>3. DirsOK' /\ Bystanders(a)
  BY <1>1, SameDirs
<1>4. Typed' /\ Entering(a)
  BY <1>2, <1>3, SiteCacheAssumption DEF Typed, Entering, Looping, OnLoop, NoBuild, NoTask
<1>5. TaskOK(a)'
  BY <1>2, NamesAssumption DEF TaskOK, NoTask
<1>6. a \in Workers => WorkerOK(a)' /\ Fresh(a)' /\ build'[a].stage # "pruning"
  BY <1>2, NamesAssumption DEF WorkerOK, Fresh, Mounts, OnLoop, NoBuild
<1>7. ASSUME NEW s \in Sites PROVE OwnSite(a, s)
  <2>1. CASE task[a].at = "removing" /\ task[a].site = s
    BY <2>1 DEF OwnSite
  <2>2. CASE ~(task[a].at = "removing" /\ task[a].site = s)
    <3>1. a \in Workers => BuildAt(a, s)'
      BY <1>2 DEF BuildAt, NoBuild
    <3>2. task'[a].at # "removing"
      BY <1>2 DEF NoTask
    <3>. QED  BY <1>1, <1>2, <2>2, <3>1, <3>2, SiteAsBefore
  <2>. QED  BY <2>1, <2>2
<1>. QED  BY <1>2, <1>3, <1>4, <1>5, <1>6, <1>7 DEF Alone

\* What is quiet for a prune stays so by itself: its progress has to be shown.
LEMMA PruneGoesOn ==
  ASSUME Shape, NEW w \in Workers, PruneOK(w), History({}, {}), build[w].stage = "pruning",
         build'[w].site = build[w].site,
         \A s \in Sites \ {build[w].site} :
           (Users(s) \subseteq {w} /\ Progress(w, s)) => Progress(w, s)'
  PROVE  PruneOK(w)'
<1>. SUFFICES ASSUME NEW s \in quiet'[w]
              PROVE  /\ build'[w].stage = "pruning" /\ s # build'[w].site
                     /\ Users(s)' \subseteq {w} /\ Progress(w, s)'
  BY DEF PruneOK
<1>1. /\ s \in Sites /\ build'[w].stage = "pruning" /\ s \in quiet[w]
      /\ Users(s)' \subseteq {w}
  BY HistoryFacts DEF Shape
<1>. QED  BY <1>1 DEF PruneOK

\* A worker that judges or trims is pruning, and never its own site.
LEMMA PruneStage ==
  ASSUME CacheInv, NEW w \in Workers, task[w].at \in {"age", "size", "trim"}
  PROVE  /\ build[w].stage = "pruning" /\ build[w].site \in Sites /\ task[w].why = "none"
         /\ build[w].site \notin task[w].left \cup {task[w].site}
  BY WorkerFacts DEF WorkerOK, TaskOK, NoTask

\* A step of a prune that only looks at the directories.
LEMMA LookAlone ==
  ASSUME CacheInv, NEW w \in Workers, NEW k \in Task, task[w].at \in {"age", "size", "trim"},
         dirs' = dirs, build' = build, task' = [task EXCEPT ![w] = k], History({}, {}),
         k.at \in {"age", "size", "trim", "judged"}, k.why \in {"none", "age", "size"},
         k.at = "judged" <=> k.why # "none", k.at \in {"trim", "judged"} <=> k.site \in Sites,
         build[w].site \notin k.left \cup {k.site},
         \A s \in Sites \ {build[w].site} : Progress(w, s) => Progress(w, s)'
  PROVE  Alone(w)
<1>1. /\ Shape /\ w \in Removers /\ WorkerOK(w) /\ TaskOK(w) /\ Fresh(w) /\ PruneOK(w)
      /\ build[w].stage = "pruning"
  BY WorkerFacts, PruneStage
<1>2. task' \in [Removers -> Task] /\ task'[w] = k /\ Others(w)
  BY <1>1 DEF Shape, Others
<1>3. DirsOK' /\ Bystanders(w)
  BY <1>1, SameDirs
<1>4. Typed' /\ Entering(w)
  BY <1>1, <1>2, <1>3, SiteCacheAssumption DEF Typed, Shape, Entering, Looping, OnLoop
<1>5. WorkerOK(w)' /\ TaskOK(w)' /\ Fresh(w)'
  BY <1>1, <1>2 DEF WorkerOK, TaskOK, Fresh, Mounts, Exists, OnLoop
<1>6. PruneOK(w)'
  BY <1>1, PruneGoesOn
<1>7. ASSUME NEW s \in Sites PROVE OwnSite(w, s)
  <2>1. BuildAt(w, s) => BuildAt(w, s)'
    BY DEF BuildAt, Exists, AllOf
  <2>. QED  BY <1>1, <1>2, <2>1, SiteAsBefore
<1>. QED  BY <1>2, <1>3, <1>4, <1>5, <1>6, <1>7 DEF Alone

\* A prune lists every site but its own: the sites it has to itself are all still due.
LEMMA StartPruneAlone ==
  ASSUME CacheInv, NEW w \in Workers, StartPrune(w)
  PROVE  Alone(w)
<1>. DEFINE b == [build[w] EXCEPT !.stage = "pruning"]
            k == [NoTask EXCEPT !.at = "age", !.left = Present \ {build[w].site}]
<1>1. /\ Shape /\ w \in Removers /\ WorkerOK(w) /\ TaskOK(w) /\ Fresh(w) /\ build[w] \in Build
      /\ build[w].stage = "prepared" /\ task[w] = NoTask /\ build[w].site \in Sites
      /\ dirs' = dirs /\ build' = [build EXCEPT ![w] = b] /\ task' = [task EXCEPT ![w] = k]
      /\ History({}, {})
  BY WorkerFacts DEF StartPrune, WorkerOK
<1>2. /\ b \in Build /\ b.stage = "pruning" /\ b.site = build[w].site
      /\ b.lock = build[w].lock /\ b.mounted = build[w].mounted
  BY <1>1 DEF Build, Stage, Ahead
<1>3. /\ k \in Task /\ k.at = "age" /\ k.why = "none" /\ k.site = NoSite
      /\ k.left = Present \ {build[w].site}
  BY DEF NoTask, Task, At, Present
<1>. HIDE DEF b, k
<1>4. /\ task' \in [Removers -> Task] /\ task'[w] = k
      /\ build' \in [Workers -> Build] /\ build'[w] = b /\ Others(w)
  BY <1>1, <1>2, <1>3 DEF Shape, Others
<1>5. DirsOK' /\ Bystanders(w)
  BY <1>1, SameDirs
<1>6. Typed' /\ Entering(w)
  BY <1>1, <1>2, <1>4, <1>5, SiteCacheAssumption DEF Typed, Entering, Looping, OnLoop
<1>7. WorkerOK(w)' /\ TaskOK(w)' /\ Fresh(w)'
  BY <1>1, <1>2, <1>3, <1>4, NamesAssumption
  DEF WorkerOK, TaskOK, Fresh, Mounts, Exists, OnLoop
<1>8. PruneOK(w)'
  <2>. SUFFICES ASSUME NEW s \in quiet'[w]
                PROVE  /\ build'[w].stage = "pruning" /\ s # build'[w].site
                       /\ Users(s)' \subseteq {w} /\ Progress(w, s)'
    BY DEF PruneOK
  <2>1. s \in Sites /\ s # build[w].site /\ Users(s) = {}
    BY <1>1, HistoryFacts DEF Shape
  <2>2. Users(s)' \subseteq {w}
    BY <1>4, <2>1 DEF Users, Removing, Building, Others
  <2>3. Progress(w, s)'
    BY <1>1, <1>3, <1>4, <2>1 DEF Progress, Present, Exists, Sizing, Due
  <2>. QED  BY <1>2, <1>4, <2>1, <2>2, <2>3
<1>9. ASSUME NEW s \in Sites PROVE OwnSite(w, s)
  <2>1. BuildAt(w, s) => BuildAt(w, s)'
    BY <1>1, <1>2, <1>4 DEF BuildAt, Exists, AllOf, Ahead
  <2>. QED  BY <1>1, <1>3, <1>4, <2>1, SiteAsBefore DEF NoTask
<1>. QED  BY <1>1, <1>4, <1>5, <1>6, <1>7, <1>8, <1>9 DEF Alone

\* A removal that was decided on is a task.
LEMMA RemovalType ==
  ASSUME NEW s \in Sites, NEW why \in {"age", "size", "all", "one", "wipe"}, NEW left \in SUBSET Sites
  PROVE  /\ StartRemoval(s, why, left) \in Task /\ StartRemoval(s, why, left).at = "judged"
         /\ StartRemoval(s, why, left).why = why /\ StartRemoval(s, why, left).site = s
         /\ StartRemoval(s, why, left).left = left
  BY DEF StartRemoval, NoTask, Task, At

\* A site that is struck off the first list was not expired, or is about to be removed.
LEMMA JudgeAgeAlone ==
  ASSUME CacheInv, NEW w \in Workers, JudgeAge(w)
  PROVE  Alone(w)
<1>1. /\ w \in Removers /\ TaskOK(w) /\ task[w] \in Task /\ task \in [Removers -> Task]
      /\ task[w].at = "age" /\ task[w].why = "none" /\ task[w].site \notin Sites
      /\ dirs' = dirs /\ History({}, {}) /\ build[w].site \notin task[w].left
      /\ build[w].site \in Sites
  BY WorkerFacts, PruneStage DEF JudgeAge, TaskOK, Shape
<1>2. PICK x \in task[w].left :
        \/ ~Exists(x) /\ Fails(w)
        \/ /\ Exists(x) /\ Expired(x) /\ build' = build
           /\ task' = [task EXCEPT ![w] = StartRemoval(x, "age", task[w].left \ {x})]
        \/ /\ Exists(x) /\ ~Expired(x) /\ build' = build
           /\ task' = [task EXCEPT ![w].left = task[w].left \ {x}]
  BY DEF JudgeAge
<1>3. x \in Sites /\ task[w].left \in SUBSET Sites
  BY <1>1 DEF Task
<1>4. CASE Fails(w)
  BY <1>1, <1>4, FailsAlone
<1>5. CASE /\ Exists(x) /\ Expired(x) /\ build' = build
           /\ task' = [task EXCEPT ![w] = StartRemoval(x, "age", task[w].left \ {x})]
  <2>. DEFINE k == StartRemoval(x, "age", task[w].left \ {x})
  <2>1. /\ k \in Task /\ k.at = "judged" /\ k.why = "age" /\ k.site = x
        /\ k.left = task[w].left \ {x}
    BY <1>3, RemovalType
  <2>. HIDE DEF k
  <2>2. task'[w] = k
    BY <1>1, <1>5 DEF k
  <2>3. ASSUME NEW s \in Sites, Progress(w, s) PROVE Progress(w, s)'
    BY <1>1, <2>1, <2>2, <2>3 DEF Progress, Sizing, Due, Exists
  <2>4. build[w].site \notin k.left \cup {k.site}
    BY <1>1, <1>2, <2>1
  <2>5. task' = [task EXCEPT ![w] = k]
    BY <1>5 DEF k
  <2>. QED  BY <1>1, <1>3, <1>5, <2>1, <2>3, <2>4, <2>5, LookAlone
<1>6. CASE /\ Exists(x) /\ ~Expired(x) /\ build' = build
           /\ task' = [task EXCEPT ![w].left = task[w].left \ {x}]
  <2>. DEFINE k == [task[w] EXCEPT !.left = task[w].left \ {x}]
  <2>1. /\ k \in Task /\ k.at = "age" /\ k.why = "none" /\ k.site = task[w].site
        /\ k.left = task[w].left \ {x}
    BY <1>1, <1>3 DEF Task
  <2>2. task' = [task EXCEPT ![w] = k] /\ task'[w] = k
    BY <1>1, <1>6
  <2>. HIDE DEF k
  <2>3. ASSUME NEW s \in Sites, Progress(w, s) PROVE Progress(w, s)'
    BY <1>1, <1>6, <2>1, <2>2, <2>3 DEF Progress, Sizing, Due, Exists, Expired
  <2>4. build[w].site \notin k.left \cup {k.site}
    BY <1>1, <1>2, <2>1
  <2>. QED  BY <1>1, <1>3, <1>6, <2>1, <2>2, <2>3, <2>4, LookAlone
<1>. QED  BY <1>2, <1>4, <1>5, <1>6

\* When the second list is made, no site that the prune had to itself is expired.
LEMMA StartSizesAlone ==
  ASSUME CacheInv, NEW w \in Workers, StartSizes(w)
  PROVE  Alone(w)
<1>. DEFINE k == [NoTask EXCEPT !.at = "size", !.left = Present \ {build[w].site}]
<1>1. /\ w \in Removers /\ TaskOK(w) /\ task \in [Removers -> Task]
      /\ task[w].at = "age" /\ task[w].why = "none" /\ task[w].site \notin Sites
      /\ task[w].left = {} /\ build[w].site \in Sites
      /\ dirs' = dirs /\ build' = build /\ task' = [task EXCEPT ![w] = k] /\ History({}, {})
  BY WorkerFacts, PruneStage DEF StartSizes, TaskOK, Shape
<1>2. /\ k \in Task /\ k.at = "size" /\ k.why = "none" /\ k.site = NoSite
      /\ k.left = Present \ {build[w].site}
  BY DEF NoTask, Task, At, Present
<1>. HIDE DEF k
<1>3. task'[w] = k
  BY <1>1
<1>4. ASSUME NEW s \in Sites \ {build[w].site}, Progress(w, s) PROVE Progress(w, s)'
  BY <1>1, <1>2, <1>3, <1>4 DEF Progress, Sizing, Due, Exists, Present
<1>5. build[w].site \notin k.left \cup {k.site} /\ k.site \notin Sites
  BY <1>1, <1>2, NamesAssumption
<1>. QED  BY <1>1, <1>2, <1>4, <1>5, LookAlone

\* The files of a directory can be counted.
LEMMA FilesCount ==
  ASSUME CacheInv, NEW s \in Sites, Exists(s)
  PROVE  Cardinality(dirs[s].files) \in Nat /\ dirs[s] \in Directory
  BY FS_CardinalityType DEF CacheInv, Shape, DirsOK, Exists

\* A site that is struck off the second list is within its limit, or is about to be trimmed.
LEMMA JudgeSizeAlone ==
  ASSUME CacheInv, NEW w \in Workers, JudgeSize(w)
  PROVE  Alone(w)
<1>1. /\ w \in Removers /\ TaskOK(w) /\ task[w] \in Task /\ task \in [Removers -> Task]
      /\ task[w].at = "size" /\ task[w].why = "none" /\ task[w].site \notin Sites
      /\ dirs' = dirs /\ build' = build /\ History({}, {}) /\ build[w].site \notin task[w].left
      /\ build[w].site \in Sites
  BY WorkerFacts, PruneStage DEF JudgeSize, TaskOK, Shape
<1>2. PICK x \in task[w].left :
        task' = [task EXCEPT ![w] =
            IF OverLimit(x)
            THEN [@ EXCEPT !.at = "trim", !.left = task[w].left \ {x}, !.site = x, !.todo = dirs[x].files]
            ELSE [@ EXCEPT !.left = task[w].left \ {x}]]
  BY DEF JudgeSize
<1>3. x \in Sites /\ task[w].left \in SUBSET Sites
  BY <1>1 DEF Task
<1>4. CASE OverLimit(x)
  <2>. DEFINE k == [task[w] EXCEPT !.at = "trim", !.left = task[w].left \ {x}, !.site = x,
                                   !.todo = dirs[x].files]
  <2>1. dirs[x].files \subseteq Entry
    BY <1>3, <1>4, FilesCount DEF OverLimit, Directory, Entry
  <2>2. /\ k \in Task /\ k.at = "trim" /\ k.why = "none" /\ k.site = x
        /\ k.left = task[w].left \ {x}
    BY <1>1, <1>3, <2>1 DEF Task, At
  <2>3. task' = [task EXCEPT ![w] = k] /\ task'[w] = k
    BY <1>1, <1>2, <1>4
  <2>. HIDE DEF k
  <2>4. ASSUME NEW s \in Sites, Progress(w, s) PROVE Progress(w, s)'
    BY <1>1, <2>2, <2>3, <2>4 DEF Progress, Sizing, Due, Exists
  <2>5. build[w].site \notin k.left \cup {k.site}
    BY <1>1, <1>2, <2>2
  <2>. QED  BY <1>1, <1>3, <2>2, <2>3, <2>4, <2>5, LookAlone
<1>5. CASE ~OverLimit(x)
  <2>. DEFINE k == [task[w] EXCEPT !.left = task[w].left \ {x}]
  <2>1. /\ k \in Task /\ k.at = "size" /\ k.why = "none" /\ k.site = task[w].site
        /\ k.left = task[w].left \ {x}
    BY <1>1, <1>3 DEF Task
  <2>2. task' = [task EXCEPT ![w] = k] /\ task'[w] = k
    BY <1>1, <1>2, <1>5
  <2>. HIDE DEF k
  <2>3. Exists(x) => Cardinality(dirs[x].files) <= SiteMax
    BY <1>3, <1>5, FilesCount, SiteCacheAssumption DEF OverLimit
  <2>4. ASSUME NEW s \in Sites, Progress(w, s) PROVE Progress(w, s)'
    BY <1>1, <2>1, <2>2, <2>3, <2>4 DEF Progress, Sizing, Due, Exists
  <2>5. build[w].site \notin k.left \cup {k.site}
    BY <1>1, <1>2, <2>1
  <2>. QED  BY <1>1, <1>3, <2>1, <2>2, <2>4, <2>5, LookAlone
<1>. QED  BY <1>4, <1>5

\* Trimming ends within the limit, or the site is removed.
LEMMA TrimEndsAlone ==
  ASSUME CacheInv, NEW w \in Workers, TrimEnds(w)
  PROVE  Alone(w)
<1>1. /\ w \in Removers /\ TaskOK(w) /\ task[w] \in Task /\ task \in [Removers -> Task]
      /\ task[w].at = "trim" /\ task[w].why = "none" /\ task[w].site \in Sites
      /\ dirs' = dirs /\ build' = build /\ History({}, {})
      /\ build[w].site \notin task[w].left \cup {task[w].site} /\ build[w].site \in Sites
  BY WorkerFacts, PruneStage DEF TrimEnds, TaskOK, Shape
<1>2. PICK x \in Sites, left \in SUBSET Sites : x = task[w].site /\ left = task[w].left
  BY <1>1 DEF Task
<1>3. CASE OverLimit(x)
  <2>. DEFINE k == StartRemoval(x, "size", left)
  <2>1. /\ k \in Task /\ k.at = "judged" /\ k.why = "size" /\ k.site = x /\ k.left = left
    BY RemovalType
  <2>2. task' = [task EXCEPT ![w] = k] /\ task'[w] = k
    BY <1>1, <1>2, <1>3 DEF TrimEnds
  <2>. HIDE DEF k
  <2>3. ASSUME NEW s \in Sites, Progress(w, s) PROVE Progress(w, s)'
    BY <1>1, <1>2, <2>1, <2>2, <2>3 DEF Progress, Sizing, Due, Exists
  <2>. QED  BY <1>1, <1>2, <2>1, <2>2, <2>3, LookAlone
<1>4. CASE ~OverLimit(x)
  <2>. DEFINE k == [NoTask EXCEPT !.at = "size", !.left = left]
  <2>1. /\ k \in Task /\ k.at = "size" /\ k.why = "none" /\ k.site = NoSite /\ k.left = left
    BY DEF NoTask, Task, At
  <2>2. task' = [task EXCEPT ![w] = k] /\ task'[w] = k
    BY <1>1, <1>2, <1>4 DEF TrimEnds
  <2>. HIDE DEF k
  <2>3. Exists(x) => Cardinality(dirs[x].files) <= SiteMax
    BY <1>4, FilesCount, SiteCacheAssumption DEF OverLimit
  <2>4. ASSUME NEW s \in Sites, Progress(w, s) PROVE Progress(w, s)'
    BY <1>1, <1>2, <2>1, <2>2, <2>3, <2>4 DEF Progress, Sizing, Due, Exists
  <2>5. build[w].site \notin k.left \cup {k.site} /\ k.site \notin Sites
    BY <1>1, <1>2, <2>1, NamesAssumption
  <2>. QED  BY <1>1, <2>1, <2>2, <2>4, <2>5, LookAlone
<1>. QED  BY <1>3, <1>4

\* A prune that ends leaves its task.
LEMMA EndPruneAlone ==
  ASSUME CacheInv, NEW w \in Workers, EndPrune(w)
  PROVE  Alone(w)
<1>. DEFINE b == [build[w] EXCEPT !.stage = "ready"]
<1>1. /\ Shape /\ w \in Removers /\ WorkerOK(w) /\ Fresh(w) /\ build[w] \in Build
      /\ build[w].stage = "pruning" /\ task[w].at = "size"
      /\ dirs' = dirs /\ build' = [build EXCEPT ![w] = b] /\ task' = [task EXCEPT ![w] = NoTask]
      /\ History({}, {})
  BY WorkerFacts, PruneStage DEF EndPrune
<1>2. /\ b \in Build /\ b.stage = "ready" /\ b.site = build[w].site
      /\ b.lock = build[w].lock /\ b.mounted = build[w].mounted
  BY <1>1 DEF Build, Stage, Ahead
<1>. HIDE DEF b
<1>3. /\ task' \in [Removers -> Task] /\ task'[w] = NoTask
      /\ build' \in [Workers -> Build] /\ build'[w] = b /\ Others(w)
  BY <1>1, <1>2, NothingTypes DEF Shape, Others
<1>4. DirsOK' /\ Bystanders(w)
  BY <1>1, SameDirs
<1>5. Typed' /\ Entering(w)
  BY <1>1, <1>2, <1>3, <1>4, SiteCacheAssumption DEF Typed, Entering, Looping, OnLoop
<1>6. WorkerOK(w)' /\ TaskOK(w)' /\ Fresh(w)' /\ build'[w].stage # "pruning"
  BY <1>1, <1>2, <1>3, NamesAssumption
  DEF WorkerOK, TaskOK, Fresh, Mounts, Exists, OnLoop, NoTask
<1>7. ASSUME NEW s \in Sites PROVE OwnSite(w, s)
  <2>1. BuildAt(w, s) => BuildAt(w, s)'
    BY <1>1, <1>2, <1>3 DEF BuildAt, Exists, AllOf, Ahead
  <2>. QED  BY <1>1, <1>3, <2>1, SiteAsBefore DEF NoTask
<1>. QED  BY <1>1, <1>3, <1>4, <1>5, <1>6, <1>7 DEF Alone

\* Trimming a site takes files away; it refreshes a directory without metadata at most.
LEMMA TrimAlone ==
  ASSUME CacheInv, NEW w \in Workers, Trim(w)
  PROVE  Alone(w)
<1>1. /\ Shape /\ w \in Removers /\ WorkerOK(w) /\ TaskOK(w) /\ Fresh(w) /\ PruneOK(w)
      /\ task[w] \in Task /\ task[w].at = "trim" /\ task[w].why = "none"
      /\ build[w].stage = "pruning" /\ build[w].site \in Sites /\ build' = build
      /\ build[w].site \notin task[w].left \cup {task[w].site} /\ History({}, {})
  BY WorkerFacts, PruneStage DEF Trim
<1>2. PICK x \in Sites : x = task[w].site /\ Exists(x)
  BY <1>1 DEF TaskOK, Trim, OverLimit
<1>3. PICK f :
        /\ dirs' = [dirs EXCEPT ![x].files = @ \ {f}, ![x].old = @ /\ dirs[x].meta # Absent]
        /\ task' = [task EXCEPT ![w].todo = @ \ {f}]
  BY <1>2 DEF Trim
<1>. DEFINE e == [dirs[x] EXCEPT !.files = @ \ {f}, !.old = @ /\ dirs[x].meta # Absent]
            k == [task[w] EXCEPT !.todo = @ \ {f}]
<1>4. dirs[x] \in Directory /\ IsFiniteSet(dirs[x].files)
  BY <1>1, <1>2 DEF Shape, DirsOK, Exists
<1>5. /\ e \in Directory /\ e.files = dirs[x].files \ {f} /\ e.marker = dirs[x].marker
      /\ e.meta = dirs[x].meta /\ (e.old => dirs[x].old)
  BY <1>4 DEF Directory
<1>6. /\ k \in Task /\ k.at = "trim" /\ k.why = "none" /\ k.site = x /\ k.left = task[w].left
  BY <1>1, <1>2 DEF Task
<1>7. dirs' = [dirs EXCEPT ![x] = e] /\ task' = [task EXCEPT ![w] = k]
  BY <1>1, <1>2, <1>3 DEF Shape, DirsOK
<1>8. IsFiniteSet(e.files)
  <2>1. IsFiniteSet(dirs[x].files \ {f})
    BY <1>4, FS_RemoveElement
  <2>. QED  BY <1>5, <2>1
<1>. HIDE DEF e, k
<1>9. dirs'[x] = e /\ e # NoDir /\ \A s \in Sites \ {x} : dirs'[s] = dirs[s]
  BY <1>1, <1>5, <1>7, NamesAssumption DEF Shape, DirsOK
<1>10. DirsOK' /\ Bystanders(w)
  <2>1. DirsOK'
    BY <1>1, <1>5, <1>7, <1>8, <1>9 DEF Shape, DirsOK, Exists
  <2>. QED  BY <1>2, <1>5, <1>9, <2>1 DEF Bystanders, Kept, Exists
<1>11. task' \in [Removers -> Task] /\ task'[w] = k /\ Others(w)
  BY <1>1, <1>6, <1>7 DEF Shape, Others
<1>12. Typed' /\ Entering(w)
  BY <1>1, <1>10, <1>11, SiteCacheAssumption DEF Typed, Shape, Entering, Looping, OnLoop
<1>13. WorkerOK(w)' /\ TaskOK(w)' /\ Fresh(w)'
  BY <1>1, <1>2, <1>6, <1>9, <1>11 DEF WorkerOK, TaskOK, Fresh, Mounts, Exists, OnLoop
<1>14. ASSUME NEW s \in Sites, Progress(w, s) PROVE Progress(w, s)'
  <2>1. CASE s = x
    BY <1>1, <1>2, <1>5, <1>6, <1>9, <1>11, <1>14, <2>1 DEF Progress, Sizing, Due, Exists
  <2>2. CASE s # x
    BY <1>1, <1>2, <1>6, <1>9, <1>11, <1>14, <2>2 DEF Progress, Sizing, Due, Exists
  <2>. QED  BY <2>1, <2>2
<1>15. PruneOK(w)'
  BY <1>1, <1>14, PruneGoesOn
<1>16. ASSUME NEW s \in Sites PROVE OwnSite(w, s)
  <2>1. CASE s = x
    BY <1>1, <1>2, <1>6, <1>11, <2>1 DEF OwnSite, Uses, Users, Building, Removing
  <2>2. CASE s # x
    <3>1. dirs'[s] = dirs[s] /\ (BuildAt(w, s) => BuildAt(w, s)')
      BY <1>1, <1>9, <2>2 DEF BuildAt, Exists, AllOf
    <3>. QED  BY <1>1, <1>6, <1>11, <3>1, SiteAsBefore
  <2>. QED  BY <2>1, <2>2
<1>. QED  BY <1>1, <1>10, <1>11, <1>12, <1>13, <1>15, <1>16 DEF Alone

-----------------------------------------------------------------------------
(* The steps of a removal.                                                 *)

\* Who removes a directory, and why.
LEMMA RemovalStage ==
  ASSUME CacheInv, NEW r \in Removers, task[r].at \in {"judged", "removing"}
  PROVE  /\ Shape /\ TaskOK(r) /\ task[r] \in Task /\ task[r].site \in Sites
         /\ IF r \in Workers
            THEN /\ WorkerOK(r) /\ Fresh(r) /\ PruneOK(r) /\ build[r] \in Build
                 /\ build[r].site \in Sites
                 /\ \/ /\ build[r].stage = "wiping" /\ task[r].why = "wipe"
                       /\ task[r].site = build[r].site
                    \/ /\ build[r].stage = "pruning" /\ task[r].why \in {"age", "size"}
                       /\ build[r].site \notin task[r].left \cup {task[r].site}
            ELSE task[r].why \in {"one", "all"}
<1>1. /\ Shape /\ TaskOK(r) /\ task[r] \in Task /\ task[r].site \in Sites
      /\ task[r].why # "none"
  BY DEF CacheInv, Shape, TaskOK
<1>2. CASE r \in Workers
  BY <1>1, <1>2, WorkerFacts DEF WorkerOK, NoTask
<1>3. CASE r \notin Workers
  BY <1>1, <1>3 DEF TaskOK
<1>. QED  BY <1>1, <1>2, <1>3

\* After a removal the remover goes on with the loop it came from, or is done.
LEMMA ResumedType ==
  ASSUME NEW t \in Task
  PROVE  /\ Resumed(t) \in Task /\ Resumed(t).site = NoSite /\ Resumed(t).why = "none"
         /\ Resumed(t).at = IF t.why \in {"age", "size", "all"} THEN t.why ELSE "idle"
         /\ t.why \in {"age", "size", "all"} => Resumed(t).left = t.left
         /\ t.why \notin {"age", "size", "all"} => Resumed(t) = NoTask
  BY DEF Resumed, NoTask, Task, At

\* A directory that is gone before it is opened fails the prune, the wipe or the reset,
\* or leaves nothing to do.
LEMMA OpenGoneAlone ==
  ASSUME CacheInv, NEW r \in Removers, OpenGone(r)
  PROVE  Alone(r)
<1>1. /\ task[r].at = "judged" /\ ~Exists(task[r].site) /\ dirs' = dirs /\ History({}, {})
  BY DEF OpenGone
<1>2. CASE Fails(r)
  BY <1>1, <1>2, FailsAlone
<1>3. CASE /\ task[r].why \in {"all", "wipe"}
           /\ task' = [task EXCEPT ![r] = Resumed(@)]
           /\ build' = IF Wiped(r) THEN [build EXCEPT ![r].stage = "wiped"] ELSE build
  <2>1. Shape /\ task[r] \in Task
    BY <1>1, RemovalStage
  <2>2. task' \in [Removers -> Task] /\ task'[r] = Resumed(task[r])
    BY <1>3, <2>1, ResumedType DEF Shape
  <2>3. DirsOK' /\ Bystanders(r)
    BY <1>1, <2>1, SameDirs
  <2>4. CASE r \in Workers
    <3>. DEFINE b == [build[r] EXCEPT !.stage = "wiped"]
    <3>1. /\ WorkerOK(r) /\ build[r] \in Build /\ build[r].stage = "wiping"
          /\ task[r].why = "wipe" /\ task[r].site = build[r].site
      BY <1>1, <1>3, <2>4, RemovalStage
    <3>2. /\ b \in Build /\ b.stage = "wiped" /\ b.site = build[r].site
          /\ b.lock = build[r].lock /\ b.mounted = build[r].mounted
      BY <3>1 DEF Build, Stage, OnLoop
    <3>3. build' = [build EXCEPT ![r] = b]
      BY <1>3, <2>4, <3>1 DEF Wiped
    <3>. HIDE DEF b
    <3>4. build' \in [Workers -> Build] /\ build'[r] = b /\ Others(r)
      BY <1>3, <2>1, <2>4, <3>2, <3>3 DEF Shape, Others
    <3>5. task'[r] = NoTask
      BY <2>1, <2>2, <3>1, ResumedType
    <3>6. Typed' /\ Entering(r)
      BY <2>2, <2>3, <2>4, <3>1, <3>4 DEF Typed, Entering, Looping, OnLoop
    <3>7. WorkerOK(r)' /\ TaskOK(r)' /\ Fresh(r)' /\ build'[r].stage # "pruning"
      BY <2>4, <3>1, <3>2, <3>4, <3>5, NamesAssumption
      DEF WorkerOK, TaskOK, Fresh, Mounts, OnLoop, NoTask
    <3>8. ASSUME NEW s \in Sites PROVE OwnSite(r, s)
      <4>1. BuildAt(r, s)'
        BY <1>1, <3>1, <3>2, <3>4 DEF BuildAt, Exists, Ahead
      <4>. QED  BY <1>1, <2>1, <3>4, <3>5, <4>1, SiteAsBefore DEF NoTask
    <3>. QED  BY <1>1, <2>3, <3>4, <3>6, <3>7, <3>8 DEF Alone
  <2>5. CASE r \notin Workers
    <3>1. task[r].why = "all" /\ task'[r].at = "all" /\ task'[r].why = "none" /\ task'[r].site = NoSite
      BY <1>1, <1>3, <2>1, <2>2, <2>5, RemovalStage, ResumedType
    <3>2. build' = build /\ Others(r)
      BY <1>3, <2>1, <2>5 DEF Wiped, Shape, Others
    <3>3. Typed' /\ Entering(r) /\ TaskOK(r)'
      BY <1>1, <2>1, <2>2, <2>3, <2>5, <3>1, <3>2, NamesAssumption
      DEF Typed, Shape, Entering, Looping, TaskOK
    <3>4. ASSUME NEW s \in Sites PROVE OwnSite(r, s)
      BY <1>1, <2>1, <2>5, <3>1, <3>2, SiteAsBefore
    <3>. QED  BY <1>1, <2>3, <2>5, <3>2, <3>3, <3>4 DEF Alone
  <2>. QED  BY <2>4, <2>5
<1>. QED  BY <1>2, <1>3 DEF OpenGone

\* The entries of a directory are files, metadata and marker.
LEMMA EntriesType ==
  ASSUME Shape, NEW s \in Sites
  PROVE  EntriesOf(s) \subseteq Entry
  BY DEF EntriesOf, Entry, Exists, Shape, DirsOK, Directory

\* A removal lists all entries of the directory.
LEMMA OpenAlone ==
  ASSUME CacheInv, NEW r \in Removers, Open(r)
  PROVE  Alone(r)
<1>1. /\ task[r].at = "judged" /\ dirs' = dirs /\ build' = build /\ History({}, {})
      /\ Shape /\ TaskOK(r) /\ task[r] \in Task
  BY RemovalStage DEF Open
<1>2. PICK x \in Sites : x = task[r].site /\ Exists(x)
  BY <1>1, RemovalStage DEF Open
<1>. DEFINE k == [task[r] EXCEPT !.at = "removing", !.todo = EntriesOf(x), !.here = TRUE]
<1>3. /\ k \in Task /\ k.at = "removing" /\ k.todo = EntriesOf(x) /\ k.here
      /\ k.why = task[r].why /\ k.left = task[r].left /\ k.site = x
  BY <1>1, <1>2, EntriesType DEF Task, At
<1>4. task' = [task EXCEPT ![r] = k]
  BY <1>1, <1>2 DEF Open, Shape
<1>. HIDE DEF k
<1>5. task' \in [Removers -> Task] /\ task'[r] = k /\ Others(r)
  BY <1>1, <1>3, <1>4 DEF Shape, Others
<1>6. DirsOK' /\ Bystanders(r)
  BY <1>1, SameDirs
<1>7. Typed' /\ Entering(r) /\ TaskOK(r)'
  BY <1>1, <1>2, <1>3, <1>5, <1>6 DEF Typed, Shape, Entering, Looping, TaskOK
<1>8. ASSUME r \in Workers PROVE WorkerOK(r)' /\ Fresh(r)'
  BY <1>1, <1>2, <1>3, <1>5, <1>8, RemovalStage DEF WorkerOK, Fresh, Mounts, Exists, OnLoop
<1>9. ASSUME r \in Workers, build'[r].stage = "pruning" PROVE PruneOK(r)'
  <2>1. ASSUME NEW s \in Sites, Progress(r, s) PROVE Progress(r, s)'
    BY <1>1, <1>2, <1>3, <1>5, <2>1 DEF Progress, Sizing, Due, Exists
  <2>. QED  BY <1>1, <1>9, <2>1, RemovalStage, PruneGoesOn
<1>10. ASSUME NEW s \in Sites PROVE OwnSite(r, s)
  <2>1. CASE s # x
    <3>1. BuildAt(r, s) => BuildAt(r, s)'
      BY <1>1 DEF BuildAt, Exists, AllOf
    <3>. QED  BY <1>1, <1>3, <1>5, <2>1, <3>1, SiteAsBefore
  <2>2. CASE s = x
    <3>1. RemoverAt(r, s)' /\ Labelled(s)'
      BY <1>1, <1>2, <1>3, <1>5, <2>2 DEF RemoverAt, Labelled, Exists, EntriesOf
    <3>2. r \in Workers => (BuildAt(r, s) => BuildAt(r, s)')
      BY <1>1 DEF BuildAt, Exists, AllOf
    <3>. QED  BY <3>1, <3>2 DEF OwnSite, SiteInv
  <2>. QED  BY <2>1, <2>2
<1>. QED  BY <1>1, <1>5, <1>6, <1>7, <1>8, <1>9, <1>10 DEF Alone

\* An entry that is removed is gone, and nothing else.
LEMMA WithoutFacts ==
  ASSUME NEW d \in Directory, IsFiniteSet(d.files), NEW e \in Entry
  PROVE  /\ Without(d, e) \in Directory /\ IsFiniteSet(Without(d, e).files)
         /\ Without(d, e).old => d.old
         /\ Without(d, e).files = d.files \ {e}
         /\ Without(d, e).meta # Absent => d.meta # Absent /\ e # Metadata
         /\ Without(d, e).marker => d.marker /\ e # Marker
<1>1. CASE e = Metadata
  <2>1. Without(d, e) = [d EXCEPT !.meta = Absent, !.old = FALSE]
    BY <1>1, NamesAssumption DEF Without
  <2>2. e \notin d.files
    BY <1>1, NamesAssumption DEF Directory
  <2>. QED  BY <1>1, <2>1, <2>2, NamesAssumption DEF Directory
<1>2. CASE e = Marker
  <2>1. Without(d, e) = [d EXCEPT !.marker = FALSE, !.old = @ /\ d.meta # Absent]
    BY <1>2, NamesAssumption DEF Without
  <2>2. e \notin d.files
    BY <1>2, NamesAssumption DEF Directory
  <2>. QED  BY <1>2, <2>1, <2>2, NamesAssumption DEF Directory
<1>3. CASE e \notin {Metadata, Marker}
  <2>1. Without(d, e) = [d EXCEPT !.files = @ \ {e}, !.old = @ /\ d.meta # Absent]
    BY <1>3 DEF Without
  <2>2. IsFiniteSet(d.files \ {e})
    BY FS_RemoveElement
  <2>. QED  BY <1>3, <2>1, <2>2 DEF Directory
<1>. QED  BY <1>1, <1>2, <1>3

\* Unlinking leaves entries only that are still to be unlinked.
LEMMA UnlinkAlone ==
  ASSUME CacheInv, NEW r \in Removers, Unlink(r)
  PROVE  Alone(r)
<1>1. /\ task[r].at = "removing" /\ build' = build /\ History({}, {})
      /\ Shape /\ TaskOK(r) /\ task[r] \in Task
  BY RemovalStage DEF Unlink
<1>2. PICK x \in Sites : x = task[r].site
  BY <1>1, RemovalStage
<1>3. PICK e \in task[r].todo :
        /\ task' = [task EXCEPT ![r].todo = @ \ {e}]
        /\ dirs' = IF task[r].here /\ e \in EntriesOf(x)
                   THEN [dirs EXCEPT ![x] = Without(@, e)] ELSE dirs
  BY <1>2 DEF Unlink
<1>. DEFINE k == [task[r] EXCEPT !.todo = @ \ {e}]
            d == Without(dirs[x], e)
<1>4. /\ k \in Task /\ k.at = "removing" /\ k.todo = task[r].todo \ {e} /\ k.here = task[r].here
      /\ k.why = task[r].why /\ k.left = task[r].left /\ k.site = x
  BY <1>1, <1>2 DEF Task
<1>5. task' = [task EXCEPT ![r] = k]
  BY <1>1, <1>3 DEF Shape
<1>. HIDE DEF k, d
<1>6. task' \in [Removers -> Task] /\ task'[r] = k /\ Others(r)
  BY <1>1, <1>4, <1>5 DEF Shape, Others
<1>7. Uses(r, x)
  BY <1>1, <1>2 DEF Uses, Users, Removing
<1>9. /\ DirsOK' /\ Bystanders(r) /\ (Exists(x) <=> Exists(x)')
      /\ \A s \in Sites \ {x} : dirs'[s] = dirs[s]
      /\ (Exists(x)' /\ dirs'[x].old) => dirs[x].old
      /\ task[r].here => EntriesOf(x)' \subseteq EntriesOf(x) \ {e}
  <2>1. CASE task[r].here /\ e \in EntriesOf(x)
    <3>1. Exists(x) /\ dirs[x] \in Directory /\ IsFiniteSet(dirs[x].files) /\ e \in Entry
      BY <1>1, <2>1 DEF EntriesOf, Shape, DirsOK, Exists, Task
    <3>2. /\ d \in Directory /\ IsFiniteSet(d.files) /\ (d.old => dirs[x].old)
          /\ d.files = dirs[x].files \ {e}
          /\ d.meta # Absent => dirs[x].meta # Absent /\ e # Metadata
          /\ d.marker => dirs[x].marker /\ e # Marker
      BY <3>1, WithoutFacts DEF d
    <3>3. dirs' = [dirs EXCEPT ![x] = d]
      BY <1>3, <2>1 DEF d
    <3>4. d.old => Exists(x) /\ dirs[x].old
      BY <3>1, <3>2
    <3>5. DirsOK' /\ Bystanders(r) /\ dirs'[x] = d /\ Exists(x)'
      BY <1>1, <1>7, <3>2, <3>3, <3>4, OneDir
    <3>6. \A s \in Sites \ {x} : dirs'[s] = dirs[s]
      BY <1>1, <3>3 DEF Shape, DirsOK
    <3>7. EntriesOf(x)' \subseteq EntriesOf(x) \ {e}
      <4>1. dirs[x].files \subseteq File
        BY <3>1 DEF Directory
      <4>. QED  BY <3>1, <3>2, <3>5, <4>1, NamesAssumption DEF EntriesOf
    <3>. QED  BY <3>1, <3>2, <3>5, <3>6, <3>7
  <2>2. CASE ~(task[r].here /\ e \in EntriesOf(x))
    <3>1. dirs' = dirs
      BY <1>3, <2>2
    <3>2. DirsOK' /\ Bystanders(r)
      BY <1>1, <3>1, SameDirs
    <3>3. EntriesOf(x)' = EntriesOf(x) /\ (Exists(x) <=> Exists(x)')
      BY <3>1 DEF EntriesOf, Exists
    <3>. QED  BY <2>2, <3>1, <3>2, <3>3
  <2>. QED  BY <2>1, <2>2
<1>10. Typed' /\ Entering(r) /\ TaskOK(r)'
  BY <1>1, <1>2, <1>4, <1>6, <1>9 DEF Typed, Shape, Entering, Looping, TaskOK
<1>11. ASSUME r \in Workers PROVE WorkerOK(r)' /\ Fresh(r)'
  <2>1. build[r].stage \in {"wiping", "pruning"} /\ WorkerOK(r) /\ Fresh(r)
        /\ (build[r].stage = "pruning" => build[r].site \in Sites \ {x})
    BY <1>1, <1>2, <1>11, RemovalStage
  <2>. QED  BY <1>1, <1>2, <1>4, <1>6, <1>9, <2>1 DEF WorkerOK, Fresh, Mounts, Exists, OnLoop
<1>12. ASSUME r \in Workers, build'[r].stage = "pruning" PROVE PruneOK(r)'
  <2>1. ASSUME NEW s \in Sites, Progress(r, s) PROVE Progress(r, s)'
    <3>1. CASE s = x
      BY <1>1, <1>2, <1>4, <1>6, <1>9, <2>1, <3>1 DEF Progress, Sizing, Due
    <3>2. CASE s # x
      BY <1>1, <1>2, <1>4, <1>6, <1>9, <2>1, <3>2 DEF Progress, Sizing, Due, Exists
    <3>. QED  BY <3>1, <3>2
  <2>. QED  BY <1>1, <1>12, <2>1, RemovalStage, PruneGoesOn
<1>13. ASSUME NEW s \in Sites PROVE OwnSite(r, s)
  <2>1. CASE s # x
    <3>1. dirs'[s] = dirs[s] /\ (BuildAt(r, s) => BuildAt(r, s)')
      BY <1>1, <1>9, <2>1 DEF BuildAt, Exists, AllOf
    <3>. QED  BY <1>1, <1>2, <1>4, <1>6, <2>1, <3>1, SiteAsBefore
  <2>2. CASE s = x
    <3>1. SiteInv(s) => RemoverAt(r, s)'
      BY <1>1, <1>2, <1>4, <1>6, <1>9, <2>2 DEF SiteInv, RemoverAt
    <3>2. Labelled(s)'
      BY <1>4, <1>6, <2>2 DEF Labelled
    <3>3. r \in Workers => BuildAt(r, s)'
      BY <1>1, <1>2, <2>2, RemovalStage DEF BuildAt, Ahead
    <3>. QED  BY <3>1, <3>2, <3>3 DEF OwnSite
  <2>. QED  BY <2>1, <2>2
<1>. QED  BY <1>1, <1>6, <1>9, <1>10, <1>11, <1>12, <1>13 DEF Alone

\* A directory that somebody filled or removed meanwhile was disturbed already.
LEMMA RmdirFailsAlone ==
  ASSUME CacheInv, NEW r \in Removers, RmdirFails(r)
  PROVE  Alone(r)
<1>1. /\ task[r].at = "removing" /\ dirs' = dirs /\ History({}, {}) /\ task[r].todo = {}
      /\ Shape /\ TaskOK(r) /\ task[r] \in Task
      /\ ~Exists(task[r].site) \/ EntriesOf(task[r].site) # {}
  BY RemovalStage DEF RmdirFails
<1>2. \A s \in Sites : task[r].site = s => ~SiteInv(s)
  BY <1>1 DEF SiteInv, RemoverAt
<1>3. CASE Fails(r)
  BY <1>1, <1>2, <1>3, FailsAlone
<1>4. CASE /\ task[r].why = "all" /\ task' = [task EXCEPT ![r] = Resumed(@)] /\ build' = build
  <2>1. r \notin Workers
    BY <1>1, <1>4, RemovalStage
  <2>2. /\ task' \in [Removers -> Task] /\ task'[r].at = "all" /\ task'[r].why = "none"
        /\ task'[r].site = NoSite /\ Others(r)
    BY <1>1, <1>4, ResumedType DEF Shape, Others
  <2>3. DirsOK' /\ Bystanders(r)
    BY <1>1, SameDirs
  <2>4. Typed' /\ Entering(r) /\ TaskOK(r)'
    BY <1>1, <1>4, <2>1, <2>2, <2>3, NamesAssumption
    DEF Typed, Shape, Entering, Looping, TaskOK
  <2>5. ASSUME NEW s \in Sites PROVE OwnSite(r, s)
    <3>1. CASE task[r].site = s
      BY <1>2, <3>1 DEF OwnSite
    <3>2. CASE task[r].site # s
      BY <1>1, <2>1, <2>2, <3>2, SiteAsBefore
    <3>. QED  BY <3>1, <3>2
  <2>. QED  BY <1>1, <2>1, <2>2, <2>3, <2>4, <2>5 DEF Alone
<1>. QED  BY <1>3, <1>4 DEF RmdirFails

-----------------------------------------------------------------------------
(* The steps of a reset.                                                   *)

\* A remover that is no worker goes on to another site, without a removal under way.
LEMMA ResetStepAlone ==
  ASSUME CacheInv, NEW r \in {Handler, Cli}, NEW k \in Task, task[r].at \in {"idle", "all"},
         dirs' = dirs, build' = build, task' = [task EXCEPT ![r] = k], History({}, {}),
         k.at \in {"idle", "all", "judged"}, k.why \in {"none", "one", "all"},
         k.at = "judged" <=> k.why # "none", k.at = "judged" <=> k.site \in Sites,
         r = Handler => task[r].at = "all" \/ LoopFree
  PROVE  Alone(r)
<1>1. Shape /\ r \in Removers /\ r \notin Workers
  BY SiteCacheAssumption DEF CacheInv, Removers
<1>2. task' \in [Removers -> Task] /\ task'[r] = k /\ Others(r)
  BY <1>1 DEF Shape, Others
<1>3. DirsOK' /\ Bystanders(r)
  BY <1>1, SameDirs
<1>4. Typed' /\ Entering(r) /\ TaskOK(r)'
  BY <1>1, <1>2, <1>3 DEF Typed, Shape, Entering, Looping, TaskOK
<1>5. ASSUME NEW s \in Sites PROVE OwnSite(r, s)
  BY <1>1, <1>2, SiteAsBefore
<1>. QED  BY <1>1, <1>2, <1>3, <1>4, <1>5 DEF Alone

\* A reset starts with one site or with the list of all.
LEMMA StartResetAlone ==
  ASSUME CacheInv, NEW r \in {Handler, Cli}, StartReset(r)
  PROVE  Alone(r)
<1>1. CASE \E s \in Present : task' = [task EXCEPT ![r] = StartRemoval(s, "one", {})]
  <2>1. PICK s \in Sites : task' = [task EXCEPT ![r] = StartRemoval(s, "one", {})]
    BY <1>1 DEF Present
  <2>2. /\ StartRemoval(s, "one", {}) \in Task /\ StartRemoval(s, "one", {}).at = "judged"
        /\ StartRemoval(s, "one", {}).why = "one" /\ StartRemoval(s, "one", {}).site = s
    BY RemovalType
  <2>. QED  BY <2>1, <2>2, ResetStepAlone DEF StartReset
<1>2. CASE task' = [task EXCEPT ![r] = [NoTask EXCEPT !.at = "all", !.left = Present]]
  <2>. DEFINE k == [NoTask EXCEPT !.at = "all", !.left = Present]
  <2>1. k \in Task /\ k.at = "all" /\ k.why = "none" /\ k.site \notin Sites
    BY NamesAssumption DEF NoTask, Task, At, Present
  <2>. HIDE DEF k
  <2>2. task' = [task EXCEPT ![r] = k]
    BY <1>2 DEF k
  <2>. QED  BY <2>1, <2>2, ResetStepAlone DEF StartReset
<1>. QED  BY <1>1, <1>2 DEF StartReset

\* A reset of all sites takes the next one, or ends.
LEMMA ResetNextAlone ==
  ASSUME CacheInv, NEW r \in {Handler, Cli}, ResetNext(r)
  PROVE  Alone(r)
<1>0. task[r] \in Task /\ task \in [Removers -> Task] /\ r \in Removers
  BY DEF CacheInv, Shape, Removers
<1>1. CASE \E s \in task[r].left : task' = [task EXCEPT ![r] = StartRemoval(s, "all", @.left \ {s})]
  <2>1. PICK s \in Sites : task' = [task EXCEPT ![r] = StartRemoval(s, "all", task[r].left \ {s})]
    BY <1>0, <1>1 DEF Task
  <2>. DEFINE k == StartRemoval(s, "all", task[r].left \ {s})
  <2>2. task[r].left \ {s} \in SUBSET Sites
    BY <1>0 DEF Task
  <2>3. k \in Task /\ k.at = "judged" /\ k.why = "all" /\ k.site = s
    BY <2>2, RemovalType
  <2>. HIDE DEF k
  <2>4. task' = [task EXCEPT ![r] = k]
    BY <2>1 DEF k
  <2>. QED  BY <2>3, <2>4, ResetStepAlone DEF ResetNext
<1>2. CASE task' = [task EXCEPT ![r] = NoTask]
  <2>1. NoTask \in Task /\ NoTask.at = "idle" /\ NoTask.why = "none" /\ NoTask.site \notin Sites
    BY NothingTypes, NamesAssumption DEF NoTask
  <2>. QED  BY <1>2, <2>1, ResetStepAlone DEF ResetNext
<1>. QED  BY <1>1, <1>2 DEF ResetNext

-----------------------------------------------------------------------------
(* The steps that reach others: the end of a removal, which takes the      *)
(* directory away from whoever has it open or mounted, time and kills.     *)

\* The end of a removal keeps the invariant: the site is as if it never had a directory.
LEMMA RmdirKeepsInv ==
  ASSUME CacheInv, NEW r \in Removers, Rmdir(r)
  PROVE  CacheInv'
<1>1. /\ task[r].at = "removing" /\ History({}, {})
      /\ Shape /\ TaskOK(r) /\ task[r] \in Task
  BY RemovalStage DEF Rmdir
<1>2. PICK x \in Sites : x = task[r].site
  BY <1>1, RemovalStage
<1>. DEFINE k == Resumed(task[r])
            Went(v) == Building(v, x) /\ build[v].stage = "building"
<1>3. /\ dirs' = [dirs EXCEPT ![x] = NoDir]
      /\ task' = [q \in Removers |->
           IF q = r THEN k ELSE [task[q] EXCEPT !.here = @ /\ task[q].site # x]]
      /\ build' = [v \in Workers |->
           IF v = r /\ Wiped(r) THEN [build[v] EXCEPT !.stage = "wiped"]
           ELSE [build[v] EXCEPT !.mounted = @ /\ ~Went(v)]]
  BY <1>2 DEF Rmdir
<1>4. /\ k \in Task /\ k.site = NoSite /\ k.why = "none" /\ k.at \notin {"trim", "judged", "removing"}
      /\ k.at = IF task[r].why \in {"age", "size", "all"} THEN task[r].why ELSE "idle"
      /\ task[r].why \in {"age", "size", "all"} => k.left = task[r].left
      /\ task[r].why \notin {"age", "size", "all"} => k = NoTask
  BY <1>1, ResumedType DEF Task
<1>. HIDE DEF k
<1>5. ~Exists(x)' /\ \A s \in Sites \ {x} : dirs'[s] = dirs[s]
  BY <1>1, <1>3 DEF Shape, DirsOK, Exists
<1>6. ASSUME NEW q \in Removers \ {r}
      PROVE  /\ task'[q] \in Task /\ task'[q].at = task[q].at /\ task'[q].why = task[q].why
             /\ task'[q].left = task[q].left /\ task'[q].site = task[q].site
             /\ task'[q].todo = task[q].todo /\ (task[q].site # x => task'[q] = task[q])
  <2>1. task[q] \in Task /\ task'[q] = [task[q] EXCEPT !.here = @ /\ task[q].site # x]
    BY <1>1, <1>3 DEF Shape
  <2>. QED  BY <2>1 DEF Task
<1>7. task'[r] = k
  BY <1>3
<1>8. ASSUME NEW v \in Workers, ~(v = r /\ Wiped(r))
      PROVE  /\ build'[v] \in Build /\ build'[v].stage = build[v].stage
             /\ build'[v].site = build[v].site /\ build'[v].lock = build[v].lock
             /\ build'[v].mounted => build[v].mounted /\ ~Went(v)
             /\ ~Went(v) => build'[v] = build[v]
  <2>1. build[v] \in Build /\ build'[v] = [build[v] EXCEPT !.mounted = @ /\ ~Went(v)]
    BY <1>1, <1>3, <1>8 DEF Shape
  <2>. QED  BY <2>1 DEF Build
<1>9. ASSUME r \in Workers, Wiped(r)
      PROVE  /\ build'[r] \in Build /\ build'[r].stage = "wiped" /\ build'[r].site = x
             /\ build'[r].lock = build[r].lock /\ build'[r].mounted = build[r].mounted
             /\ build[r].stage = "wiping" /\ build[r].site = x /\ k = NoTask
             /\ WorkerOK(r)
  <2>1. /\ build[r] \in Build /\ build'[r] = [build[r] EXCEPT !.stage = "wiped"]
        /\ task[r].why = "wipe" /\ build[r].stage = "wiping" /\ build[r].site = x /\ WorkerOK(r)
    BY <1>1, <1>2, <1>3, <1>9, RemovalStage DEF Wiped
  <2>. QED  BY <1>4, <2>1 DEF Build, Stage, OnLoop
<1>10. ASSUME r \in Workers, ~Wiped(r)
       PROVE  /\ build'[r] = build[r] /\ build[r].stage = "pruning" /\ task[r].why \in {"age", "size"}
              /\ build[r].site \in Sites \ {x} /\ build[r].site \notin task[r].left
              /\ WorkerOK(r) /\ PruneOK(r)
  <2>1. /\ build[r].stage = "pruning" /\ task[r].why \in {"age", "size"}
        /\ build[r].site \in Sites \ {x} /\ build[r].site \notin task[r].left
        /\ WorkerOK(r) /\ PruneOK(r)
    BY <1>1, <1>2, <1>10, RemovalStage DEF Wiped
  <2>. QED  BY <1>8, <1>10, <2>1
<1>. HIDE DEF Went
<1>11. ASSUME NEW v \in Workers, build'[v].stage = "building", build'[v].mounted
       PROVE  build'[v] = build[v] /\ build[v].site # x
  BY <1>8, <1>9, <1>11 DEF Went, Building
<1>12. Shape'
  <2>1. DirsOK'
    BY <1>1, <1>3, <1>5 DEF Shape, DirsOK, Exists
  <2>2. task' \in [Removers -> Task]
    BY <1>3, <1>4, <1>6, <1>7
  <2>3. build' \in [Workers -> Build]
    BY <1>3, <1>8, <1>9
  <2>4. ASSUME NEW q \in Removers PROVE TaskOK(q)'
    <3>1. CASE q = r
      BY <1>1, <1>4, <1>7, <3>1, RemovalStage, NamesAssumption DEF TaskOK
    <3>2. CASE q # r
      BY <1>1, <1>6, <3>2 DEF TaskOK, Shape
    <3>. QED  BY <3>1, <3>2
  <2>5. ASSUME NEW v \in Workers PROVE WorkerOK(v)'
    <3>1. (build'[v].stage = "building" /\ build'[v].mounted) => Exists(build[v].site)'
      <4>1. WorkerOK(v)
        BY <1>1 DEF Shape
      <4>. QED  BY <1>5, <1>11, <4>1 DEF WorkerOK, Exists
    <3>2. CASE v = r /\ Wiped(r)
      BY <1>7, <1>9, <3>1, <3>2 DEF WorkerOK, OnLoop
    <3>3. CASE v = r /\ ~Wiped(r)
      BY <1>4, <1>7, <1>10, <3>1, <3>3, NamesAssumption DEF WorkerOK, OnLoop
    <3>4. CASE v # r
      <4>1. v \in Removers /\ WorkerOK(v)
        BY <1>1 DEF Shape, Removers
      <4>2. task[v] = NoTask => task'[v] = NoTask
        BY <1>6, <3>4, <4>1, NamesAssumption DEF NoTask
      <4>3. /\ build[v].stage \in OnLoop => build[v].stage # "building"
        BY DEF OnLoop
      <4>4. ~Went(v) => build'[v] = build[v]
        BY <1>8, <3>4
      <4>5. build[v].stage \in OnLoop => build'[v].mounted
        BY <4>1, <4>3, <4>4 DEF WorkerOK, Went
      <4>. QED  BY <1>6, <1>8, <3>1, <3>4, <4>1, <4>2, <4>5 DEF WorkerOK
    <3>. QED  BY <3>2, <3>3, <3>4
  <2>6. OneOnLoop'
    <3>1. Looping' \subseteq Looping
      BY <1>1, <1>6, <1>8, <1>9 DEF Looping, OnLoop, Removers
    <3>. QED  BY <1>1, <3>1 DEF Shape, OneOnLoop
  <2>7. disturbed' \subseteq Sites /\ quiet' \in [Workers -> SUBSET Sites]
    BY <1>1, HistoryFacts DEF Shape
  <2>. QED  BY <2>1, <2>2, <2>3, <2>4, <2>5, <2>6, <2>7 DEF Shape
<1>13. ASSUME NEW v \in Workers PROVE Fresh(v)'
  <2>. SUFFICES ASSUME Mounts(v)' PROVE ~dirs'[build'[v].site].old
    BY DEF Fresh
  <2>1. build'[v].site # x /\ ~(v = r /\ Wiped(r))
    BY <1>5, <1>9 DEF Mounts
  <2>2. build[v].site \in Sites
    BY <1>1, <1>8, <2>1 DEF Mounts, Shape, WorkerOK
  <2>3. Mounts(v) /\ build'[v].site = build[v].site /\ dirs'[build[v].site] = dirs[build[v].site]
    BY <1>5, <1>8, <2>1, <2>2 DEF Mounts, Exists
  <2>. QED  BY <2>3 DEF CacheInv, Fresh
<1>14. ASSUME NEW s \in Sites PROVE SiteOK(s)'
  <2>. SUFFICES ASSUME s \notin disturbed' PROVE SiteInv(s)'
    BY DEF SiteOK
  <2>1. /\ \A u, v \in Users(s)' : u = v
        /\ s \notin disturbed \/ Clean(s)'
    BY <1>1, HistoryFacts DEF Shape
  <2>2. CASE Clean(s)'
    BY <1>12, <2>1, <2>2, CleanSiteIsOK
  <2>3. CASE s \notin disturbed /\ s = x
    <3>1. SiteInv(s) /\ Users(s) \subseteq {r}
      BY <1>1, <1>2, <2>3 DEF CacheInv, SiteOK, SiteInv, Users, Removing
    <3>2. ASSUME NEW q \in Removers PROVE ~(task'[q].at = "removing" /\ task'[q].site = s)
      BY <1>4, <1>6, <1>7, <3>1 DEF Users, Removing
    <3>3. ASSUME NEW v \in Workers
          PROVE  build'[v].site = s => build'[v].stage \in {"idle", "wiped"}
      <4>1. CASE v = r
        BY <1>9, <1>10, <2>3, <4>1
      <4>2. CASE v # r
        BY <1>8, <3>1, <4>2 DEF Users, Building
      <4>. QED  BY <4>1, <4>2
    <3>. QED  BY <1>5, <2>1, <2>3, <3>2, <3>3 DEF SiteInv, Labelled, RemoverAt, BuildAt, Ahead
  <2>4. CASE s \notin disturbed /\ s # x
    <3>1. SiteInv(s) /\ dirs'[s] = dirs[s]
      BY <1>5, <2>4 DEF CacheInv, SiteOK
    <3>2. ASSUME NEW q \in Removers
          PROVE  \/ task'[q] = task[q]
                 \/ ~(task[q].at = "removing" /\ task[q].site = s)
                    /\ ~(task'[q].at = "removing" /\ task'[q].site = s)
      BY <1>2, <1>4, <1>6, <1>7, <2>4
    <3>3. Labelled(s)'
      BY <3>1, <3>2 DEF SiteInv, Labelled, AllOf, Exists
    <3>4. ASSUME NEW q \in Removers PROVE RemoverAt(q, s)'
      BY <3>1, <3>2 DEF SiteInv, RemoverAt, Exists, EntriesOf
    <3>5. ASSUME NEW v \in Workers PROVE BuildAt(v, s)'
      <4>1. build'[v].site = s => build'[v] = build[v]
        BY <1>8, <1>9, <2>4 DEF Went, Building
      <4>. QED  BY <3>1, <4>1 DEF SiteInv, BuildAt, AllOf, Exists
    <3>. QED  BY <2>1, <3>3, <3>4, <3>5 DEF SiteInv
  <2>. QED  BY <2>1, <2>2, <2>3, <2>4
<1>15. ASSUME NEW w \in Workers PROVE PruneOK(w)'
  <2>. SUFFICES ASSUME NEW s \in quiet'[w]
                PROVE  /\ build'[w].stage = "pruning" /\ s # build'[w].site
                       /\ Users(s)' \subseteq {w} /\ Progress(w, s)'
    BY DEF PruneOK
  <2>1. /\ s \in Sites /\ build'[w].stage = "pruning"
        /\ build[w].stage = "pruning" => s \in quiet[w] /\ Users(s)' \subseteq {w}
    BY <1>1, HistoryFacts DEF Shape
  <2>2. ~(w = r /\ Wiped(r)) /\ build[w].stage = "pruning" /\ build'[w].site = build[w].site
    BY <1>8, <1>9, <2>1
  <2>3. s \in quiet[w] /\ Users(s)' \subseteq {w}
    BY <2>1, <2>2
  <2>4. s # build[w].site /\ Users(s) \subseteq {w} /\ Progress(w, s)
    BY <2>3 DEF CacheInv, PruneOK
  <2>5. Progress(w, s)'
    <3>1. CASE s = x
      BY <1>5, <3>1 DEF Progress
    <3>2. CASE s # x /\ w # r
      <4>1. w \in Removers \ {r}
        BY <3>2 DEF Removers
      <4>. QED  BY <1>5, <1>6, <2>1, <2>4, <3>2, <4>1 DEF Progress, Sizing, Due, Exists
    <3>3. CASE s # x /\ w = r
      <4>1. task[w].at = "removing" /\ task[w].why \in {"age", "size"}
        BY <1>1, <1>10, <2>2, <3>3
      <4>2. /\ task'[w].at = task[w].why /\ task'[w].why = "none"
            /\ task'[w].left = task[w].left /\ task[w].site = x
        BY <1>2, <1>4, <1>7, <3>3, <4>1
      <4>. QED  BY <1>5, <2>1, <2>4, <3>3, <4>1, <4>2 DEF Progress, Sizing, Due, Exists
    <3>. QED  BY <3>1, <3>2, <3>3
  <2>. QED  BY <2>1, <2>2, <2>3, <2>4, <2>5
<1>. QED  BY <1>12, <1>13, <1>14, <1>15 DEF CacheInv

\* Time passes only for sites without a build, and the prunes under way stop counting
\* the site as left alone.
LEMMA TimePassesKeepsInv ==
  ASSUME CacheInv, NEW x \in Sites, TimePasses(x)
  PROVE  CacheInv'
<1>1. /\ Shape /\ Exists(x) /\ History({x}, {}) /\ build' = build /\ task' = task
      /\ \A w \in Workers : ~Building(w, x)
  BY DEF CacheInv, TimePasses
<1>. DEFINE e == [dirs[x] EXCEPT !.old = TRUE]
<1>2. dirs[x] \in Directory /\ IsFiniteSet(dirs[x].files)
  BY <1>1 DEF Shape, DirsOK, Exists
<1>3. /\ e \in Directory /\ e.files = dirs[x].files /\ e.meta = dirs[x].meta
      /\ e.marker = dirs[x].marker
  BY <1>2 DEF Directory
<1>4. dirs' = [dirs EXCEPT ![x] = e]
  BY <1>1 DEF TimePasses, Shape, DirsOK
<1>. HIDE DEF e
<1>5. dirs'[x] = e /\ e # NoDir /\ \A s \in Sites \ {x} : dirs'[s] = dirs[s]
  BY <1>1, <1>3, <1>4, NamesAssumption DEF Shape, DirsOK
<1>6. \A s \in Sites : Exists(s)' <=> Exists(s)
  BY <1>1, <1>5 DEF Exists
<1>7. Shape'
  <2>1. DirsOK'
    BY <1>1, <1>2, <1>3, <1>4, <1>5 DEF Shape, DirsOK, Exists
  <2>2. disturbed' \subseteq Sites /\ quiet' \in [Workers -> SUBSET Sites]
    BY <1>1, HistoryFacts DEF Shape
  <2>3. \A w \in Workers : WorkerOK(w)'
    BY <1>1, <1>6 DEF Shape, WorkerOK
  <2>4. \A r \in Removers : TaskOK(r)'
    BY <1>1 DEF Shape, TaskOK
  <2>5. OneOnLoop'
    BY <1>1 DEF Shape, OneOnLoop, Looping
  <2>. QED  BY <1>1, <2>1, <2>2, <2>3, <2>4, <2>5 DEF Shape
<1>8. ASSUME NEW w \in Workers PROVE Fresh(w)'
  <2>. SUFFICES ASSUME Mounts(w)' PROVE ~dirs'[build[w].site].old
    BY <1>1 DEF Fresh
  <2>1. build[w].site \in Sites \ {x}
    BY <1>1 DEF Mounts, Building, Shape, WorkerOK
  <2>. QED  BY <1>1, <1>5, <1>6, <2>1 DEF CacheInv, Fresh, Mounts
<1>9. ASSUME NEW s \in Sites PROVE SiteOK(s)'
  <2>. SUFFICES ASSUME s \notin disturbed' PROVE SiteInv(s)'
    BY DEF SiteOK
  <2>1. /\ \A u, v \in Users(s)' : u = v
        /\ s \notin disturbed \/ Clean(s)'
    BY <1>1, HistoryFacts DEF Shape
  <2>2. CASE Clean(s)'
    BY <1>7, <2>1, <2>2, CleanSiteIsOK
  <2>3. CASE s \notin disturbed
    <3>1. SiteInv(s) /\ (Exists(s)' <=> Exists(s))
      BY <1>6, <2>3 DEF CacheInv, SiteOK
    <3>2. Exists(s) => /\ dirs'[s].meta = dirs[s].meta /\ dirs'[s].marker = dirs[s].marker
                       /\ dirs'[s].files = dirs[s].files
      BY <1>3, <1>5
    <3>3. EntriesOf(s)' = EntriesOf(s)
      BY <3>1, <3>2 DEF EntriesOf
    <3>4. Labelled(s)' /\ \A r \in Removers : RemoverAt(r, s)'
      BY <1>1, <3>1, <3>2, <3>3 DEF SiteInv, Labelled, RemoverAt, AllOf
    <3>5. \A w \in Workers : BuildAt(w, s)'
      BY <1>1, <3>1, <3>2 DEF SiteInv, BuildAt, AllOf
    <3>. QED  BY <2>1, <3>4, <3>5 DEF SiteInv
  <2>. QED  BY <2>1, <2>2, <2>3
<1>10. ASSUME NEW w \in Workers PROVE PruneOK(w)'
  <2>. SUFFICES ASSUME NEW s \in quiet'[w]
                PROVE  /\ build[w].stage = "pruning" /\ s # build[w].site
                       /\ Users(s)' \subseteq {w} /\ Progress(w, s)'
    BY <1>1 DEF PruneOK
  <2>1. /\ s \in Sites \ {x} /\ build[w].stage = "pruning" /\ s \in quiet[w]
        /\ Users(s)' \subseteq {w}
    BY <1>1, HistoryFacts DEF Shape
  <2>2. s # build[w].site /\ Progress(w, s)
    BY <2>1 DEF CacheInv, PruneOK
  <2>. QED  BY <1>1, <1>5, <2>1, <2>2 DEF Progress, Sizing, Due, Exists
<1>. QED  BY <1>7, <1>8, <1>9, <1>10 DEF CacheInv

\* A kill keeps the invariant: a removal that it broke off disturbs its site, and
\* containers keep the directory of their build.
LEMMA KillKeepsInv ==
  ASSUME CacheInv, NEW P, P = Service \/ P = {Cli}, Kill(P)
  PROVE  CacheInv'
<1>. DEFINE broken == {s \in Sites : \E r \in P : Removing(r, s)}
<1>1. Shape /\ dirs' = dirs /\ History({}, broken) /\ broken \subseteq Sites
  BY DEF CacheInv, Kill
<1>2. ASSUME NEW r \in Removers
      PROVE  task'[r] = IF r \in P THEN NoTask ELSE task[r]
  BY DEF Kill
<1>3. ASSUME NEW w \in Workers
      PROVE  /\ build'[w] = build[w] \/ (w \in P /\ build'[w] = NoBuild)
             /\ w \in P => build[w].stage = "building" \/ build'[w] = NoBuild
  BY DEF Kill
<1>4. Shape'
  <2>1. DirsOK'
    BY <1>1 DEF Shape, DirsOK, Exists
  <2>2. task' \in [Removers -> Task] /\ build' \in [Workers -> Build]
    BY <1>1, NothingTypes DEF Kill, Shape
  <2>3. ASSUME NEW r \in Removers PROVE TaskOK(r)'
    BY <1>1, <1>2, NamesAssumption DEF Shape, TaskOK, NoTask
  <2>4. ASSUME NEW w \in Workers PROVE WorkerOK(w)'
    <3>1. WorkerOK(w) /\ w \in Removers
      BY <1>1 DEF Shape, Removers
    <3>2. CASE build'[w] = NoBuild /\ w \in P
      BY <1>2, <3>1, <3>2, NamesAssumption DEF WorkerOK, NoBuild, OnLoop
    <3>3. CASE build'[w] = build[w] /\ (w \in P => build[w].stage = "building")
      <4>1. task'[w] = task[w]
        BY <1>2, <3>1, <3>3 DEF WorkerOK
      <4>. QED  BY <1>1, <3>1, <3>3, <4>1 DEF WorkerOK, Exists
    <3>. QED  BY <1>3, <3>2, <3>3
  <2>5. OneOnLoop'
    <3>1. Looping' \subseteq Looping
      BY <1>2, <1>3 DEF Looping, OnLoop, NoBuild, NoTask, Removers
    <3>. QED  BY <1>1, <3>1 DEF Shape, OneOnLoop
  <2>6. disturbed' \subseteq Sites /\ quiet' \in [Workers -> SUBSET Sites]
    <3>. HIDE DEF broken
    <3>. QED  BY <1>1, HistoryFacts DEF Shape
  <2>. QED  BY <2>1, <2>2, <2>3, <2>4, <2>5, <2>6 DEF Shape
<1>5. ASSUME NEW w \in Workers PROVE Fresh(w)'
  BY <1>1, <1>3 DEF CacheInv, Fresh, Mounts, Exists, NoBuild
<1>6. ASSUME NEW s \in Sites PROVE SiteOK(s)'
  <2>. SUFFICES ASSUME s \notin disturbed' PROVE SiteInv(s)'
    BY DEF SiteOK
  <2>1. /\ \A u, v \in Users(s)' : u = v
        /\ s \notin disturbed \cup broken \/ Clean(s)'
    <3>. HIDE DEF broken
    <3>. QED  BY <1>1, HistoryFacts DEF Shape
  <2>2. CASE Clean(s)'
    BY <1>4, <2>1, <2>2, CleanSiteIsOK
  <2>3. CASE s \notin disturbed \cup broken
    <3>1. SiteInv(s)
      BY <2>3 DEF CacheInv, SiteOK
    <3>2. ASSUME NEW r \in Removers
          PROVE  \/ task'[r] = task[r]
                 \/ ~(task[r].at = "removing" /\ task[r].site = s) /\ task'[r].at = "idle"
      BY <1>2, <2>3 DEF Removing, NoTask
    <3>3. Labelled(s)' /\ \A r \in Removers : RemoverAt(r, s)'
      BY <1>1, <3>1, <3>2 DEF SiteInv, Labelled, RemoverAt, AllOf, Exists, EntriesOf
    <3>4. \A w \in Workers : BuildAt(w, s)'
      BY <1>1, <1>3, <3>1 DEF SiteInv, BuildAt, AllOf, Exists, NoBuild
    <3>. QED  BY <2>1, <3>3, <3>4 DEF SiteInv
  <2>. QED  BY <2>1, <2>2, <2>3
<1>7. ASSUME NEW w \in Workers PROVE PruneOK(w)'
  <2>. SUFFICES ASSUME NEW s \in quiet'[w]
                PROVE  /\ build'[w].stage = "pruning" /\ s # build'[w].site
                       /\ Users(s)' \subseteq {w} /\ Progress(w, s)'
    BY DEF PruneOK
  <2>1. /\ s \in Sites /\ build'[w].stage = "pruning"
        /\ build[w].stage = "pruning" => s \in quiet[w] /\ Users(s)' \subseteq {w}
    <3>. HIDE DEF broken
    <3>. QED  BY <1>1, HistoryFacts DEF Shape
  <2>2. build'[w] = build[w] /\ w \notin P
    BY <1>3, <2>1 DEF NoBuild
  <2>3. s \in quiet[w] /\ Users(s)' \subseteq {w} /\ task'[w] = task[w]
    BY <1>2, <2>1, <2>2 DEF Removers
  <2>4. s # build[w].site /\ Progress(w, s)
    BY <2>3 DEF CacheInv, PruneOK
  <2>. QED  BY <1>1, <2>1, <2>2, <2>3, <2>4 DEF Progress, Sizing, Due, Exists
<1>. QED  BY <1>4, <1>5, <1>6, <1>7 DEF CacheInv

-----------------------------------------------------------------------------
(* The theorems.                                                           *)

\* An engine without caches satisfies the invariant.
LEMMA CacheInvInit == Init => CacheInv
<1>. SUFFICES ASSUME Init PROVE CacheInv
  OBVIOUS
<1>1. /\ \A s \in Sites : ~Exists(s)
      /\ \A w \in Workers : build[w] = NoBuild /\ task[w] = NoTask /\ quiet[w] = {}
      /\ \A r \in Removers : task[r] = NoTask
  BY DEF Init, Exists, Removers
<1>2. Shape
  <2>1. DirsOK /\ build \in [Workers -> Build] /\ task \in [Removers -> Task]
    BY <1>1, NothingTypes DEF Init, DirsOK
  <2>2. \A w \in Workers : WorkerOK(w)
    BY <1>1, NamesAssumption DEF WorkerOK, NoBuild, OnLoop
  <2>3. \A r \in Removers : TaskOK(r)
    BY <1>1, NamesAssumption DEF TaskOK, NoTask
  <2>4. OneOnLoop
    BY <1>1 DEF OneOnLoop, Looping, OnLoop, NoBuild, NoTask, Removers
  <2>. QED  BY <2>1, <2>2, <2>3, <2>4 DEF Init, Shape
<1>3. \A w \in Workers : Fresh(w) /\ PruneOK(w)
  BY <1>1 DEF Fresh, Mounts, PruneOK, NoBuild
<1>4. ASSUME NEW s \in Sites PROVE SiteOK(s)
  <2>1. Users(s) = {}
    BY <1>1 DEF Users, Removing, Building, NoBuild, NoTask
  <2>. QED  BY <1>1, <2>1 DEF SiteOK, SiteInv, Labelled, RemoverAt, BuildAt, NoTask, NoBuild
<1>. QED  BY <1>2, <1>3, <1>4 DEF CacheInv

\* A step that changes nothing keeps the invariant.
LEMMA CacheInvStutters == CacheInv /\ UNCHANGED vars => CacheInv'
<1>. SUFFICES ASSUME CacheInv, UNCHANGED vars PROVE CacheInv'
  OBVIOUS
<1>1. /\ dirs' = dirs /\ build' = build /\ task' = task
      /\ disturbed' = disturbed /\ quiet' = quiet
  BY DEF vars
<1>2. Shape'
  BY <1>1 DEF CacheInv, Shape, DirsOK, WorkerOK, TaskOK, OneOnLoop, Looping, Exists
<1>3. \A w \in Workers : Fresh(w)'
  BY <1>1 DEF CacheInv, Fresh, Mounts, Exists
<1>4. \A s \in Sites : Users(s)' = Users(s)
  BY <1>1 DEF Users, Removing, Building
<1>5. \A w \in Workers : PruneOK(w)'
  <2>1. \A w \in Workers : quiet[w] \subseteq Sites /\ PruneOK(w)
    BY DEF CacheInv, Shape
  <2>2. \A w \in Workers, s \in Sites : Progress(w, s)' <=> Progress(w, s)
    BY <1>1 DEF Progress, Sizing, Due, Exists
  <2>. QED  BY <1>1, <1>4, <2>1, <2>2 DEF PruneOK
<1>6. \A s \in Sites : SiteOK(s)'
  BY <1>1, <1>4
  DEF CacheInv, SiteOK, SiteInv, Labelled, RemoverAt, BuildAt, AllOf, EntriesOf, Exists
<1>. QED  BY <1>2, <1>3, <1>5, <1>6 DEF CacheInv

\* Every step keeps the invariant.
LEMMA CacheInvNext == CacheInv /\ [Next]_vars => CacheInv'
<1>. SUFFICES ASSUME CacheInv, [Next]_vars PROVE CacheInv'
  OBVIOUS
<1>1. ASSUME NEW w \in Workers, Worker(w) PROVE CacheInv'
  <2>1. w \in Removers
    BY DEF Removers
  <2>2. CASE Prune(w)
    BY <2>1, <2>2, StartPruneAlone, JudgeAgeAlone, StartSizesAlone, JudgeSizeAlone, TrimAlone,
       TrimEndsAlone, EndPruneAlone, AloneKeepsInv DEF Prune
  <2>3. CASE \E s \in Sites : PrepareDisabled(w, s)
    BY <2>1, <2>3, PrepareDisabledAlone, AloneKeepsInv
  <2>4. CASE \E s \in Sites, l \in Lockfiles : Prepare(w, s, l) \/ PrepareRaises(w, s, l)
    BY <2>1, <2>4, PrepareAlone, PrepareRaisesAlone, AloneKeepsInv
  <2>5. CASE TruncateMetadata(w) \/ WriteMetadata(w)
    BY <2>1, <2>5, TruncateMetadataAlone, WriteMetadataAlone, AloneKeepsInv
  <2>6. CASE StartContainer(w) \/ WriteFile(w) \/ EndBuild(w)
    BY <2>1, <2>6, StartContainerAlone, WriteFileAlone, EndBuildAlone, AloneKeepsInv
  <2>. QED  BY <1>1, <2>2, <2>3, <2>4, <2>5, <2>6 DEF Worker
<1>2. ASSUME NEW r \in Removers, Remove(r) PROVE CacheInv'
  BY <1>2, OpenGoneAlone, OpenAlone, UnlinkAlone, RmdirFailsAlone, RmdirKeepsInv, AloneKeepsInv
  DEF Remove
<1>3. ASSUME NEW r \in {Handler, Cli}, StartReset(r) \/ ResetNext(r) PROVE CacheInv'
  <2>1. r \in Removers
    BY DEF Removers
  <2>. QED  BY <1>3, <2>1, StartResetAlone, ResetNextAlone, AloneKeepsInv
<1>4. ASSUME NEW s \in Sites, TimePasses(s) PROVE CacheInv'
  BY <1>4, TimePassesKeepsInv
<1>5. CASE Kill(Service) \/ Kill({Cli})
  BY <1>5, KillKeepsInv
<1>6. CASE UNCHANGED vars
  BY <1>6, CacheInvStutters
<1>. QED  BY <1>1, <1>2, <1>3, <1>4, <1>5, <1>6 DEF Next

\* The invariant holds in every state of every behaviour of the caches.
THEOREM CacheInvariant == Spec => []CacheInv
  BY CacheInvInit, CacheInvNext, PTL DEF Spec

\* The types, that only one preparation or reset is on the event loop, and that who
\* removes a directory knows which, whatever is pruned, reset and killed meanwhile
\* (prepare_site_cache, prune_cache, reset_cache).
THEOREM CacheTypesHold == Spec => []CacheTypeOK
<1>1. CacheInv => CacheTypeOK
  <2>. SUFFICES ASSUME CacheInv PROVE CacheTypeOK
    OBVIOUS
  <2>1. Shape
    BY DEF CacheInv
  <2>2. ASSUME NEW s \in Sites
        PROVE  dirs[s] = NoDir \/
                 /\ dirs[s].meta \in Lockfiles \cup {Absent, Torn}
                 /\ dirs[s].files \subseteq File
                 /\ dirs[s].marker \in BOOLEAN /\ dirs[s].old \in BOOLEAN
    BY <2>1 DEF Shape, DirsOK, Directory
  <2>3. ASSUME NEW w \in Workers
        PROVE  /\ build[w].stage \in {"idle", "wiping", "wiped", "writing", "prepared", "pruning",
                                       "ready", "building"}
               /\ build[w].stage = "wiping" <=> task[w].why = "wipe"
               /\ quiet[w] \subseteq Sites
    <3>1. build[w] \in Build /\ WorkerOK(w) /\ TaskOK(w) /\ quiet[w] \subseteq Sites
      BY <2>1, WorkerFacts DEF Shape
    <3>2. build[w].stage \in {"idle", "wiping", "wiped", "writing", "prepared", "pruning",
                              "ready", "building"}
      BY <3>1 DEF Build, Stage, OnLoop, Ahead
    <3>3. build[w].stage = "wiping" <=> task[w].why = "wipe"
      BY <3>1 DEF WorkerOK, TaskOK, NoTask
    <3>. QED  BY <3>1, <3>2, <3>3
  <2>4. ASSUME NEW r \in Removers
        PROVE  /\ task[r].at \in {"idle", "age", "size", "trim", "all", "judged", "removing"}
               /\ task[r].at \in {"trim", "judged", "removing"} <=> task[r].site \in Sites
               /\ task[r].todo \subseteq Entry
    <3>1. task[r] \in Task /\ TaskOK(r)
      BY <2>1 DEF Shape
    <3>. QED  BY <3>1 DEF Task, At, TaskOK
  <2>5. Cardinality({w \in Workers : build[w].stage \in {"wiping", "wiped", "writing"}}
                      \cup {r \in {Handler} : task[r].at # "idle"}) <= 1
    <3>1. Looping = {} \/ \E x \in Looping : Looping = {x}
      BY <2>1 DEF Shape, OneOnLoop
    <3>2. Cardinality(Looping) <= 1
      BY <3>1, FS_EmptySet, FS_Singleton
    <3>. QED  BY <3>2 DEF Looping, OnLoop
  <2>. QED  BY <2>2, <2>3, <2>4, <2>5 DEF CacheTypeOK
<1>. QED  BY <1>1, CacheInvariant, PTL

\* What a build finds in its cache was put there by builds with its lockfile, and not
\* before the cache was last disabled, for any number of sites, workers and lockfiles,
\* as long as the operations on the site followed one another (prepare_site_cache).
THEOREM CachesMatchTheirLockfiles == Spec => []ContentsMatchLockfile
<1>1. CacheInv => ContentsMatchLockfile
  <2>. SUFFICES ASSUME CacheInv, NEW w \in Workers, Mounts(w), build[w].site \notin disturbed
                PROVE  \A f \in dirs[build[w].site].files : f.of = build[w].lock
    BY DEF ContentsMatchLockfile
  <2>1. build[w].site \in Sites
    BY WorkerFacts DEF WorkerOK, Mounts
  <2>2. BuildAt(w, build[w].site)
    BY <2>1 DEF CacheInv, SiteOK, SiteInv
  <2>. QED  BY <2>2 DEF BuildAt, Mounts, AllOf, Ahead
<1>. QED  BY <1>1, CacheInvariant, PTL

\* A worker's stage goes from pruning to ready at the end of its prune only, when it
\* has dealt with the sites of both passes.
LEMMA PruneEndsOnce ==
  ASSUME CacheInv, [Next]_vars, NEW w \in Workers,
         build[w].stage = "pruning", build'[w].stage = "ready"
  PROVE  EndPrune(w)
<1>0. Shape /\ build \in [Workers -> Build] /\ build[w] \in Build
  BY DEF CacheInv, Shape
<1>1. ASSUME NEW v \in Workers, Worker(v), ~EndPrune(v) PROVE FALSE
  <2>1. CASE Prune(v)
    <3>1. CASE StartPrune(v)
      BY <1>0, <3>1 DEF StartPrune
    <3>2. CASE JudgeAge(v)
      <4>1. build' = build \/ build' = [build EXCEPT ![v] = NoBuild]
        BY <1>1, <3>2 DEF JudgeAge, Fails
      <4>2. NoBuild.stage = "idle"
        BY DEF NoBuild
      <4>. QED  BY <1>0, <4>1, <4>2
    <3>3. CASE StartSizes(v) \/ JudgeSize(v) \/ Trim(v) \/ TrimEnds(v)
      <4>1. build' = build
        BY <3>3 DEF StartSizes, JudgeSize, Trim, TrimEnds
      <4>. QED  BY <1>0, <4>1
    <3>. QED  BY <1>1, <2>1, <3>1, <3>2, <3>3 DEF Prune
  <2>2. CASE \E s \in Sites : PrepareDisabled(v, s)
    BY <1>0, <2>2 DEF PrepareDisabled, NoBuild
  <2>3. CASE \E s \in Sites, l \in Lockfiles : Prepare(v, s, l) \/ PrepareRaises(v, s, l)
    BY <1>0, <2>3 DEF Prepare, PrepareRaises
  <2>4. CASE TruncateMetadata(v) \/ WriteMetadata(v) \/ StartContainer(v)
    BY <1>0, <2>4 DEF TruncateMetadata, WriteMetadata, StartContainer
  <2>5. CASE WriteFile(v) \/ EndBuild(v)
    BY <1>0, <2>5 DEF WriteFile, EndBuild, NoBuild
  <2>. QED  BY <1>1, <2>1, <2>2, <2>3, <2>4, <2>5 DEF Worker
<1>2. ASSUME NEW v \in Workers, EndPrune(v), v # w PROVE FALSE
  BY <1>0, <1>2 DEF EndPrune
<1>3. ASSUME NEW r \in Removers, Remove(r) PROVE FALSE
  <2>1. CASE OpenGone(r) \/ Open(r) \/ Unlink(r) \/ RmdirFails(r)
    <3>1. \/ build' = build \/ build' = [build EXCEPT ![r] = NoBuild]
          \/ build' = [build EXCEPT ![r].stage = "wiped"]
      <4>1. CASE OpenGone(r)
        BY <4>1 DEF OpenGone, Fails
      <4>2. CASE Open(r) \/ Unlink(r)
        BY <4>2 DEF Open, Unlink
      <4>3. CASE RmdirFails(r)
        BY <4>3 DEF RmdirFails, Fails
      <4>. QED  BY <2>1, <4>1, <4>2, <4>3
    <3>2. NoBuild.stage = "idle"
      BY DEF NoBuild
    <3>. QED  BY <1>0, <3>1, <3>2 DEF Build
  <2>2. CASE Rmdir(r)
    BY <1>0, <2>2 DEF Rmdir
  <2>. QED  BY <1>3, <2>1, <2>2 DEF Remove
<1>4. ASSUME NEW r \in {Handler, Cli}, StartReset(r) \/ ResetNext(r) PROVE FALSE
  BY <1>4 DEF StartReset, ResetNext
<1>5. ASSUME NEW s \in Sites, TimePasses(s) PROVE FALSE
  BY <1>5 DEF TimePasses
<1>6. CASE Kill(Service) \/ Kill({Cli})
  BY <1>6 DEF Kill, NoBuild
<1>7. CASE UNCHANGED vars
  BY <1>7 DEF vars
<1>. QED  BY <1>1, <1>2, <1>3, <1>4, <1>5, <1>6, <1>7 DEF Next

\* A prune leaves every site that it had to itself within its limit and not expired,
\* or removed, for any number of sites and workers that prune and trim at a time
\* (prune_cache).
THEOREM PrunesEnforceLimits == Spec => PruneEnforcesLimits
<1>1. ASSUME CacheInv, [Next]_vars, NEW w \in Workers,
             build[w].stage = "pruning", build'[w].stage = "ready", NEW s \in quiet[w], Exists(s)
      PROVE  Cardinality(dirs[s].files) <= SiteMax /\ ~dirs[s].old
  <2>1. task[w].at = "size" /\ task[w].left = {}
    BY <1>1, PruneEndsOnce DEF EndPrune
  <2>2. s \in Sites /\ Progress(w, s) /\ TaskOK(w)
    BY <1>1, WorkerFacts DEF CacheInv, PruneOK, Shape
  <2>. QED  BY <1>1, <2>1, <2>2 DEF Progress, Sizing, Due, TaskOK
<1>2. CacheInv /\ [Next]_vars =>
        [\A w \in Workers : (build[w].stage = "pruning" /\ build'[w].stage = "ready") =>
           \A s \in quiet[w] :
             Exists(s) => Cardinality(dirs[s].files) <= SiteMax /\ ~dirs[s].old]_vars
  BY <1>1
<1>. QED  BY <1>2, CacheInvariant, PTL DEF Spec, PruneEnforcesLimits

\* No prune condemns a site before the age of its directory was looked at.
LEMMA CondemnedIsExpired ==
  ASSUME CacheInv, [Next]_vars, NEW w \in Workers, task[w].at = "age", task'[w].at = "judged"
  PROVE  task'[w].site \in Sites /\ dirs[task'[w].site].old
<1>0. task \in [Removers -> Task] /\ w \in Removers /\ task[w] \in Task /\ w \notin {Handler, Cli}
  BY SiteCacheAssumption DEF CacheInv, Shape, Removers
<1>1. ASSUME NEW v \in Workers, Worker(v)
      PROVE  JudgeAge(w)
  <2>1. CASE Prune(v)
    <3>1. CASE JudgeAge(v)
      BY <1>0, <3>1 DEF JudgeAge, Fails
    <3>2. CASE StartPrune(v) \/ StartSizes(v) \/ EndPrune(v)
      BY <1>0, <3>2 DEF StartPrune, StartSizes, EndPrune, NoTask
    <3>3. CASE JudgeSize(v) \/ Trim(v) \/ TrimEnds(v)
      BY <1>0, <3>3 DEF JudgeSize, Trim, TrimEnds
    <3>. QED  BY <2>1, <3>1, <3>2, <3>3 DEF Prune
  <2>2. CASE \E s \in Sites : PrepareDisabled(v, s)
    BY <2>2 DEF PrepareDisabled
  <2>3. CASE \E s \in Sites, l \in Lockfiles : Prepare(v, s, l) \/ PrepareRaises(v, s, l)
    <3>1. v # w
      BY <2>3, WorkerFacts DEF Prepare, PrepareRaises, WorkerOK, NoTask
    <3>. QED  BY <1>0, <2>3, <3>1 DEF Prepare, PrepareRaises
  <2>4. CASE TruncateMetadata(v) \/ WriteMetadata(v) \/ StartContainer(v) \/ WriteFile(v) \/ EndBuild(v)
    BY <2>4 DEF TruncateMetadata, WriteMetadata, StartContainer, WriteFile, EndBuild
  <2>. QED  BY <1>1, <2>1, <2>2, <2>3, <2>4 DEF Worker
<1>2. ASSUME NEW r \in Removers, Remove(r) PROVE FALSE
  <2>1. CASE OpenGone(r) \/ RmdirFails(r)
    BY <1>0, <2>1 DEF OpenGone, RmdirFails, Fails, NoTask
  <2>2. CASE Open(r) \/ Unlink(r)
    BY <1>0, <2>2 DEF Open, Unlink
  <2>3. CASE Rmdir(r)
    BY <1>0, <2>3 DEF Rmdir
  <2>. QED  BY <1>2, <2>1, <2>2, <2>3 DEF Remove
<1>3. ASSUME NEW r \in {Handler, Cli}, StartReset(r) \/ ResetNext(r) PROVE FALSE
  BY <1>0, <1>3 DEF StartReset, ResetNext
<1>4. ASSUME NEW s \in Sites, TimePasses(s) PROVE FALSE
  BY <1>4 DEF TimePasses
<1>5. ASSUME Kill(Service) \/ Kill({Cli}) PROVE FALSE
  BY <1>0, <1>5 DEF Kill, NoTask
<1>6. ASSUME UNCHANGED vars PROVE FALSE
  BY <1>6 DEF vars
<1>7. JudgeAge(w)
  <2>1. CASE \E v \in Workers : Worker(v)
    BY <1>1, <2>1
  <2>2. CASE \E r \in Removers : Remove(r)
    BY <1>2, <2>2
  <2>3. CASE \E r \in {Handler, Cli} : StartReset(r) \/ ResetNext(r)
    BY <1>3, <2>3
  <2>4. CASE \E s \in Sites : TimePasses(s)
    BY <1>4, <2>4
  <2>. QED  BY <2>1, <2>2, <2>3, <2>4, <1>5, <1>6 DEF Next
<1>8. PICK x \in task[w].left :
        /\ Expired(x) /\ task'[w] = StartRemoval(x, "age", task[w].left \ {x})
  <2>1. PICK x \in task[w].left :
          \/ task' = [task EXCEPT ![w] = NoTask]
          \/ Expired(x) /\ task' = [task EXCEPT ![w] = StartRemoval(x, "age", task[w].left \ {x})]
          \/ task' = [task EXCEPT ![w].left = task[w].left \ {x}]
    BY <1>7 DEF JudgeAge, Fails
  <2>2. task' # [task EXCEPT ![w] = NoTask]
    BY <1>0 DEF NoTask
  <2>3. task' # [task EXCEPT ![w].left = task[w].left \ {x}]
    BY <1>0 DEF Task
  <2>. QED  BY <1>0, <2>1, <2>2, <2>3
<1>9. x \in Sites /\ task'[w].site = x
  BY <1>0, <1>8, RemovalType DEF Task
<1>. QED  BY <1>8, <1>9 DEF Expired

\* No prune condemns, as expired, the cache that a build under way mounts, for any
\* number of workers (_write_metadata and touch_site_cache).
THEOREM PrunesSpareBuilds == Spec => PruneSparesBuilds
<1>1. ASSUME CacheInv, [Next]_vars, NEW w \in Workers, NEW v \in Workers,
             task[w].at = "age", task'[w].at = "judged"
      PROVE  ~(Mounts(v) /\ build[v].site = task'[w].site)
  <2>1. task'[w].site \in Sites /\ dirs[task'[w].site].old
    BY <1>1, CondemnedIsExpired
  <2>2. Fresh(v)
    BY <1>1 DEF CacheInv
  <2>. QED  BY <2>1, <2>2 DEF Fresh
<1>2. CacheInv /\ [Next]_vars =>
        [\A w, v \in Workers :
           (task[w].at = "age" /\ task'[w].at = "judged") =>
             ~(Mounts(v) /\ build[v].site = task'[w].site)]_vars
  BY <1>1
<1>. QED  BY <1>2, CacheInvariant, PTL DEF Spec, PruneSparesBuilds

=============================================================================
