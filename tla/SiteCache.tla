------------------------------ MODULE SiteCache ------------------------------
(***************************************************************************)
(* The per-site build caches of executor/cache.py and everyone who touches *)
(* them: the workers, which prepare the cache of their build's site on the *)
(* event loop, prune the other sites in a thread and then mount the        *)
(* directory into a container that writes to it; the command cache.reset,  *)
(* handled on the event loop; and "build-engine cache reset", a process of *)
(* its own.                                                                *)
(*                                                                         *)
(* _site_cache_lock is taken by code of the event loop's thread only: what *)
(* it holds apart is apart already.  Pruning takes no lock, and another    *)
(* process has locks of its own.                                           *)
(*                                                                         *)
(* shutil.rmtree is not atomic: it lists the directory, unlinks the        *)
(* entries through the descriptor it opened, and removes the path, which   *)
(* fails when somebody has added an entry or removed the path first.       *)
(* Sizes count the files of a build; the metadata weighs nothing.          *)
(***************************************************************************)
EXTENDS Naturals, FiniteSets, FiniteSetsExt

CONSTANTS
  Sites, Workers,
  Lockfiles,    \* lockfile snapshots; a project without a lockfile has one too
  Handler, Cli, \* the removers that are not workers
  Metadata, Marker, \* the entries that are not the build's
  NoDir,        \* the directory of a site that has none
  SiteMax,      \* cache_site_max_bytes
  MaxFiles,     \* files a directory holds at most
  MaxBuilds, MaxFaults, MaxAges, \* bounds on each
  MaxEvents     \* and on all of them together

Absent == "absent"  \* no metadata file
Torn == "torn"      \* a metadata file that is not JSON
Stale == "stale"    \* the lockfile of a file from before the cache was disabled
NoSite == "nowhere"
NoLock == "unlocked"

File == [of : Lockfiles \cup {Stale}, n : 1 .. MaxFiles]
Directory == [meta : Lockfiles \cup {Absent, Torn}, marker : BOOLEAN,
              files : SUBSET File, old : BOOLEAN]

ASSUME SiteCacheAssumption ==
  /\ {SiteMax, MaxFiles, MaxBuilds, MaxFaults, MaxAges, MaxEvents} \subseteq Nat
  /\ Handler # Cli /\ {Handler, Cli} \cap Workers = {}
  /\ IsFiniteSet(Workers)

\* The names of things that are not there, and of entries that are not files.
ASSUME NamesAssumption ==
  /\ NoDir \notin Directory
  /\ NoSite \notin Sites
  /\ {Absent, Torn, Stale} \cap Lockfiles = {}
  /\ Metadata # Marker /\ {Metadata, Marker} \cap File = {}

VARIABLES
  dirs,       \* the directory of each site, or NoDir
  build,      \* the build each worker is at
  task,       \* the prune, wipe or reset each remover is at
  disturbed,  \* history: sites with overlapping or broken off operations
  quiet,      \* history: sites left alone since a worker's prune began
  spent       \* builds, faults (resets and kills) and ages used of the bounds

vars == <<dirs, build, task, disturbed, quiet, spent>>

Removers == Workers \cup {Handler, Cli}
Entry == File \cup {Metadata, Marker}
EmptyDir == [meta |-> Absent, marker |-> FALSE, files |-> {}, old |-> FALSE]
NoBuild == [stage |-> "idle", site |-> NoSite, lock |-> NoLock, mounted |-> FALSE]
NoTask == [at |-> "idle", why |-> "none", left |-> {}, site |-> NoSite,
           todo |-> {}, here |-> FALSE]

Init ==
  /\ dirs = [s \in Sites |-> NoDir]
  /\ build = [w \in Workers |-> NoBuild]
  /\ task = [r \in Removers |-> NoTask]
  /\ disturbed = {}
  /\ quiet = [w \in Workers |-> {}]
  /\ spent = [builds |-> 0, faults |-> 0, ages |-> 0]

-----------------------------------------------------------------------------
(* Who is at a site: its builds, and those who are removing its directory. *)

Exists(s) == dirs[s] # NoDir
Present == {s \in Sites : Exists(s)}
EntriesOf(s) ==
  IF ~Exists(s) THEN {}
  ELSE dirs[s].files \cup {e \in {Metadata} : dirs[s].meta # Absent}
                     \cup {e \in {Marker} : dirs[s].marker}

Removing(r, s) == task[r].at \in {"judged", "removing"} /\ task[r].site = s
Building(w, s) == build[w].stage # "idle" /\ build[w].site = s
Users(s) == {r \in Removers : Removing(r, s)} \cup {w \in Workers : Building(w, s)}

\* Variant: the event loop hands them to threads.
LoopFree_Threads == TRUE

\* The event loop runs one of these at a time to its end.
LoopFree ==
  /\ \A w \in Workers : build[w].stage \notin {"wiping", "wiped", "writing"}
  /\ task[Handler].at = "idle"

\* A site nobody is at, but for a build that is about to make its directory.
Clean(s) ==
  ~Exists(s) /\ \A u \in Users(s) : u \in Workers /\ build[u].stage = "wiped"

\* What a step leaves behind in the history: aged are the sites that time
\* passed for, broken the ones whose removal was killed.
History(aged, broken) ==
  /\ disturbed' = {s \in disturbed \cup broken : ~Clean(s)'}
                    \cup {s \in Sites : Cardinality(Users(s)') > 1}
  /\ quiet' = [w \in Workers |-> {s \in Sites :
       /\ build'[w].stage = "pruning"
       /\ IF build[w].stage = "pruning" THEN s \in quiet[w] \ aged /\ Users(s)' \subseteq {w}
          ELSE s # build[w].site /\ Users(s) = {}}]

Spend(what, bound) ==
  /\ spent[what] < bound
  /\ spent.builds + spent.faults + spent.ages < MaxEvents
  /\ spent' = [spent EXCEPT ![what] = @ + 1]

-----------------------------------------------------------------------------
(* prepare_site_cache, on the event loop.                                  *)

\* The cache is disabled for this build: its site is marked and not mounted.
\* The marker is a new entry, which refreshes the directory's own time.
PrepareDisabled(w, s) ==
  LET d == IF Exists(s) THEN dirs[s] ELSE EmptyDir
  IN /\ LoopFree /\ build[w].stage = "idle"
     /\ Spend("builds", MaxBuilds)
     /\ dirs' = [dirs EXCEPT ![s] =
          [d EXCEPT !.marker = TRUE,
                    !.files = {[f EXCEPT !.of = Stale] : f \in d.files},
                    !.old = d.old /\ (d.meta # Absent \/ d.marker)]]
     /\ build' = [build EXCEPT ![w] = [NoBuild EXCEPT !.stage = "prepared", !.site = s]]
     /\ UNCHANGED task
     /\ History({}, {})

\* Variant: the marker of a disabled cache is forgotten.
MustWipe_IgnoresMarker(s, l) == Exists(s) /\ dirs[s].meta \notin {Absent, Torn, l}

MustWipe(s, l) ==
  Exists(s) /\ (dirs[s].marker \/ dirs[s].meta \notin {Absent, Torn, l})

\* Metadata that cannot be read raises CacheError; a marker is looked at first.
PrepareRaises(w, s, l) ==
  /\ LoopFree /\ build[w].stage = "idle"
  /\ Exists(s) /\ dirs[s].meta = Torn /\ ~dirs[s].marker
  /\ Spend("builds", MaxBuilds)
  /\ UNCHANGED <<dirs, build, task>>
  /\ History({}, {})

StartRemoval(s, why, left) ==
  [NoTask EXCEPT !.at = "judged", !.why = why, !.left = left, !.site = s]

\* With the cache enabled: a cache that must go is removed first.
Prepare(w, s, l) ==
  /\ LoopFree /\ build[w].stage = "idle"
  /\ Exists(s) => dirs[s].marker \/ dirs[s].meta # Torn
  /\ Spend("builds", MaxBuilds)
  /\ build' = [build EXCEPT ![w] =
       [stage |-> IF MustWipe(s, l) THEN "wiping" ELSE "wiped",
        site |-> s, lock |-> l, mounted |-> TRUE]]
  /\ task' = IF MustWipe(s, l) THEN [task EXCEPT ![w] = StartRemoval(s, "wipe", {})] ELSE task
  /\ UNCHANGED dirs
  /\ History({}, {})

\* SiteCache.mounts makes the directory; _write_metadata opens, and so empties,
\* the metadata file.
TruncateMetadata(w) ==
  LET s == build[w].site
      d == IF Exists(s) THEN dirs[s] ELSE EmptyDir
  IN /\ build[w].stage = "wiped"
     /\ build' = [build EXCEPT ![w].stage = "writing"]
     /\ dirs' = [dirs EXCEPT ![s] = [d EXCEPT !.meta = Torn]]
     /\ UNCHANGED <<task, spent>>
     /\ History({}, {})

\* Variant: a directory that is used again keeps its old time.
WriteMetadata_Untouched(w) ==
  LET s == build[w].site
  IN /\ build[w].stage = "writing"
     /\ dirs' = [dirs EXCEPT ![s] =
          IF ~Exists(s) THEN EmptyDir
          ELSE IF @.meta = Torn THEN [@ EXCEPT !.meta = build[w].lock]
          ELSE @]
     /\ build' = [build EXCEPT ![w].stage = "prepared"]
     /\ UNCHANGED <<task, spent>>
     /\ History({}, {})

\* The rest of _write_metadata and touch_site_cache.  What a prune has unlinked
\* meanwhile stays away; the directory is made again.
WriteMetadata(w) ==
  LET s == build[w].site
  IN /\ build[w].stage = "writing"
     /\ dirs' = [dirs EXCEPT ![s] =
          IF ~Exists(s) THEN EmptyDir
          ELSE IF @.meta = Torn THEN [@ EXCEPT !.meta = build[w].lock, !.old = FALSE]
          ELSE [@ EXCEPT !.old = FALSE]]
     /\ build' = [build EXCEPT ![w].stage = "prepared"]
     /\ UNCHANGED <<task, spent>>
     /\ History({}, {})

-----------------------------------------------------------------------------
(* The container of the build (docker_run_args, then the mount).           *)

\* docker_run_args makes a missing directory, without metadata.
StartContainer(w) ==
  LET s == build[w].site
  IN /\ LoopFree /\ build[w].stage = "ready"
     /\ build' = [build EXCEPT ![w].stage = "building"]
     /\ dirs' = [dirs EXCEPT ![s] = IF build[w].mounted /\ ~Exists(s) THEN EmptyDir ELSE @]
     /\ UNCHANGED <<task, spent>>
     /\ History({}, {})

\* The package manager fills its cache; a new entry refreshes the directory.
WriteFile(w) ==
  LET s == build[w].site
      free == {n \in 1 .. MaxFiles : \A f \in dirs[s].files : f.n # n}
  IN /\ build[w].stage = "building" /\ build[w].mounted /\ free # {}
     /\ dirs' = [dirs EXCEPT ![s].files = @ \cup {[of |-> build[w].lock, n |-> Min(free)]},
                             ![s].old = @ /\ dirs[s].meta # Absent]
     /\ UNCHANGED <<build, task, spent>>
     /\ History({}, {})

EndBuild(w) ==
  /\ build[w].stage = "building"
  /\ build' = [build EXCEPT ![w] = NoBuild]
  /\ UNCHANGED <<dirs, task, spent>>
  /\ History({}, {})

-----------------------------------------------------------------------------
(* prune_cache, in a thread of the worker: first the expired sites, then   *)
(* the sites over their limit.  An exception fails the build.              *)

Fails(r) ==
  /\ task' = [task EXCEPT ![r] = NoTask]
  /\ build' = IF r \in Workers THEN [build EXCEPT ![r] = NoBuild] ELSE build

StartPrune(w) ==
  /\ build[w].stage = "prepared"
  /\ build' = [build EXCEPT ![w].stage = "pruning"]
  /\ task' = [task EXCEPT ![w] =
       [NoTask EXCEPT !.at = "age", !.left = Present \ {build[w].site}]]
  /\ UNCHANGED <<dirs, spent>>
  /\ History({}, {})

\* _last_access is older than cache_ttl_days.
Expired(s) == dirs[s].old

\* A directory that is gone since it was listed has no time to look at.
JudgeAge(w) ==
  /\ task[w].at = "age"
  /\ \E s \in task[w].left :
       LET left == task[w].left \ {s}
       IN \/ ~Exists(s) /\ Fails(w)
          \/ /\ Exists(s) /\ Expired(s)
             /\ task' = [task EXCEPT ![w] = StartRemoval(s, "age", left)]
             /\ UNCHANGED build
          \/ /\ Exists(s) /\ ~Expired(s)
             /\ task' = [task EXCEPT ![w].left = left]
             /\ UNCHANGED build
  /\ UNCHANGED <<dirs, spent>>
  /\ History({}, {})

\* The sites are listed again.
StartSizes(w) ==
  /\ task[w].at = "age" /\ task[w].left = {}
  /\ task' = [task EXCEPT ![w] =
       [NoTask EXCEPT !.at = "size", !.left = Present \ {build[w].site}]]
  /\ UNCHANGED <<dirs, build, spent>>
  /\ History({}, {})

\* Variant: off by one at the limit.
OverLimit_OffByOne(s) == Exists(s) /\ Cardinality(dirs[s].files) > SiteMax + 1

OverLimit(s) == Exists(s) /\ Cardinality(dirs[s].files) > SiteMax

\* directory_size_bytes is 0 for a directory that is gone.
JudgeSize(w) ==
  /\ task[w].at = "size"
  /\ \E s \in task[w].left :
       LET left == task[w].left \ {s}
       IN task' = [task EXCEPT ![w] =
            IF OverLimit(s)
            THEN [@ EXCEPT !.at = "trim", !.left = left, !.site = s, !.todo = dirs[s].files]
            ELSE [@ EXCEPT !.left = left]]
  /\ UNCHANGED <<dirs, build, spent>>
  /\ History({}, {})

\* _prune_children_lru unlinks what it listed, in any order of access times.
Trim(w) ==
  LET s == task[w].site
  IN /\ task[w].at = "trim" /\ OverLimit(s)
     /\ \E f \in task[w].todo :
          /\ dirs' = [dirs EXCEPT ![s].files = @ \ {f}, ![s].old = @ /\ dirs[s].meta # Absent]
          /\ task' = [task EXCEPT ![w].todo = @ \ {f}]
     /\ UNCHANGED <<build, spent>>
     /\ History({}, {})

\* A site that grew meanwhile, and is still over its limit, is removed.
TrimEnds(w) ==
  LET s == task[w].site
  IN /\ task[w].at = "trim" /\ (~OverLimit(s) \/ task[w].todo = {})
     /\ task' = [task EXCEPT ![w] =
          IF OverLimit(s) THEN StartRemoval(s, "size", @.left)
          ELSE [NoTask EXCEPT !.at = "size", !.left = task[w].left]]
     /\ UNCHANGED <<dirs, build, spent>>
     /\ History({}, {})

EndPrune(w) ==
  /\ task[w].at = "size" /\ task[w].left = {}
  /\ task' = [task EXCEPT ![w] = NoTask]
  /\ build' = [build EXCEPT ![w].stage = "ready"]
  /\ UNCHANGED <<dirs, spent>>
  /\ History({}, {})

-----------------------------------------------------------------------------
(* Removing one directory: _reset_cache_unlocked and _remove_site_root.    *)

\* Where a remover goes on after a removal; why is the loop it came from.
Resumed(t) ==
  IF t.why \in {"age", "size", "all"} THEN [NoTask EXCEPT !.at = t.why, !.left = t.left]
  ELSE NoTask

Wiped(r) == r \in Workers /\ task[r].why = "wipe"

\* The directory is gone before it is opened.  A prune raises; a reset of
\* everything goes on; a wipe raises or, if it had not looked yet, has nothing to do.
OpenGone(r) ==
  /\ task[r].at = "judged" /\ ~Exists(task[r].site)
  /\ \/ task[r].why \in {"age", "size", "one", "wipe"} /\ Fails(r)
     \/ /\ task[r].why \in {"all", "wipe"}
        /\ task' = [task EXCEPT ![r] = Resumed(@)]
        /\ build' = IF Wiped(r) THEN [build EXCEPT ![r].stage = "wiped"] ELSE build
  /\ UNCHANGED <<dirs, spent>>
  /\ History({}, {})

Open(r) ==
  /\ task[r].at = "judged" /\ Exists(task[r].site)
  /\ task' = [task EXCEPT ![r].at = "removing", ![r].todo = EntriesOf(task[r].site),
                          ![r].here = TRUE]
  /\ UNCHANGED <<dirs, build, spent>>
  /\ History({}, {})

Without(d, e) ==
  CASE e = Metadata -> [d EXCEPT !.meta = Absent, !.old = FALSE]
    [] e = Marker -> [d EXCEPT !.marker = FALSE, !.old = @ /\ d.meta # Absent]
    [] OTHER -> [d EXCEPT !.files = @ \ {e}, !.old = @ /\ d.meta # Absent]

\* Through the descriptor: a directory made anew at the path is not touched.
\* The files of the directory itself come first, then those of subdirectories,
\* where the package managers keep theirs.
Unlink(r) ==
  /\ task[r].at = "removing"
  /\ \E e \in task[r].todo :
       /\ e \in {Metadata, Marker} \/ task[r].todo \cap {Metadata, Marker} = {}
       /\ task' = [task EXCEPT ![r].todo = @ \ {e}]
       /\ dirs' = IF task[r].here /\ e \in EntriesOf(task[r].site)
                  THEN [dirs EXCEPT ![task[r].site] = Without(@, e)] ELSE dirs
  /\ UNCHANGED <<build, spent>>
  /\ History({}, {})

\* By path: whatever directory is there must be empty.  A container keeps the
\* removed directory as its mount, where nobody sees what it writes.
Rmdir(r) ==
  LET s == task[r].site
  IN /\ task[r].at = "removing" /\ task[r].todo = {}
     /\ Exists(s) /\ EntriesOf(s) = {}
     /\ dirs' = [dirs EXCEPT ![s] = NoDir]
     /\ task' = [q \in Removers |->
          IF q = r THEN Resumed(task[r])
          ELSE [task[q] EXCEPT !.here = @ /\ task[q].site # s]]
     /\ build' = [w \in Workers |->
          IF w = r /\ Wiped(r) THEN [build[w] EXCEPT !.stage = "wiped"]
          ELSE [build[w] EXCEPT !.mounted = @ /\ ~(Building(w, s) /\ build[w].stage = "building")]]
     /\ UNCHANGED spent
     /\ History({}, {})

RmdirFails(r) ==
  LET s == task[r].site
  IN /\ task[r].at = "removing" /\ task[r].todo = {}
     /\ ~Exists(s) \/ EntriesOf(s) # {}
     /\ IF ~Exists(s) /\ task[r].why = "all"
        THEN task' = [task EXCEPT ![r] = Resumed(@)] /\ UNCHANGED build
        ELSE Fails(r)
     /\ UNCHANGED <<dirs, spent>>
     /\ History({}, {})

-----------------------------------------------------------------------------
(* reset_cache, of one site or of all: the command handler and the CLI.    *)

StartReset(r) ==
  /\ r = Handler => LoopFree
  /\ task[r].at = "idle"
  /\ Spend("faults", MaxFaults)
  /\ \/ \E s \in Present : task' = [task EXCEPT ![r] = StartRemoval(s, "one", {})]
     \/ task' = [task EXCEPT ![r] = [NoTask EXCEPT !.at = "all", !.left = Present]]
  /\ UNCHANGED <<dirs, build>>
  /\ History({}, {})

\* rmtree of the cache root listed the sites when it began.
ResetNext(r) ==
  /\ task[r].at = "all"
  /\ \/ \E s \in task[r].left :
          task' = [task EXCEPT ![r] = StartRemoval(s, "all", @.left \ {s})]
     \/ task[r].left = {} /\ task' = [task EXCEPT ![r] = NoTask]
  /\ UNCHANGED <<dirs, build, spent>>
  /\ History({}, {})

-----------------------------------------------------------------------------
(* Time and faults.                                                        *)

\* cache_ttl_days pass.  No build lasts that long: its site stays fresh.
TimePasses(s) ==
  /\ Exists(s) /\ ~dirs[s].old
  /\ \A w \in Workers : ~Building(w, s)
  /\ Spend("ages", MaxAges)
  /\ dirs' = [dirs EXCEPT ![s].old = TRUE]
  /\ UNCHANGED <<build, task>>
  /\ History({s}, {})

\* A process is killed.  Containers outlive the service, and hold their
\* worker's place until they end.
Kill(P) ==
  /\ Spend("faults", MaxFaults)
  /\ task' = [r \in Removers |-> IF r \in P THEN NoTask ELSE task[r]]
  /\ build' = [w \in Workers |->
       IF w \in P /\ build[w].stage # "building" THEN NoBuild ELSE build[w]]
  /\ UNCHANGED dirs
  /\ History({}, {s \in Sites : \E r \in P : Removing(r, s)})

Service == Workers \cup {Handler}

-----------------------------------------------------------------------------
Prune(w) ==
  StartPrune(w) \/ JudgeAge(w) \/ StartSizes(w) \/ JudgeSize(w) \/ Trim(w)
    \/ TrimEnds(w) \/ EndPrune(w)

Remove(r) == OpenGone(r) \/ Open(r) \/ Unlink(r) \/ Rmdir(r) \/ RmdirFails(r)

Worker(w) ==
  \/ \E s \in Sites : PrepareDisabled(w, s)
  \/ \E s \in Sites, l \in Lockfiles : Prepare(w, s, l) \/ PrepareRaises(w, s, l)
  \/ TruncateMetadata(w) \/ WriteMetadata(w)
  \/ StartContainer(w) \/ WriteFile(w) \/ EndBuild(w)
  \/ Prune(w)

Next ==
  \/ \E w \in Workers : Worker(w)
  \/ \E r \in Removers : Remove(r)
  \/ \E r \in {Handler, Cli} : StartReset(r) \/ ResetNext(r)
  \/ \E s \in Sites : TimePasses(s)
  \/ Kill(Service) \/ Kill({Cli})

Spec == Init /\ [][Next]_vars

-----------------------------------------------------------------------------
(* Properties                                                              *)

\* The cache is prepared for this build, or mounted by it.
Mounts(w) ==
  /\ build[w].stage \in {"prepared", "pruning", "ready", "building"} /\ build[w].mounted
  /\ Exists(build[w].site)

\* The variables have their types; the event loop is at one preparation or
\* reset at most; and who is removing a directory knows which.
CacheTypeOK ==
  /\ \A s \in Sites :
       dirs[s] = NoDir \/
         /\ dirs[s].meta \in Lockfiles \cup {Absent, Torn}
         /\ dirs[s].files \subseteq File
         /\ dirs[s].marker \in BOOLEAN /\ dirs[s].old \in BOOLEAN
  /\ \A w \in Workers :
       /\ build[w].stage \in {"idle", "wiping", "wiped", "writing", "prepared", "pruning",
                             "ready", "building"}
       /\ build[w].stage = "wiping" <=> task[w].why = "wipe"
       /\ quiet[w] \subseteq Sites
  /\ \A r \in Removers :
       /\ task[r].at \in {"idle", "age", "size", "trim", "all", "judged", "removing"}
       /\ task[r].at \in {"trim", "judged", "removing"} <=> task[r].site \in Sites
       /\ task[r].todo \subseteq Entry
  /\ Cardinality({w \in Workers : build[w].stage \in {"wiping", "wiped", "writing"}}
                  \cup {r \in {Handler} : task[r].at # "idle"}) <= 1

\* What a build finds in its cache was put there by builds with its lockfile,
\* and not before the cache was last disabled, as long as the operations on the
\* site followed one another: every wipe, kill, prune and reset before counts
\* (prepare_site_cache, cache.py:115-136).
ContentsMatchLockfile ==
  \A w \in Workers :
    (Mounts(w) /\ build[w].site \notin disturbed) =>
      \A f \in dirs[build[w].site].files : f.of = build[w].lock

\* When a prune ends, every other site that was left alone meanwhile is within
\* its limit and not expired, or gone (prune_cache, cache.py:205-221).
PruneEnforcesLimits ==
  [][\A w \in Workers : (build[w].stage = "pruning" /\ build'[w].stage = "ready") =>
       \A s \in quiet[w] :
         Exists(s) => Cardinality(dirs[s].files) <= SiteMax /\ ~dirs[s].old]_vars

\* No prune condemns, as expired, the cache that a build under way mounts, which
\* was refreshed when the build prepared it (_write_metadata and touch_site_cache,
\* cache.py:127-129).
PruneSparesBuilds ==
  [][\A w, v \in Workers :
       (task[w].at = "age" /\ task'[w].at = "judged") =>
         ~(Mounts(v) /\ build[v].site = task'[w].site)]_vars

=============================================================================
