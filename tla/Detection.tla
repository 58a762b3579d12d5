----------------------------- MODULE Detection -----------------------------
(***************************************************************************)
(* plan_build of detect/framework.py, with detect_package_manager and      *)
(* install_command of detect/lockfiles.py: what the engine makes of a      *)
(* project.  A project is what the code looks at: the framework_id of the  *)
(* job, the Hugo configuration, the dependencies of package.json, the      *)
(* packageManager and engines.node fields, the scripts, the lockfiles.     *)
(*                                                                         *)
(* A script is the tool it runs, named after the framework, and how: to    *)
(* build or to serve.                                                      *)
(*                                                                         *)
(* A build command, output directory or Node version that the job itself   *)
(* gives replaces the answer of the code and is left out; so is a          *)
(* package.json that cannot be parsed.                                     *)
(***************************************************************************)
EXTENDS NodeRange, FiniteSetsExt

CONSTANTS
  Projects,   \* the projects a job may bring
  Supported   \* SUPPORTED_NODE_MAJORS

Script == [tool : STRING, how : {"build", "serve", "none"}]

\* What plan_build looks at; others are the scripts that have other names.
Project ==
  [override : STRING, hugo : BOOLEAN, json : BOOLEAN, dependencies : SUBSET STRING,
   manager : STRING, locks : SUBSET STRING, engines : SUBSET SUBSET Token,
   scripts : [{"build", "docs:build"} -> Script], others : SUBSET Script]

ASSUME ProjectsAssumption == Projects \subseteq Project
ASSUME SupportedAssumption ==
  IsFiniteSet(Supported) /\ Supported \subseteq Nat \ {0} /\ Supported # {}

VARIABLES
  project,  \* the project of the job
  plan      \* what plan_build returned or raised, or NoPlan

vars == <<project, plan>>

NodeFrameworks == {"astro", "vite", "eleventy", "docusaurus", "vitepress", "vuepress", "gatsby"}
Certified == NodeFrameworks \cup {"hugo"}

\* The packages whose presence detect_framework refuses, and the frameworks of
\* DEFERRED_FRAMEWORK_IDS that come as packages.
Refused == {"next", "nuxt", "sveltekit", "angular"}
Deferred == Refused \cup {"remix"}

DetectionOrder ==
  <<"astro", "docusaurus", "vitepress", "vuepress", "gatsby", "eleventy", "vite">>

NoScript == [tool |-> "none", how |-> "none"]
NoPlan == [error |-> "none", framework |-> "none"]
Error(e) == [error |-> e, framework |-> "none"]

-----------------------------------------------------------------------------
(* detect_package_manager and install_command.                             *)

\* The answer, or "unsupported" where it raises.
PackageManager(p) ==
  CASE p.json /\ p.manager \in {"npm", "pnpm"} -> p.manager
    [] p.json /\ p.manager \notin {"none", "npm", "pnpm"} -> "unsupported"
    [] OTHER ->
         IF "pnpm" \in p.locks THEN "pnpm"
         ELSE IF "npm" \in p.locks THEN "npm"
         ELSE IF p.locks # {} THEN "unsupported" ELSE "npm"

Install(manager, p) ==
  CASE manager = "none" -> "nothing"
    [] manager = "npm" -> IF "npm" \in p.locks THEN "npm ci" ELSE "npm install"
    [] manager = "pnpm" -> "pnpm install --frozen-lockfile"

-----------------------------------------------------------------------------
(* detect_framework.                                                       *)

FirstOf(S) == DetectionOrder[Min({i \in DOMAIN DetectionOrder : DetectionOrder[i] \in S})]

\* The frameworks one of the project's scripts, whatever its name, builds with.
Scripted(p) ==
  {f \in NodeFrameworks :
     \E s \in Range(p.scripts) \cup p.others :
       s.tool = f /\ (s.how # "serve" \/ f = "eleventy")}

\* Variant: the framework_id of the job is not looked up.
Overridden_Any(p) == p.override

\* A framework_id outside the registry, deferred or unknown, raises.
Overridden(p) == IF p.override \in Certified THEN p.override ELSE ""

\* The answer, or "" where it raises.
Framework(p) ==
  CASE p.override # "none" -> Overridden(p)
    [] p.override = "none" /\ p.hugo -> "hugo"
    [] OTHER ->
         IF ~p.json \/ p.dependencies \cap Refused # {} THEN ""
         ELSE IF p.dependencies \cap NodeFrameworks # {}
              THEN FirstOf(p.dependencies \cap NodeFrameworks)
         ELSE IF Scripted(p) # {} THEN FirstOf(Scripted(p)) ELSE ""

-----------------------------------------------------------------------------
(* select_node_version, _default_build_command and _profile_output_dir.    *)

\* The newest supported major that the range allows, or 0 where it raises.
NodeMajor(p) ==
  LET majors == IF ~p.json \/ p.engines = {} THEN Supported
                ELSE {m \in Supported : MajorSatisfies(m, p.engines)}
  IN IF majors = {} THEN 0 ELSE Max(majors)

\* _script_matches_profile: the bare name of the tool is enough, but for
\* Docusaurus, whose package is called core.
Matches(f, script) == script.tool = f /\ (script.how = "serve" => f # "docusaurus")

\* VitePress and VuePress take docs:build for theirs.
PreferredScript(f, p) ==
  CASE Matches(f, p.scripts["build"]) -> "build"
    [] ~Matches(f, p.scripts["build"]) /\
       (\/ Matches(f, p.scripts["docs:build"])
        \/ f \in {"vitepress", "vuepress"} /\ p.scripts["docs:build"] # NoScript) -> "docs:build"
    [] OTHER -> "none"

BuildScript(f, p) == IF f = "hugo" \/ ~p.json THEN "none" ELSE PreferredScript(f, p)

\* Only the name of the script is looked at, never what it runs.
OutputDir(f, script) ==
  CASE f \in {"vitepress", "vuepress"} -> IF script = "docs:build" THEN "docs" ELSE "root"
    [] OTHER -> "root"

-----------------------------------------------------------------------------
\* plan_build, in the order of its errors; check_static_compatibility finds
\* every framework that is detected certified.
PlanOf(p) ==
  LET manager == PackageManager(p)
      f == Framework(p)
      script == BuildScript(f, p)
      used == IF f = "hugo" THEN "none" ELSE manager
  IN CASE manager = "unsupported" -> Error("manager")
       [] manager # "unsupported" /\ f = "" -> Error("framework")
       [] manager # "unsupported" /\ f \in NodeFrameworks /\ NodeMajor(p) = 0 -> Error("node")
       [] OTHER ->
            [error |-> "none", framework |-> f, manager |-> used,
             install |-> Install(used, p), script |-> script,
             output |-> OutputDir(f, script),
             image |-> IF f = "hugo" THEN 0 ELSE NodeMajor(p)]

Init == project \in Projects /\ plan = NoPlan

PlanBuild ==
  /\ plan = NoPlan
  /\ plan' = PlanOf(project)
  /\ UNCHANGED project

Next == PlanBuild

Spec == Init /\ [][Next]_vars

-----------------------------------------------------------------------------
(* Properties                                                              *)

Planned == plan.error = "none" /\ plan.framework # "none"

\* Every plan is for one of the eight certified profiles: a Node profile is built
\* in a supported Node image and its packages are installed with npm or pnpm,
\* Hugo in its own and without (docs/design.md:91-94).
PlanIsCertified ==
  Planned =>
    /\ plan.framework \in Certified
    /\ IF plan.framework = "hugo" THEN plan.manager = "none" /\ plan.install = "nothing"
       ELSE plan.manager \in {"npm", "pnpm"} /\ plan.image \in Supported

\* A range is not taken to allow a Node major none of whose versions it allows,
\* so that no build runs on a Node its project excludes.  A partial version
\* after ">" is the exception: ">22" is taken for ">22.0.0" (framework.py:438-459).
NodeRangeSound ==
  (Planned /\ plan.framework # "hugo" /\ project.json /\ project.engines # {}
     /\ \A t \in UNION project.engines : t.op = ">" => Len(t.v) = 3) =>
    \E w \in VersionsOf(plan.image) : Allows(project.engines, w)

\* When a project is refused for its range, no alternative that the code reads
\* means, to npm, the first version of a supported major; nor the last one, unless
\* a partial version stands for less to the code than to npm.  What is left of a
\* refused range that npm satisfies is what the code does not read: an empty
\* alternative, or one that is not written plainly (framework.py:412-459).
NodeRangeComplete ==
  plan.error = "node" =>
    \A m \in Supported : \A clause \in project.engines :
      Legible(clause) =>
        /\ ~Means(clause, <<m, 0, 0>>)
        /\ (\A t \in clause : ~Narrowed(t)) => ~Means(clause, <<m, Top, Top>>)

\* "Bun, Yarn, Zola, Generic, Angular, Remix, Next, Nuxt, and SvelteKit are
\* explicitly deferred and never silently fall back to Vite" (docs/design.md:94-96):
\* a project that depends on a deferred framework, and does not ask for another,
\* is not planned as a Vite project (detect_framework, framework.py:284-291).
NoFallbackToVite ==
  (Planned /\ plan.framework = "vite" /\ project.override = "none") =>
    project.dependencies \cap Deferred = {}

=============================================================================
