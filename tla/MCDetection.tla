---------------------------- MODULE MCDetection ----------------------------
(* Projects in families: one varies the frameworks, scripts, managers and  *)
(* lockfiles, one the engines.node range of a plain project, and one has   *)
(* frameworks that are deferred.                                           *)
EXTENDS Detection

Scripts == [tool : {"vite", "vitepress", "docusaurus", "tsc"}, how : {"build", "serve"}]
             \cup {NoScript}

Plain ==
  [override |-> "none", hugo |-> FALSE, json |-> TRUE, dependencies |-> {"astro"},
   manager |-> "none", locks |-> {"npm"}, engines |-> {},
   scripts |-> [n \in {"build", "docs:build"} |-> NoScript], others |-> {}]

FrameworkProjects ==
  [override : {"none", "gatsby", "remix"}, hugo : BOOLEAN, json : {TRUE},
   dependencies : SUBSET {"astro", "vite", "vitepress", "next"},
   manager : {"none", "pnpm", "yarn"}, locks : SUBSET {"pnpm", "npm", "yarn"},
   engines : {{}},
   scripts : [{"build", "docs:build"} -> Scripts],
   others : {{}, {[tool |-> "docusaurus", how |-> "build"]}}]

\* Without a package.json there is nothing in it.
BareProjects ==
  {[Plain EXCEPT !.json = FALSE, !.dependencies = {}, !.hugo = h, !.override = o] :
     h \in BOOLEAN, o \in {"none", "eleventy"}}

\* Real ranges name versions well below the .999.999 of the code.
Numbers == 0 .. Top - 1
Partial == {<<m>> : m \in 21 .. 23} \cup {<<m, n>> : m \in 21 .. 23, n \in Numbers}
Whole == {<<m, n, p>> : m \in 21 .. 23, n \in Numbers, p \in Numbers}
Tokens ==
  [op : Operators, v : Partial \cup Whole, x : {FALSE}, plain : {TRUE}]
    \cup [op : {"", "=", "^", ">="}, v : Partial, x : {TRUE}, plain : {TRUE}]
    \cup [op : {"*"}, v : {<<22>>}, x : {FALSE}, plain : {TRUE}]
    \cup [op : {"", ">=", "<="}, v : {<<22>>, <<22, 1, 0>>}, x : {FALSE}, plain : {FALSE}]
Lower == {t \in Tokens : t.op \in {">", ">="} /\ Len(t.v) # 2}
Upper == {t \in Tokens : t.op \in {"<", "<=", "~", "^", ""} /\ Len(t.v) # 2}
Clauses == {{}} \cup {{t} : t \in Tokens} \cup {{lo, up} : lo \in Lower, up \in Upper}
Twenty == {[op |-> "^", v |-> <<20>>, x |-> FALSE, plain |-> TRUE]}

RangeProjects ==
  {[Plain EXCEPT !.engines = r] :
     r \in {{c} : c \in Clauses} \cup {{c, Twenty} : c \in Clauses}}

DeferredProjects ==
  {[Plain EXCEPT !.dependencies = d] : d \in SUBSET {"vite", "astro", "remix", "next"}}

MCProjects == FrameworkProjects \cup BareProjects \cup RangeProjects \cup DeferredProjects
=============================================================================
