-------------------------- MODULE DetectionProofs --------------------------
(***************************************************************************)
(* Proofs about Detection and NodeRange: for every project, every set of   *)
(* supported Node majors, every version number and any number of           *)
(* alternatives and tokens in an engines.node range.                       *)
(*                                                                         *)
(* plan_build is one step, so the invariant only says where a plan comes   *)
(* from; what is proved is about PlanOf and the operators under it.  For   *)
(* ranges the lemmas compare what the code makes of one token with what    *)
(* the token means; ranges follow, as both read them in the same way.      *)
(***************************************************************************)
EXTENDS Detection, NaturalFacts

-----------------------------------------------------------------------------
(* Ranges.                                                                 *)

Version == {<<a, b, c>> : a \in Nat, b \in Nat, c \in Nat}

\* A version with numbers left out is completed with zeros.
LEMMA CompleteFacts ==
  ASSUME NEW t \in Token
  PROVE  /\ Len(t.v) \in {1, 2, 3} /\ t.v[1] \in Nat
         /\ Complete(t.v)[1] = t.v[1]
         /\ Complete(t.v)[2] = IF Len(t.v) >= 2 THEN t.v[2] ELSE 0
         /\ Complete(t.v)[3] = IF Len(t.v) = 3 THEN t.v[3] ELSE 0
         /\ Len(t.v) >= 2 => t.v[2] \in Nat
         /\ Len(t.v) = 3 => t.v[3] \in Nat
         /\ t.op \in Operators \cup {"*"} /\ t.x \in BOOLEAN
<1>1. t.v \in Seq(Nat) /\ Len(t.v) \in 1 .. 3
  BY DEF Token
<1>2. \A i \in 1 .. Len(t.v) : t.v[i] \in Nat
  BY <1>1
<1>. QED  BY <1>1, <1>2 DEF Complete, Token

\* What the specifier of a token admits, the token allows, but for a partial version
\* after ">".
LEMMA SpecifierIsSound ==
  ASSUME NEW t \in Token, NEW w \in Version, t.op = ">" => Len(t.v) = 3,
         SpecifierAdmits(t, w)
  PROVE  Admits(t, w)
<1>1. PICK a \in Nat, b \in Nat, c \in Nat : w = <<a, b, c>>
  BY DEF Version
<1>2. w[1] = a /\ w[2] = b /\ w[3] = c
  BY <1>1
<1>. DEFINE v == Complete(t.v)
            n == Len(t.v)
<1>3. /\ n \in {1, 2, 3} /\ v[1] \in Nat /\ v[2] \in Nat /\ v[3] \in Nat
      /\ n = 1 => v[2] = 0
      /\ n < 3 => v[3] = 0
      /\ t.v[1] = v[1] /\ (n >= 2 => t.v[2] = v[2]) /\ (n = 3 => t.v[3] = v[3])
  BY CompleteFacts
<1>4. After(t.v) = IF n = 1 THEN <<v[1] + 1, 0, 0>>
                   ELSE IF n = 2 THEN <<v[1], v[2] + 1, 0>> ELSE <<v[1], v[2], v[3] + 1>>
  <2>1. CASE n = 1
    BY <1>3, <2>1 DEF After
  <2>2. CASE n = 2
    BY <1>3, <2>2 DEF After
  <2>3. CASE n = 3
    BY <1>3, <2>3 DEF After
  <2>. QED  BY <1>3, <2>1, <2>2, <2>3
<1>5. t.op \in Operators \cup {"*"}
  BY CompleteFacts
<1>6. CASE t.op = "*"
  BY <1>6 DEF Admits
<1>7. CASE t.op \in {"=", ""}
  <2>1. AtLeast(w, v) /\ Less(w, After(t.v))
    <3>1. /\ a = v[1]
          /\ n >= 2 => b = v[2]
          /\ n = 3 => c = v[3]
      <4>1. CASE t.x
        <5>1. \A i \in 1 .. n : w[i] = t.v[i]
          BY <1>7, <4>1 DEF SpecifierAdmits
        <5>. QED  BY <1>2, <1>3, <5>1
      <4>2. CASE ~t.x
        <5>1. w = v
          BY <1>7, <4>2 DEF SpecifierAdmits
        <5>. QED  BY <1>2, <5>1
      <4>. QED  BY <4>1, <4>2
    <3>. HIDE DEF v, n
    <3>. QED  BY <1>2, <1>3, <1>4, <3>1 DEF AtLeast, Less
  <2>. QED  BY <1>7, <2>1 DEF Admits
<1>8. CASE t.op = "^"
  BY <1>8 DEF Admits, SpecifierAdmits
<1>9. CASE t.op = "~"
  <2>1. AtLeast(w, v) /\ Less(w, <<v[1], v[2] + 1, 0>>)
    BY <1>9 DEF SpecifierAdmits
  <2>2. Less(w, IF n = 1 THEN After(t.v) ELSE After(<<v[1], v[2]>>))
    <3>1. After(<<v[1], v[2]>>) = <<v[1], v[2] + 1, 0>>
      BY DEF After
    <3>. HIDE DEF v, n
    <3>. QED  BY <1>2, <1>3, <1>4, <2>1, <3>1 DEF Less
  <2>. QED  BY <1>9, <2>1, <2>2 DEF Admits
<1>10. CASE t.op \in {">=", "<"}
  BY <1>10 DEF Admits, SpecifierAdmits
<1>11. CASE t.op = ">"
  <2>1. Less(v, w) /\ n = 3
    BY <1>11 DEF SpecifierAdmits
  <2>2. AtLeast(w, After(t.v))
    <3>. HIDE DEF v, n
    <3>. QED  BY <1>2, <1>3, <1>4, <2>1 DEF AtLeast, Less
  <2>. QED  BY <1>11, <2>2 DEF Admits
<1>12. CASE t.op = "<="
  <2>1. AtLeast(v, w)
    BY <1>12 DEF SpecifierAdmits
  <2>2. Less(w, After(t.v))
    <3>. HIDE DEF v, n
    <3>. QED  BY <1>2, <1>3, <1>4, <2>1 DEF AtLeast, Less
  <2>. QED  BY <1>12, <2>2 DEF Admits
<1>. QED  BY <1>5, <1>6, <1>7, <1>8, <1>9, <1>10, <1>11, <1>12 DEF Operators

\* Of the first version of a major, and of any version under a token that is not
\* narrowed, the specifier of a token admits whatever the token allows.
LEMMA SpecifierIsComplete ==
  ASSUME NEW t \in Token, NEW w \in Version,
         (w[2] = 0 /\ w[3] = 0) \/ ~Narrowed(t),
         Admits(t, w)
  PROVE  SpecifierAdmits(t, w)
<1>1. PICK a \in Nat, b \in Nat, c \in Nat : w = <<a, b, c>>
  BY DEF Version
<1>2. w[1] = a /\ w[2] = b /\ w[3] = c
  BY <1>1
<1>. DEFINE v == Complete(t.v)
            n == Len(t.v)
<1>3. /\ n \in {1, 2, 3} /\ v[1] \in Nat /\ v[2] \in Nat /\ v[3] \in Nat
      /\ n = 1 => v[2] = 0
      /\ n < 3 => v[3] = 0
      /\ t.v[1] = v[1] /\ (n >= 2 => t.v[2] = v[2]) /\ (n = 3 => t.v[3] = v[3])
  BY CompleteFacts
<1>4. After(t.v) = IF n = 1 THEN <<v[1] + 1, 0, 0>>
                   ELSE IF n = 2 THEN <<v[1], v[2] + 1, 0>> ELSE <<v[1], v[2], v[3] + 1>>
  <2>1. CASE n = 1
    BY <1>3, <2>1 DEF After
  <2>2. CASE n = 2
    BY <1>3, <2>2 DEF After
  <2>3. CASE n = 3
    BY <1>3, <2>3 DEF After
  <2>. QED  BY <1>3, <2>1, <2>2, <2>3
<1>5. t.op \in Operators \cup {"*"} /\ t.x \in BOOLEAN
  BY CompleteFacts
<1>6. CASE t.op = "*"
  BY <1>6 DEF SpecifierAdmits
<1>full. ASSUME t.op \in {"~", "<="} \/ (t.op \in {"=", ""} /\ ~t.x)
      PROVE  n = 3 \/ (b = 0 /\ c = 0)
  <2>1. CASE ~Narrowed(t)
    <3>1. ~(n < 3)
      BY <1>full, <2>1, Zenon DEF Narrowed
    <3>. HIDE DEF v, n
    <3>. QED  BY <1>3, <3>1
  <2>2. CASE w[2] = 0 /\ w[3] = 0
    BY <1>2, <2>2
  <2>. QED  BY <2>1, <2>2
<1>7. CASE t.op \in {"=", ""}
  <2>1. AtLeast(w, v) /\ Less(w, After(t.v))
    BY <1>7 DEF Admits
  <2>2. a = v[1] /\ (n >= 2 => b = v[2]) /\ (n = 3 => c = v[3])
    <3>. HIDE DEF v, n
    <3>. QED  BY <1>2, <1>3, <1>4, <2>1 DEF AtLeast, Less
  <2>3. CASE t.x
    <3>1. \A i \in 1 .. n : w[i] = t.v[i]
      BY <1>2, <1>3, <2>2
    <3>. QED  BY <1>7, <2>3, <3>1 DEF SpecifierAdmits
  <2>4. CASE ~t.x
    <3>1. n = 3 \/ (b = 0 /\ c = 0)
      BY <1>full, <1>7, <2>4
    <3>2. a = v[1] /\ b = v[2] /\ c = v[3]
      <4>. HIDE DEF v, n
      <4>. QED  BY <1>3, <2>2, <3>1
    <3>3. w = v
      BY <1>1, <3>2 DEF Complete
    <3>. QED  BY <1>7, <2>4, <3>3 DEF SpecifierAdmits
  <2>. QED  BY <2>3, <2>4
<1>8. CASE t.op = "^"
  BY <1>8 DEF Admits, SpecifierAdmits
<1>9. CASE t.op = "~"
  <2>1. AtLeast(w, v) /\ Less(w, IF n = 1 THEN After(t.v) ELSE After(<<v[1], v[2]>>))
    BY <1>9 DEF Admits
  <2>2. n = 3 \/ (b = 0 /\ c = 0)
    BY <1>full, <1>9
  <2>3. Less(w, <<v[1], v[2] + 1, 0>>)
    <3>1. After(<<v[1], v[2]>>) = <<v[1], v[2] + 1, 0>>
      BY DEF After
    <3>. HIDE DEF v, n
    <3>. QED  BY <1>2, <1>3, <1>4, <2>1, <2>2, <3>1 DEF AtLeast, Less
  <2>. QED  BY <1>9, <2>1, <2>3 DEF SpecifierAdmits
<1>10. CASE t.op \in {">=", "<"}
  BY <1>10 DEF Admits, SpecifierAdmits
<1>11. CASE t.op = ">"
  <2>1. AtLeast(w, After(t.v))
    BY <1>11 DEF Admits
  <2>2. Less(v, w)
    <3>. HIDE DEF v, n
    <3>. QED  BY <1>2, <1>3, <1>4, <2>1 DEF AtLeast, Less
  <2>. QED  BY <1>11, <2>2 DEF SpecifierAdmits
<1>12. CASE t.op = "<="
  <2>1. Less(w, After(t.v))
    BY <1>12 DEF Admits
  <2>2. n = 3 \/ (b = 0 /\ c = 0)
    BY <1>full, <1>12
  <2>3. AtLeast(v, w)
    <3>. HIDE DEF v, n
    <3>. QED  BY <1>2, <1>3, <1>4, <2>1, <2>2 DEF AtLeast, Less
  <2>. QED  BY <1>12, <2>3 DEF SpecifierAdmits
<1>. QED  BY <1>5, <1>6, <1>7, <1>8, <1>9, <1>10, <1>11, <1>12 DEF Operators

\* Both versions that are tried are versions of the major.
LEMMA TriedFacts ==
  ASSUME NEW m \in Nat
  PROVE  Tried(m) \subseteq VersionsOf(m) /\ VersionsOf(m) \subseteq Version
<1>1. 0 \in 0 .. Top /\ Top \in 0 .. Top /\ 0 .. Top \subseteq Nat
  BY TopAssumption
<1>2. <<m, 0, 0>> \in VersionsOf(m) /\ <<m, Top, Top>> \in VersionsOf(m)
  <2>1. ASSUME NEW k \in 0 .. Top PROVE <<m, k, k>> \in VersionsOf(m)
    BY DEF VersionsOf
  <2>. QED  BY <1>1, <2>1
<1>3. ASSUME NEW w \in VersionsOf(m) PROVE w \in Version
  <2>1. PICK b \in 0 .. Top, c \in 0 .. Top : w = <<m, b, c>>
    BY DEF VersionsOf
  <2>2. b \in Nat /\ c \in Nat
    BY <1>1
  <2>. QED  BY <2>1, <2>2 DEF Version
<1>. QED  BY <1>2, <1>3 DEF Tried

\* A major that the code takes a range to allow has a version that the range allows.
LEMMA RangeIsSound ==
  ASSUME NEW m \in Nat, NEW range \in SUBSET SUBSET Token, MajorSatisfies(m, range),
         \A t \in UNION range : t.op = ">" => Len(t.v) = 3
  PROVE  \E w \in VersionsOf(m) : Allows(range, w)
<1>1. PICK clause \in range : ClauseSatisfies(m, clause)
  BY DEF MajorSatisfies
<1>2. PICK w \in Tried(m) : \A t \in clause : SpecifierAdmits(t, w)
  BY <1>1 DEF ClauseSatisfies
<1>3. w \in VersionsOf(m) /\ w \in Version
  BY TriedFacts
<1>4. Means(clause, w)
  <2>1. SUFFICES ASSUME NEW t \in clause PROVE Admits(t, w)
    BY DEF Means
  <2>2. t \in Token /\ (t.op = ">" => Len(t.v) = 3)
    OBVIOUS
  <2>. QED  BY <1>2, <1>3, <2>2, SpecifierIsSound
<1>5. Allows(range, w)
  BY <1>4 DEF Allows
<1>. QED  BY <1>3, <1>5

\* A major that the code takes a range to exclude: no alternative that it reads means
\* the first version of the major, nor the last if it has no narrowed token.
LEMMA RangeIsComplete ==
  ASSUME NEW m \in Nat, NEW range \in SUBSET SUBSET Token, ~MajorSatisfies(m, range),
         NEW clause \in range, Legible(clause)
  PROVE  /\ ~Means(clause, <<m, 0, 0>>)
         /\ (\A t \in clause : ~Narrowed(t)) => ~Means(clause, <<m, Top, Top>>)
<1>1. ASSUME NEW w \in Tried(m), Means(clause, w),
             (w[2] = 0 /\ w[3] = 0) \/ \A t \in clause : ~Narrowed(t)
      PROVE  FALSE
  <2>1. w \in Version
    BY TriedFacts
  <2>2. \A t \in clause : SpecifierAdmits(t, w)
    <3>1. SUFFICES ASSUME NEW t \in clause PROVE SpecifierAdmits(t, w)
      OBVIOUS
    <3>2. t \in Token /\ Admits(t, w)
      BY <1>1 DEF Means
    <3>3. (w[2] = 0 /\ w[3] = 0) \/ ~Narrowed(t)
      BY <1>1
    <3>. QED  BY <2>1, <3>2, <3>3, SpecifierIsComplete
  <2>. QED  BY <2>2 DEF MajorSatisfies, ClauseSatisfies, Legible
<1>2. <<m, 0, 0>> \in Tried(m) /\ <<m, Top, Top>> \in Tried(m)
  BY DEF Tried
<1>3. <<m, 0, 0>>[2] = 0 /\ <<m, 0, 0>>[3] = 0
  OBVIOUS
<1>. QED  BY <1>1, <1>2, <1>3

-----------------------------------------------------------------------------
(* The parts of a plan.                                                    *)

\* The greatest of the supported majors that are left.
LEMMA GreatestMajor ==
  ASSUME NEW S, S \subseteq Supported, S # {}
  PROVE  Max(S) \in S
<1>1. S \subseteq Nat /\ IsFiniteSet(S)
  BY SupportedAssumption, FS_Subset
<1>2. PICK n \in S : \A m \in S : m <= n
  BY <1>1, GreatestNatural DEF HasGreatest
<1>3. \A m \in S : n >= m
  BY <1>1, <1>2
<1>. QED  BY <1>3 DEF Max

\* select_node_version answers with a supported major that it takes the range to
\* allow, and with none only if it takes the range to exclude them all.
LEMMA NodeMajorFacts ==
  ASSUME NEW p \in Project
  PROVE  /\ NodeMajor(p) # 0 =>
              /\ NodeMajor(p) \in Supported
              /\ (p.json /\ p.engines # {}) => MajorSatisfies(NodeMajor(p), p.engines)
         /\ NodeMajor(p) = 0 => \A m \in Supported : ~MajorSatisfies(m, p.engines)
<1>. DEFINE majors == IF ~p.json \/ p.engines = {} THEN Supported
                      ELSE {m \in Supported : MajorSatisfies(m, p.engines)}
<1>1. majors \subseteq Supported
  OBVIOUS
<1>2. NodeMajor(p) = IF majors = {} THEN 0 ELSE Max(majors)
  BY DEF NodeMajor
<1>3. majors # {} => Max(majors) \in majors
  <2>. HIDE DEF majors
  <2>. QED  BY <1>1, GreatestMajor
<1>4. CASE majors = {}
  BY <1>2, <1>4, SupportedAssumption
<1>5. CASE majors # {}
  <2>1. NodeMajor(p) \in majors
    BY <1>2, <1>3, <1>5
  <2>. QED  BY <1>1, <2>1, SupportedAssumption
<1>. QED  BY <1>4, <1>5

\* The first framework in the order of detection is one of those that are found.
LEMMA FirstOfFacts ==
  ASSUME NEW S, S \subseteq NodeFrameworks, S # {}
  PROVE  FirstOf(S) \in S
<1>. DEFINE I == {i \in DOMAIN DetectionOrder : DetectionOrder[i] \in S}
<1>1. DOMAIN DetectionOrder = 1 .. 7
  BY DEF DetectionOrder
<1>2. /\ DetectionOrder[1] = "astro" /\ DetectionOrder[2] = "docusaurus"
      /\ DetectionOrder[3] = "vitepress" /\ DetectionOrder[4] = "vuepress"
      /\ DetectionOrder[5] = "gatsby" /\ DetectionOrder[6] = "eleventy"
      /\ DetectionOrder[7] = "vite"
  BY DEF DetectionOrder
<1>3. I \subseteq Nat /\ I # {}
  <2>1. PICK f \in S : f \in NodeFrameworks
    OBVIOUS
  <2>2. f \in {"astro", "docusaurus", "vitepress", "vuepress", "gatsby", "eleventy", "vite"}
    BY <2>1 DEF NodeFrameworks
  <2>3. \E i \in 1 .. 7 : DetectionOrder[i] = f
    BY <1>2, <2>2
  <2>. QED  BY <1>1, <2>3
<1>4. PICK n \in I : \A m \in I : n <= m
  <2>. HIDE DEF I
  <2>. QED  BY <1>3, LeastNatural
<1>5. Min(I) \in I
  BY <1>4 DEF Min
<1>6. FirstOf(S) = DetectionOrder[Min(I)]
  BY DEF FirstOf
<1>. QED  BY <1>5, <1>6

\* detect_framework answers with a certified framework or raises.
LEMMA FrameworkFacts ==
  ASSUME NEW p \in Project
  PROVE  Framework(p) \in Certified \cup {""}
<1>. DEFINE found == p.dependencies \cap NodeFrameworks
<1>1. CASE p.override # "none"
  BY <1>1 DEF Framework, Overridden
<1>2. CASE p.override = "none" /\ p.hugo
  BY <1>2 DEF Framework, Certified
<1>3. CASE p.override = "none" /\ ~p.hugo
  <2>1. CASE ~p.json \/ p.dependencies \cap Refused # {}
    <3>1. Framework(p) = ""
      BY <1>3, <2>1 DEF Framework
    <3>. QED  BY <3>1
  <2>2. CASE ~(~p.json \/ p.dependencies \cap Refused # {}) /\ found # {}
    <3>1. Framework(p) = FirstOf(found)
      BY <1>3, <2>2 DEF Framework
    <3>2. FirstOf(found) \in found
      BY <2>2, FirstOfFacts
    <3>. QED  BY <3>1, <3>2 DEF Certified
  <2>3. CASE ~(~p.json \/ p.dependencies \cap Refused # {}) /\ found = {}
    <3>1. Framework(p) = IF Scripted(p) # {} THEN FirstOf(Scripted(p)) ELSE ""
      BY <1>3, <2>3 DEF Framework
    <3>2. Scripted(p) # {} => FirstOf(Scripted(p)) \in NodeFrameworks
      <4>1. Scripted(p) \subseteq NodeFrameworks
        BY DEF Scripted
      <4>. QED  BY <4>1, FirstOfFacts
    <3>. QED  BY <2>3, <3>1, <3>2 DEF Certified
  <2>. QED  BY <2>1, <2>2, <2>3
<1>. QED  BY <1>1, <1>2, <1>3

\* detect_package_manager answers with npm or pnpm, or raises.
LEMMA ManagerFacts ==
  ASSUME NEW p \in Project
  PROVE  PackageManager(p) \in {"npm", "pnpm", "unsupported"}
  BY DEF PackageManager

\* A plan that is made is the one of the last case of plan_build.
LEMMA PlanFacts ==
  ASSUME NEW p \in Project, PlanOf(p).error = "none"
  PROVE  LET f == Framework(p)
             used == IF f = "hugo" THEN "none" ELSE PackageManager(p)
         IN /\ PackageManager(p) # "unsupported" /\ f \in Certified
            /\ f # "hugo" => NodeMajor(p) # 0
            /\ PlanOf(p) = [error |-> "none", framework |-> f, manager |-> used,
                            install |-> Install(used, p), script |-> BuildScript(f, p),
                            output |-> OutputDir(f, BuildScript(f, p)),
                            image |-> IF f = "hugo" THEN 0 ELSE NodeMajor(p)]
<1>1. CASE PackageManager(p) = "unsupported"
  <2>1. PlanOf(p) = Error("manager")
    BY <1>1 DEF PlanOf
  <2>2. PlanOf(p).error # "none"
    BY <2>1 DEF Error
  <2>. QED  BY <2>2
<1>2. CASE PackageManager(p) # "unsupported" /\ Framework(p) = ""
  <2>1. PlanOf(p) = Error("framework")
    BY <1>2 DEF PlanOf, NodeFrameworks
  <2>2. PlanOf(p).error # "none"
    BY <2>1 DEF Error
  <2>. QED  BY <2>2
<1>3. CASE PackageManager(p) # "unsupported" /\ Framework(p) \in NodeFrameworks /\ NodeMajor(p) = 0
  <2>0. Framework(p) # ""
    BY <1>3 DEF NodeFrameworks
  <2>1. PlanOf(p) = Error("node")
    BY <1>3, <2>0 DEF PlanOf
  <2>2. PlanOf(p).error # "none"
    BY <2>1 DEF Error
  <2>. QED  BY <2>2
<1>4. CASE /\ PackageManager(p) # "unsupported" /\ Framework(p) # ""
           /\ ~(Framework(p) \in NodeFrameworks /\ NodeMajor(p) = 0)
  <2>1. Framework(p) \in Certified
    BY <1>4, FrameworkFacts
  <2>2. Framework(p) # "hugo" => NodeMajor(p) # 0
    BY <1>4, <2>1 DEF Certified
  <2>. QED  BY <1>4, <2>1, <2>2 DEF PlanOf
<1>. QED  BY <1>1, <1>2, <1>3, <1>4

-----------------------------------------------------------------------------
(* The theorems.                                                           *)

\* A plan is what plan_build makes of the project.
PlanInv == project \in Project /\ (plan = NoPlan \/ plan = PlanOf(project))

\* The only step is the call of plan_build.
THEOREM PlanInvariant ==
  Spec => []PlanInv
<1>1. Init => PlanInv
  BY ProjectsAssumption DEF Init, PlanInv
<1>2. PlanInv /\ [Next]_vars => PlanInv'
  BY DEF PlanInv, Next, PlanBuild, vars
<1>. QED  BY <1>1, <1>2, PTL DEF Spec

\* A plan that is made was made by plan_build.
LEMMA PlannedIsPlanOf ==
  ASSUME PlanInv, Planned
  PROVE  plan = PlanOf(project) /\ PlanOf(project).error = "none" /\ project \in Project
<1>1. plan # NoPlan
  BY DEF Planned, NoPlan
<1>. QED  BY <1>1 DEF PlanInv, Planned

\* Every plan is for a certified framework, in a supported Node image and with npm or
\* pnpm, or for Hugo and without, whatever the project and whatever majors are supported
\* (plan_build).
THEOREM PlansAreCertified ==
  Spec => []PlanIsCertified
<1>1. PlanInv => PlanIsCertified
  <2>. SUFFICES ASSUME PlanInv, Planned PROVE PlanIsCertified
    BY DEF PlanIsCertified
  <2>. DEFINE f == Framework(project)
  <2>1. /\ plan.framework = f /\ f \in Certified
        /\ plan.manager = IF f = "hugo" THEN "none" ELSE PackageManager(project)
        /\ plan.install = Install(plan.manager, project)
        /\ plan.image = IF f = "hugo" THEN 0 ELSE NodeMajor(project)
        /\ f # "hugo" => NodeMajor(project) # 0
        /\ PackageManager(project) # "unsupported"
    BY PlannedIsPlanOf, PlanFacts
  <2>2. CASE f = "hugo"
    BY <2>1, <2>2 DEF PlanIsCertified, Install
  <2>3. CASE f # "hugo"
    <3>1. NodeMajor(project) \in Supported /\ PackageManager(project) \in {"npm", "pnpm"}
      BY <2>1, <2>3, PlannedIsPlanOf, NodeMajorFacts, ManagerFacts
    <3>. QED  BY <2>1, <2>3, <3>1 DEF PlanIsCertified
  <2>. QED  BY <2>2, <2>3
<1>. QED  BY <1>1, PlanInvariant, PTL

\* No build is planned on a Node major that its project excludes, for every range but
\* those with a partial version after ">" (_node_clause_satisfies and what it calls).
THEOREM NodeRangesAreSound ==
  Spec => []NodeRangeSound
<1>1. PlanInv => NodeRangeSound
  <2>. SUFFICES ASSUME PlanInv, Planned, plan.framework # "hugo", project.json,
                       project.engines # {},
                       \A t \in UNION project.engines : t.op = ">" => Len(t.v) = 3
                PROVE  \E w \in VersionsOf(plan.image) : Allows(project.engines, w)
    BY DEF NodeRangeSound
  <2>1. project \in Project /\ project.engines \in SUBSET SUBSET Token
    BY DEF PlanInv, Project
  <2>2. plan.image = NodeMajor(project) /\ NodeMajor(project) # 0
    BY PlannedIsPlanOf, PlanFacts
  <2>3. NodeMajor(project) \in Nat /\ MajorSatisfies(NodeMajor(project), project.engines)
    BY <2>1, <2>2, NodeMajorFacts, SupportedAssumption
  <2>. QED  BY <2>1, <2>2, <2>3, RangeIsSound
<1>. QED  BY <1>1, PlanInvariant, PTL

\* When a project is refused for its range, whatever npm finds in the range is in
\* alternatives the code does not read, or is not the first version of a supported
\* major, nor the last under tokens that are not narrowed (select_node_version).
THEOREM NodeRangesAreComplete ==
  Spec => []NodeRangeComplete
<1>1. PlanInv => NodeRangeComplete
  <2>. SUFFICES ASSUME PlanInv, plan.error = "node", NEW m \in Supported,
                       NEW clause \in project.engines, Legible(clause)
                PROVE  /\ ~Means(clause, <<m, 0, 0>>)
                       /\ (\A t \in clause : ~Narrowed(t)) => ~Means(clause, <<m, Top, Top>>)
    BY DEF NodeRangeComplete
  <2>1. project \in Project /\ project.engines \in SUBSET SUBSET Token /\ m \in Nat
    BY SupportedAssumption DEF PlanInv, Project
  <2>2. plan = PlanOf(project) /\ PlanOf(project).error = "node"
    BY DEF PlanInv, NoPlan
  <2>3. NodeMajor(project) = 0
    BY <2>2 DEF PlanOf, Error
  <2>4. ~MajorSatisfies(m, project.engines)
    BY <2>1, <2>3, NodeMajorFacts
  <2>. QED  BY <2>1, <2>4, RangeIsComplete
<1>. QED  BY <1>1, PlanInvariant, PTL

=============================================================================
