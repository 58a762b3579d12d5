----------------------------- MODULE NodeRange -----------------------------
(***************************************************************************)
(* The engines.node ranges of detect/framework.py: how the code turns a    *)
(* range into specifiers and tries two versions of a Node major, beside    *)
(* what such a range means to npm.                                         *)
(*                                                                         *)
(* A range is a set of alternatives (split at "||"), an alternative a set  *)
(* of comparators, empty where nothing stands between two "||".  A         *)
(* comparator is an operator with one to three numbers and perhaps a       *)
(* trailing ".x", or the wildcard "*".  It is plain if it is written the   *)
(* way the code's regular expression has it.  npm reads others too: "v22", *)
(* ">= 22" (to the code two tokens, of which the first is no version),     *)
(* "20 - 22" for ">=20 <=22", "22.x.x", "~>22".  What npm does not read    *)
(* either is left out.                                                     *)
(***************************************************************************)
EXTENDS Naturals, Sequences

CONSTANT Top  \* the 999 that no minor version and no patch exceeds

ASSUME TopAssumption == Top \in Nat

Operators == {"", "=", ">", ">=", "<", "<=", "^", "~"}
Token == [op : Operators \cup {"*"}, v : {v \in Seq(Nat) : Len(v) \in 1 .. 3},
          x : BOOLEAN, plain : BOOLEAN]

Less(a, b) ==
  \/ a[1] < b[1]
  \/ a[1] = b[1] /\ a[2] < b[2]
  \/ a[1] = b[1] /\ a[2] = b[2] /\ a[3] < b[3]
AtLeast(a, b) == ~Less(a, b)

\* _complete_node_version
Complete(v) == [i \in 1 .. 3 |-> IF i <= Len(v) THEN v[i] ELSE 0]

-----------------------------------------------------------------------------
(* What the code does.                                                     *)

\* Variant: "<" lets its bound in.
SpecifierAdmits_ClosedUpper(t, w) ==
  LET v == Complete(t.v)
  IN CASE t.op = "*" -> TRUE
       [] t.op = "^" -> AtLeast(w, v) /\ Less(w, <<v[1] + 1, 0, 0>>)
       [] t.op = "~" -> AtLeast(w, v) /\ Less(w, <<v[1], v[2] + 1, 0>>)
       [] t.op \in {"=", ""} -> w = v
       [] t.op = ">=" -> AtLeast(w, v)
       [] t.op = ">" -> Less(v, w)
       [] t.op \in {"<=", "<"} -> AtLeast(v, w)

\* _node_token_to_specifier, and what packaging's SpecifierSet makes of it.
SpecifierAdmits(t, w) ==
  LET v == Complete(t.v)
  IN CASE t.op = "*" -> TRUE
       [] t.op = "^" -> AtLeast(w, v) /\ Less(w, <<v[1] + 1, 0, 0>>)
       [] t.op = "~" -> AtLeast(w, v) /\ Less(w, <<v[1], v[2] + 1, 0>>)
       [] t.op \in {"=", ""} -> IF t.x THEN \A i \in 1 .. Len(t.v) : w[i] = t.v[i] ELSE w = v
       [] t.op = ">=" -> AtLeast(w, v)
       [] t.op = ">" -> Less(v, w)
       [] t.op = "<=" -> AtLeast(v, w)
       [] t.op = "<" -> Less(w, v)

\* Variant: only the first version of the major is tried.
Tried_First(major) == {<<major, 0, 0>>}

\* The versions _node_clause_satisfies tries.
Tried(major) == {<<major, 0, 0>>, <<major, Top, Top>>}

\* _node_clause_satisfies: a token that cannot be parsed rejects its clause.
ClauseSatisfies(major, clause) ==
  /\ \A t \in clause : t.plain
  /\ \E w \in Tried(major) : \A t \in clause : SpecifierAdmits(t, w)

\* _node_major_satisfies: an alternative that is empty is passed over.
MajorSatisfies(major, range) ==
  \E clause \in range : clause # {} /\ ClauseSatisfies(major, clause)

-----------------------------------------------------------------------------
(* What a range means to npm, for majors above 0: numbers that are left    *)
(* out stand for any, and an empty alternative for every version.          *)

\* The first version after those that v, its last number included, stands for.
After(v) ==
  CASE Len(v) = 1 -> <<v[1] + 1, 0, 0>>
    [] Len(v) = 2 -> <<v[1], v[2] + 1, 0>>
    [] Len(v) = 3 -> <<v[1], v[2], v[3] + 1>>

Admits(t, w) ==
  LET v == Complete(t.v)
  IN CASE t.op = "*" -> TRUE
       [] t.op \in {"=", ""} -> AtLeast(w, v) /\ Less(w, After(t.v))
       [] t.op = "^" -> AtLeast(w, v) /\ Less(w, <<v[1] + 1, 0, 0>>)
       [] t.op = "~" -> /\ AtLeast(w, v)
                        /\ Less(w, IF Len(t.v) = 1 THEN After(t.v) ELSE After(<<v[1], v[2]>>))
       [] t.op = ">=" -> AtLeast(w, v)
       [] t.op = ">" -> AtLeast(w, After(t.v))
       [] t.op = "<=" -> Less(w, After(t.v))
       [] t.op = "<" -> Less(w, v)

Means(clause, w) == \A t \in clause : Admits(t, w)

Allows(range, w) == \E clause \in range : Means(clause, w)

\* The alternatives the code does not leave aside.
Legible(clause) == clause # {} /\ \A t \in clause : t.plain

\* The code takes the numbers that are left out for zeros.
Narrowed(t) ==
  t.op \in {"=", "", "~", "<="} /\ Len(t.v) < 3 /\ ~(t.x /\ t.op \in {"=", ""})

VersionsOf(major) == {<<major, minor, patch>> : minor \in 0 .. Top, patch \in 0 .. Top}

=============================================================================
