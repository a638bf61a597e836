--------------------------- MODULE WheelResolver ---------------------------
(***************************************************************************)
(* The choice of the wheels of the embedding runtime: from what the index  *)
(* lists, phase A resolves the pinned root package and everything it needs *)
(* (resolve_runtime_wheels_from_pypi, model_cache.py), and phase B accepts *)
(* the downloaded set only when it is closed under the requirements its    *)
(* wheels declare (validate_offline_wheel_closure).                        *)
(*                                                                         *)
(* A package is a number, in the order of the names; a version is a number *)
(* as well.  The requirements of a wheel are the ones active on the        *)
(* target, and a set of versions stands for their specifiers.  What the    *)
(* index says of a wheel is what its METADATA says.  The bounds on steps,  *)
(* requests, bytes and packages are not reached.                           *)
(***************************************************************************)
EXTENDS Naturals, FiniteSets, FiniteSetsExt

CONSTANTS Packages,  \* numbers, in the order of the canonical names
          Root,      \* fastembed, pinned to version 1
          Runtime,   \* onnxruntime
          MaxVersion \* bound: versions of a package

Versions == 1 .. MaxVersion

ASSUME ResolverAssumption ==
  Packages \subseteq Nat /\ IsFiniteSet(Packages) /\ {Root, Runtime} \subseteq Packages /\ MaxVersion \in Nat

Specifiers == [name : Packages, allows : SUBSET Versions]

\* A selection gives packages a version: 0 is not selected.
NoneSelected == [p \in Packages |-> 0]
Failed == [p \in Packages |-> MaxVersion + 1]
Selected(sel) == {p \in Packages : sel[p] # 0}

\* index[p][v] has a wheel that is usable on the target, or not, and what it needs.
Usable(index, p) == {v \in Versions : index[p][v].wheel}

\* The constraints on a package: the pin of the root, and what the selected need.
Pin == [name |-> Root, allows |-> {1}]
Constraints(index, sel) == {Pin} \union UNION {index[p][sel[p]].needs : p \in Selected(sel)}
Constrained(index, sel) == {c.name : c \in Constraints(index, sel)}
\* A plausible slip: no way back from the newest version that fits.
AllowedNewest(index, sel, p) ==
  LET fits == {v \in Usable(index, p) : \A c \in Constraints(index, sel) : c.name = p => v \in c.allows}
  IN  {v \in fits : \A w \in fits : w <= v}

Allowed(index, sel, p) ==
  {v \in Usable(index, p) : \A c \in Constraints(index, sel) : c.name = p => v \in c.allows}

\* A plausible slip: the constraints that came later are not held against the
\* versions selected before.
ConsistentRoot(index, sel) == sel[Root] \in {0, 1}

\* No selected version breaks a constraint that came later.
Consistent(index, sel) ==
  \A c \in Constraints(index, sel) : sel[c.name] # 0 => sel[c.name] \in c.allows

\* solve(): the first unresolved name gets its newest version that leads to a
\* solution.
Solve(index) ==
  LET solve[sel \in [Packages -> 0 .. MaxVersion]] ==
        LET open == Constrained(index, sel) \ Selected(sel)
            next == Min(open)
            good == {v \in Allowed(index, sel, next) : solve[[sel EXCEPT ![next] = v]] # Failed}
        IN  IF ~Consistent(index, sel) THEN Failed
            ELSE IF open = {} THEN sel
            ELSE IF good = {} THEN Failed
            ELSE solve[[sel EXCEPT ![next] = Max(good)]]
  IN  solve[NoneSelected]

\* The lock names the runtime as well as the root, or there is no candidate.
Resolve(index) ==
  LET sel == Solve(index)
  IN  IF sel = Failed \/ sel[Runtime] = 0 THEN Failed ELSE sel

-----------------------------------------------------------------------------
(* What phase B accepts *)

\* What a downloaded wheel says of itself.
Contract(index, sel, p) == [name |-> p, version |-> sel[p], needs |-> index[p][sel[p]].needs]

Needed(index, sel, p) == {c.name : c \in Contract(index, sel, p).needs}

Reachable(index, sel) ==
  LET after[n \in Nat] ==
        IF n = 0 THEN {Root}
        ELSE after[n - 1] \union UNION {Needed(index, sel, p) : p \in after[n - 1] \intersect Selected(sel)}
  IN  after[Cardinality(Packages)]

Closed(index, sel) ==
  /\ {Root, Runtime} \subseteq Selected(sel) /\ sel[Root] = 1
  /\ \A p \in Selected(sel) :
       /\ sel[p] \in Usable(index, p)
       /\ \A c \in Contract(index, sel, p).needs : sel[c.name] # 0 /\ sel[c.name] \in c.allows
  /\ Reachable(index, sel) = Selected(sel)
=============================================================================
