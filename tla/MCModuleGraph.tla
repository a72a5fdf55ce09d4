--------------------------- MODULE MCModuleGraph ---------------------------
(* Every program of at most three modules with few imports.                *)
EXTENDS ModuleGraph

CONSTANTS MaxStatic, MaxDynamic   \* bounds: how many imports of each kind

MCModule == 1..3
MCDir == <<"lib", "app", "app">>

Lists == {s \in UNION {[1..n -> MCModule] : n \in 0..2} : \A i, j \in DOMAIN s : s[i] = s[j] => i = j}
Imports(max) ==
    {f \in [MCModule -> Lists] : Len(f[1]) + Len(f[2]) + Len(f[3]) <= max}
MCGraphs == {g \in [static : Imports(MaxStatic), dynamic : Imports(MaxDynamic)] :
    \A m \in MCModule \ Needs({Entry}, AllDeps(g)) : AllDeps(g)[m] = <<>>}
=============================================================================
