--------------------------- MODULE MCContainerJob ---------------------------
(* Instances of ContainerJob for TLC. *)
EXTENDS ContainerJob, TLC

CONSTANTS app, db, a, b

L(mode, kind, deps) == [mode |-> mode, kind |-> kind, deps |-> deps, source |-> "found"]
Paths(source) == [L("default", "exec", {}) EXCEPT !.source = source]

(* An application and the database it depends on. *)
Pair(x, y) == [s \in Service |-> IF s = app THEN x ELSE y]
Dump   == Pair(L("default", "none", {db}), L("dependentOffline", "exec", {}))
Both   == Pair(L("offline", "volumes", {db}), L("dependentOffline", "volumes", {}))
Web    == Pair(L("default", "volumes", {db}), L("dependentOffline", "exec", {}))
Mixed  == Pair(L("default", "volumes", {db}), L("offline", "volumes", {}))

(* A database whose paths are on no volume, with an application that can do
   without it, or whose own paths are above a volume. *)
Sourceless == Pair(L("default", "volumes", {}), Paths("none"))
Above      == Pair(Paths("above"), Paths("none"))
Pairs  == {Dump, Both, Mixed, Sourceless, Above}
Webs   == {Web, Sourceless, Above}
=============================================================================
