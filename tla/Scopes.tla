------------------------------- MODULE Scopes -------------------------------
(***************************************************************************)
(* What a compiled module offers to its importers (sema/module_scope.go,   *)
(* module_prefix.go).  A name is a sequence, <<"p", "x">> for p.x.  Data   *)
(* are [val, ver]: the value and the statement that made it, since a step  *)
(* sees the data as they were at its place.  A scope is a record:          *)
(*   program   the file, "" for none                                       *)
(*   locals    what selective imports may take: name -> data               *)
(*   exports   what a namespace import takes: name -> data                 *)
(*   bindings  a sequence of name -> data: first the final data, then the  *)
(*             data of every block's snapshot                              *)
(*   dos       the do blocks: [name, file, at, after, with], where with     *)
(*             gives expressions and aliases                               *)
(*   blocks    the snapshots, by the key of the block                      *)
(*   index     the snapshots, by the statement                             *)
(* A snapshot is [values, bindings], both of them functions of names.      *)
(***************************************************************************)
EXTENDS Tables, TLC

EmptyScope ==
  [program |-> "", locals |-> Nothing, exports |-> Nothing, bindings |-> <<>>,
   dos |-> <<>>, blocks |-> Nothing, index |-> Nothing]

\* The key of a block: its kind, name, file and place (blockSnapshotKey).
Key(kind, name, file, at) == <<kind, name, file, at>>

-----------------------------------------------------------------------------
(***************************************************************************)
(* prefixModuleScope: everything the scope knows, under an alias.          *)
(***************************************************************************)
PrefixNames(p, f) == [n \in {<<p>> \o m : m \in DOMAIN f} |-> f[Tail(n)]]

PrefixSnapshot(p, s) == [values |-> PrefixNames(p, s.values), bindings |-> PrefixNames(p, s.bindings)]

\* The snapshots keep the keys they had in their own module.
PrefixKeyBug(p, k) == k

PrefixKey(p, k) == [k EXCEPT ![2] = <<p>> \o @]

\* prefixWithExprRoot: of an index only the base.
RECURSIVE PrefixRoot(_, _)
PrefixRoot(p, e) ==
  CASE e.node = "name"  -> [e EXCEPT !.name = <<p>> \o @]
    [] e.node = "index" -> [e EXCEPT !.of = PrefixRoot(p, @)]
    [] OTHER            -> e

PrefixDo(p, b) ==
  [b EXCEPT !.name = <<p>> \o @,
            !.after = [i \in DOMAIN @ |-> <<p>> \o @[i]],
            !.with = [i \in DOMAIN @ |-> [@[i] EXCEPT !.expr = PrefixRoot(p, @)]]]

PrefixScope(p, s) ==
  [program  |-> "",
   locals   |-> PrefixNames(p, s.locals),
   exports  |-> PrefixNames(p, s.exports),
   bindings |-> [i \in DOMAIN s.bindings |-> PrefixNames(p, s.bindings[i])],
   dos      |-> [i \in DOMAIN s.dos |-> PrefixDo(p, s.dos[i])],
   blocks   |-> LET source(k) == CHOOSE j \in DOMAIN s.blocks : PrefixKey(p, j) = k
                IN [k \in {PrefixKey(p, j) : j \in DOMAIN s.blocks} |->
                     PrefixSnapshot(p, s.blocks[source(k)])],
   index    |-> [i \in DOMAIN s.index |-> PrefixSnapshot(p, s.index[i])]]

-----------------------------------------------------------------------------
(***************************************************************************)
(* mergeModuleScope: a scope with what an imported one adds.  What the     *)
(* importer has already is kept; a do block whose name is taken is left    *)
(* out, silently.  The analyse blocks of an imported module are not        *)
(* merged.                                                                 *)
(***************************************************************************)
\* The data of a layer that no layer has in the same version.
NewBindings(layers, layer) ==
  LET known(n) == \E i \in DOMAIN layers :
                    n \in DOMAIN layers[i] /\ layers[i][n].ver = layer[n].ver
      new == {n \in DOMAIN layer : ~known(n)}
  IN [n \in new |-> layer[n]]

MergeScope(dst, src) ==
  [dst EXCEPT
     !.exports  = @ @@ src.exports,
     !.bindings = FoldLeft(LAMBDA layers, layer : Append(layers, NewBindings(layers, layer)),
                           @, src.bindings),
     !.dos      = FoldLeft(LAMBDA dos, b : IF \E i \in DOMAIN dos : dos[i].name = b.name
                                           THEN dos ELSE Append(dos, b),
                           @, src.dos),
     !.blocks   = @ @@ src.blocks,
     !.index    = @ @@ src.index]

(***************************************************************************)
(* snapshotForDoBlock: the snapshot of a block of a scope, by its key, or  *)
(* else by its place when it is a statement of the scope's own file; a     *)
(* set of at most one.                                                     *)
(***************************************************************************)
SnapshotOf(scope, b) ==
  LET key == Key("do", b.name, b.file, b.at)
  IN IF key \in DOMAIN scope.blocks THEN {scope.blocks[key]}
     ELSE {scope.index[i] : i \in {b.at} \cap (IF b.file = scope.program THEN DOMAIN scope.index ELSE {})}
=============================================================================
