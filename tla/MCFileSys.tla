----------------------------- MODULE MCFileSys -----------------------------
(***************************************************************************)
(* Two processes, four inodes on the disk and three in the cache.          *)
(***************************************************************************)
EXTENDS FileSys, TLC

CONSTANTS p1, p2

MCProc == {p1, p2}
Symmetry == Permutations(MCProc)

\* The system begins with one or both processes in the root and nothing, a file or
\* an empty directory in it; ...
Node(type, parent, name) == [type |-> type, parent |-> parent, name |-> name]
Root == Node("dir", ROOTINO, "/")
MCSmall ==
  [node : {<<Root>>, <<Root, Node("file", 1, "a")>>, <<Root, Node("dir", 1, "a")>>, <<Root, Node("file", 1, "b")>>},
   cached : {<<ROOTINO>>}, cwd : {c \in [MCProc -> {0, 1}] : \E p \in MCProc : c[p] = 1}, open : {0}]

\* ... with one process in the root and the other in a directory two levels down; ...
MCNested ==
  [node : {<<Root, Node("dir", 1, "a"), Node("dir", 2, "b")>>}, cached : {<<ROOTINO, 3>>},
   cwd : {c \in [MCProc -> {1, 2}] : c[p1] /= c[p2]}, open : {0}]

\* ... or with both in the root, sharing an open file.
MCShared ==
  [node : {<<Root, Node("file", 1, "a")>>}, cached : {<<ROOTINO, 2>>},
   cwd : {[p \in MCProc |-> 1]}, open : {2}]

MCStart == MCSmall \cup MCNested \cup MCShared

Call(op, path) == [NoLocal EXCEPT !.op = op, !.path = path, !.write = (op = "creat")]

MCCalls ==
  {Call(op, <<"/", "a">>) : op \in {"creat", "open", "mkdir", "unlink", "chdir"}}
    \cup {Call(op, <<"/", "a", "b">>) : op \in {"creat", "mkdir", "unlink"}}
    \cup {Call("open", <<"b">>), Call("open", <<"..">>), Call("chdir", <<"/">>), Call("unlink", <<"/", "b">>),
          [Call("link", <<"/", "a">>) EXCEPT !.new = <<"/", "b">>],
          Call("mknod", <<"/", "b">>),
          [Call("open", <<"/", "a">>) EXCEPT !.write = TRUE]}

=============================================================================
