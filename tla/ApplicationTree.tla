--------------------------- MODULE ApplicationTree ---------------------------
(***************************************************************************)
(* ServerApplicationsTree (src/src/server/ServerApplicationsTree.cpp): the *)
(* applications by the names of their hosts.  A name is the sequence of    *)
(* its parts between the dots.  A tree is the function that gives the      *)
(* app_sets of each of its nodes, and a node is the path of parts, the     *)
(* last part of a name first, that leads to it.                            *)
(***************************************************************************)
EXTENDS Integers, Sequences, SequencesExt

None == 0                             \* the null pointer; applications are positive

NewTree == [node \in { <<>> } |-> None]

\* An empty part stands for any: ".example.com".  The last part is taken as it is.
Parts(name) ==
  [i \in DOMAIN name |-> IF name[i] = "" /\ i < Len(name) THEN "*" ELSE name[i]]

\* The names of one application, one after the other: all of them get the same app_sets,
\* so that their order makes no difference.
addApplication(tree, names, sets) ==
  LET paths == { Reverse(Parts(name)) : name \in names }
  IN  [node \in DOMAIN tree \union UNION { Prefixes(path) : path \in paths } |->
         IF node \in paths THEN sets ELSE IF node \in DOMAIN tree THEN tree[node] ELSE None]

\* The search goes down as long as the exact part is there.  Where only "*" is, the
\* application of the node itself is taken, and not the one below "*" (line 127).
find(tree, name) ==
  LET path  == Reverse(name)
      depth == Max({ n \in 0 .. Len(path) : SubSeq(path, 1, n) \in DOMAIN tree })
      node  == SubSeq(path, 1, depth)
  IN  IF depth = Len(path) \/ Append(node, "*") \in DOMAIN tree THEN tree[node] ELSE None

\* The root's own application is not looked at: every name has a part.
collectApplicationSettings(tree) == { tree[node] : node \in DOMAIN tree \ { <<>> } } \ { None }
=============================================================================
