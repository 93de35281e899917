------------------------- MODULE MCDirectoryScanner -------------------------
(* A root with two directories, one of them with a directory that lies too *)
(* deep, and a PE file at each level.                                      *)
EXTENDS DirectoryScanner, TLC

CONSTANTS root, a, b, c, p, q, r, t1, t2, t3

TreeDirs  == {root, a, b, c}
TreeFiles == {p, q, r}
TreeParent ==
  (a :> root) @@ (b :> root) @@ (c :> a) @@ (p :> a) @@ (q :> b) @@ (r :> c)

Threads == {t1, t2, t3}
=============================================================================
