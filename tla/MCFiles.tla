------------------------------ MODULE MCFiles -------------------------------
EXTENDS Files, TLC
CONSTANTS p1, p2
MCPaths == {"/", "/d", "/d/x", "/a"}
MCParent == [q \in MCPaths \ {"/"} |-> IF q = "/d/x" THEN "/d" ELSE "/"]
Path(op, abs, q) == [op |-> op, abs |-> abs, goal |-> q, goal2 |-> None]
Disk(d, x, a) == [q \in MCPaths |-> CASE q = "/" -> "dir" [] q = "/d" -> d
                                      [] q = "/d/x" -> x [] q = "/a" -> a]
MCDisks == {Disk("dir", "file", "none"), Disk("file", "none", "file"),
            Disk("none", "none", "file")}
Symmetry == Permutations({p1, p2})
MCCalls ==
  {Path("open", FALSE, "/d/x"), Path("creat", TRUE, "/a"),
   Path("mkdir", TRUE, "/d"), Path("chdir", TRUE, "/d"),
   Path("unlink", TRUE, "/a"),
   [op |-> "rename", abs |-> TRUE, goal |-> "/a", goal2 |-> "/d/x"]}
=============================================================================
