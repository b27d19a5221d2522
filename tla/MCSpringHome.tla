---------------------------- MODULE MCSpringHome ----------------------------
(* Instances of SpringHome for TLC; the bounds are in the .cfg file.       *)
EXTENDS SpringHome

\* A file, and a directory with a file in it and something that is neither.
MCPaths   == {"rc", "maps", "map", "link"}
MCParent  == [p \in MCPaths |-> IF p \in {"rc", "maps"} THEN "root" ELSE "maps"]
Usual     == [p \in MCPaths |->
                 IF p = "maps" THEN "dir" ELSE IF p = "link" THEN "none" ELSE "file"]
MCPackages == {Usual, [Usual EXCEPT !["link"] = "special"]}

\* Nothing there yet, a directory, a file in the place of one, or the reverse.
Empty     == [p \in MCPaths |-> "none"]
MCPresent == {Empty, [Empty EXCEPT !["maps"] = "dir", !["map"] = "old"],
              [Empty EXCEPT !["maps"] = "old"], [Empty EXCEPT !["rc"] = "dir"]}
=============================================================================
