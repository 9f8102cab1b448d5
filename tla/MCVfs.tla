------------------------------- MODULE MCVfs -------------------------------
(***************************************************************************)
(* Bounds for TLC.  The root image has a directory with a file and a       *)
(* directory below it, /sbin/init, and the node of a memory block; the     *)
(* other image has a file and the node of a device nobody registered.      *)
(* Three entries are free, and each of two processes has two free          *)
(* descriptors, so both tables fill up.                                    *)
(***************************************************************************)
EXTENDS Vfs

CONSTANTS rom, disk

MCDevice == {rom, disk}
MCIno    == 0 .. 4

\* rom:  0 /, 1 /d, 2 /d/f (init), 3 /d/e, 4 /b;  disk: 0 /, 1 /f, 2 /n
MCKind ==
  [d \in MCDevice |->
     IF d = rom THEN [i \in MCIno |-> CASE i \in {0, 1, 3} -> "dir" [] i = 2 -> "file" [] OTHER -> "dev"]
     ELSE [i \in MCIno |-> CASE i = 0 -> "dir" [] i = 2 -> "dev" [] OTHER -> "file"]]

MCSize == [d \in MCDevice |-> [i \in MCIno |-> IF d = rom THEN 2 ELSE 1]]
MCRdev == [d \in MCDevice |-> [i \in MCIno |-> IF d = rom THEN 102 ELSE 101]]
MCBlockSize == [b \in {102} |-> 1]

MCChild ==
  [d \in MCDevice |->
     [i \in MCIno |->
        CASE d = rom /\ i = 0 -> [d |-> 1, b |-> 4]
          [] d = rom /\ i = 1 -> [f |-> 2, e |-> 3]
          [] d = disk /\ i = 0 -> [f |-> 1, n |-> 2]
          [] OTHER -> <<>>]]

MCMountPaths == {<<"d", "e">>, <<"d">>, <<"d", "f">>}

MCPaths ==
  {<<"d", "f">>, <<"d", "e", "f">>, <<"d", "e", "n">>, <<"b">>, <<"d">>}

(* For path resolution alone: every path of up to four components.  One     *)
(* of the mounts covers the root of what is mounted on /d/e.                *)
AllPaths == UNION {[1 .. n -> {Nothing, "d", "e", "f", "x"}] : n \in 1 .. 4}

AllMountPaths ==
  MCMountPaths \cup {<<"d", "e", "f">>, <<"d", "e", Nothing, Nothing>>}
=============================================================================
