------------------------- MODULE MCContainerManager -------------------------
(* Instances of ContainerManager for TLC.                                  *)
EXTENDS ContainerManager

CONSTANTS r1, r2, f1

Cmd(t)     == [type |-> t, src |-> NoArg, dest |-> NoArg]
Copy(s, d) == [type |-> "backup", src |-> s, dest |-> d]

\* A server as the README describes it, with two data directories: save, wait
\* and copy; a command the loop does not know; an exec at stop.
Full == [managed |-> TRUE, image |-> TRUE,
         stop   |-> <<Cmd("attach"), Cmd("exec"), Cmd("log")>>,
         backup |-> <<Cmd("attach"), Cmd("sleep"), Copy("s1", "d1"), Cmd("exec"), Copy("s2", "d2")>>]

\* Only the copy, so that concurrent runs stay small.
Slim == [managed |-> TRUE, image |-> TRUE, stop |-> <<Cmd("exec")>>,
         backup |-> <<Copy("s1", "d1")>>]

FullConfigs == {Full, Unmanaged}
SlimConfigs == {Slim}

OneSrc  == {"s1"}
TwoSrcs == {"s1", "s2"}
OneDest == {"d1"}
TwoDests == {"d1", "d2"}
AllOps  == Operations
DataOps == {"start", "backup", "restore"}
BackupOnly == {"backup"}
NoRestore == Operations \ {"restore"}
=============================================================================
