----------------------------- MODULE MCPipeline ----------------------------
(***************************************************************************)
(* Values for the pools of Pipeline: the smallest channels, and either one *)
(* thread in each pool or two readers that share everything else.          *)
(***************************************************************************)
EXTENDS Pipeline

OneThreadEach == [pool \in Pools |-> 1]
OneItemEach == [pool \in Pools |-> 1]
TwoReaders == [pool \in Pools |-> IF pool = "reader" THEN 2 ELSE 1]

Staged(m, t) == [mode |-> m, scratch |-> TRUE, blocks |-> 1, threads |-> t]
Direct(m) == [mode |-> m, scratch |-> FALSE, blocks |-> 2, threads |-> OneThreadEach]

\* With scratch, files compete for space; without, for every thread and channel, which
\* takes a second block.
AllSetups == {Staged("compress", TwoReaders), Staged("reading", OneThreadEach),
              Direct("compress"), Direct("manual"), Direct("reading")}
OneStaged == {Staged("compress", OneThreadEach)}
=============================================================================
