--------------------------- MODULE MCTranscoderEngine ---------------------------
(***************************************************************************)
(* One engine, a second thread that asks and terminates all,               *)
(* two processes, room for two zombies.                                    *)
(***************************************************************************)
EXTENDS TranscoderEngine

CONSTANTS t1, t2, e1

MCThreads == {t1, t2}
MCEngines == {e1}
MCUserOf == [e \in MCEngines |-> t1]
MCNoPid == 0
MCPids == 1 .. 2
MCMaxZombies == 2
=============================================================================
