----------------------------- MODULE MCPtOffload -----------------------------
(* PtOffload for TLC: one request of each kind and two writers of other      *)
(* partitions, the bounds of MCPtOffload.cfg.                                *)
EXTENDS PtOffload

MCUsers == {"u1", "u2", "u3", "u4", "u5"}
MCKind == [u \in MCUsers |->
              CASE u = "u1" -> "request"
                [] u = "u2" -> "sweep"
                [] u = "u3" -> "write"
                [] u = "u4" -> "raft"
                [] u = "u5" -> "select"]
MCOthers == {"o1", "o2"}
==============================================================================
