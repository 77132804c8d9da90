---------------------------- MODULE MCShmemTool -----------------------------
(* A producer and nv_shmem_tool, both creators of the same namespace.      *)
EXTENDS ShmemMap, TLC

CONSTANTS producer, tool, w1, wt

\* w1 is a thread of the producer, wt the only thread of the tool.
MCHome == (w1 :> producer) @@ (wt :> tool)

=============================================================================
