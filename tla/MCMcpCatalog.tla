---------------------------- MODULE MCMcpCatalog ----------------------------
(* Instances of McpCatalog for TLC. *)
EXTENDS McpCatalog

CONSTANT Broken     \* a server whose second catalog cannot be registered

BadCatalogs == [k \in ToolKeys |-> IF k = Broken THEN {2} ELSE {}]
=============================================================================
