--------------------------- MODULE MCToolDispatch ---------------------------
(***************************************************************************)
(* Instances of ToolDispatch: a few calls under ids that the server may    *)
(* announce again, one tool of every kind the matrix tells apart, and an   *)
(* MCP server that is launched twice.                                      *)
(***************************************************************************)
EXTENDS ToolDispatch

CONSTANTS a, b

MCId      == {a, b}
MCMcpTool == {"mcp"}
MCTool    == {"Read", "Edit", "Write", "Git", "mcp"}

Ids == Permutations(MCId)
=============================================================================
