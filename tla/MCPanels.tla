------------------------------ MODULE MCPanels ------------------------------
(* One room is enough for an invite that is withdrawn and sent again.      *)
EXTENDS Panels
=============================================================================
