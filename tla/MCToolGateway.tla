---------------------------- MODULE MCToolGateway ----------------------------
(***************************************************************************)
(* A small instance of ToolGateway for TLC: one request of each kind the   *)
(* policy and the handlers tell apart.                                     *)
(***************************************************************************)
EXTENDS ToolGateway

Ask(tool, arguments, authenticated, scopes, confirmed) ==
  [tool |-> tool, arguments |-> arguments,
   context |-> [authenticated |-> authenticated, scopes |-> scopes,
                confirmed |-> confirmed]]

MCRequests ==
  {Ask(TicketTool, "valid", TRUE, Scopes, TRUE),              \* the browser's
   Ask(TicketTool, "valid", TRUE, {"tickets:write"}, TRUE),   \* the MCP host's
   Ask(TicketTool, "valid", TRUE, Scopes, FALSE),             \* not confirmed
   Ask(TicketTool, "valid", TRUE, {"accounts:read"}, TRUE),   \* lacks the scope
   Ask(TicketTool, "valid", FALSE, Scopes, TRUE),             \* nobody's
   Ask(TicketTool, "invalid", TRUE, Scopes, TRUE),
   Ask(TicketTool, "unhashable", TRUE, Scopes, TRUE),
   Ask(StatusTool, "valid", TRUE, {"accounts:read"}, FALSE),
   Ask(StatusTool, "unhashable", TRUE, Scopes, FALSE),
   Ask(UnknownTool, "valid", TRUE, Scopes, FALSE)}
================================================================================
