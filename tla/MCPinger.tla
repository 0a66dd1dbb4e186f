------------------------------- MODULE MCPinger -------------------------------
(* ping_limit's default is 3 (readConfig); three consecutive failures need *)
(* three Sends, each of which may meet an earlier, late reply.             *)
EXTENDS Pinger

MCPingLimit == 3
=============================================================================
