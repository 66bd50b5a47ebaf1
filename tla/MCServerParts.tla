---------------------------- MODULE MCServerParts ----------------------------
\* Two accounts, two devices and two kinds of content for the parts of the server.
EXTENDS ServerParts, TLC

CONSTANTS small, large    \* the contents of ServerHistory

\* A cap of 3 holds one content of each size, or three small ones.
MCSizes == small :> 1 @@ large :> 2

Setting(enabled, incremental, full, days, cap) ==
    [enabled |-> enabled, incremental |-> incremental, full |-> full, days |-> days, cap |-> cap]

MCPolicies == {Setting(FALSE, TRUE, FALSE, 2, 3), Setting(TRUE, TRUE, TRUE, 0, 0)}

=============================================================================
