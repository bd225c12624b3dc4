--------------------------- MODULE MCDeviceCommands ---------------------------
(* Finite instances of DeviceCommands. *)
EXTENDS DeviceCommands

CONSTANTS w1, w2

\* One request that serves the agents, one that serves agents and administrators.
Split == [w \in Servers |-> IF w = w1 THEN {"poll", "revoke"}
                         ELSE {"tell", "create", "list", "order", "policy"}]
=============================================================================
