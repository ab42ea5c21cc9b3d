-------------------------- MODULE MCControlPlane --------------------------
(* ControlPlane with one picking connection, the MCP server, one admin     *)
(* connection and one task that adds transports.                           *)
EXTENDS ControlPlane, TLC

CONSTANTS t1, p1, mcp, a1, o1

MCIdOf == t1 :> "socks5-us"
MCPool == <<t1>>
===========================================================================
