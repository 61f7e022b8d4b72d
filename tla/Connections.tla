----------------------------- MODULE Connections -----------------------------
(***************************************************************************)
(* The sketches that have connections, each from its own start: one with a *)
(* client that it connects itself, one with a server and the clients it    *)
(* hands out, one with datagrams.                                          *)
(***************************************************************************)
EXTENDS ClientContext, WiFiServer, UdpContext

VARIABLE sketch

connectionVars == <<contextVars, serverVars, udpVars, sketch>>

ConnectionsInit ==
    /\ sketch \in {"client", "server", "udp"}
    /\ ContextInit /\ ServerInit /\ UdpInit

ConnectionsNext ==
    /\ UNCHANGED sketch
    /\ \/ sketch = "client" /\ ContextNext /\ UNCHANGED <<serverVars, udpVars>>
       \/ sketch = "server" /\ ServerNext /\ UNCHANGED <<contextVars, udpVars>>
       \/ sketch = "udp" /\ UdpNext /\ UNCHANGED <<contextVars, serverVars>>

\* The fairness of ContextSpec: of the others nothing is asked.
ConnectionsSpec ==
    /\ ConnectionsInit /\ [][ConnectionsNext]_connectionVars
    /\ WF_contextVars(sketch = "client" /\ Resume) /\ WF_contextVars(sketch = "client" /\ Tick)

\* The packets of TLC's instance: in one buffer, and in two.
MCShapes == {<<1>>, <<1, 1>>}
=============================================================================
