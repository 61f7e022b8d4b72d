------------------------------ MODULE Wireless ------------------------------
(***************************************************************************)
(* The sketches that drive a radio, each from its own start: one that      *)
(* makes every call of the ESP8266's station and access point, one that    *)
(* leaves the connection to ESP8266WiFiMulti, and one that has the WiFi    *)
(* shield instead.                                                         *)
(***************************************************************************)
EXTENDS WiFiStation, WiFiMulti, Shield

VARIABLE family

stationOnly == <<saved, handlers, held, wps, before, cycle, requests>>
multiOnly == <<scan, list, call>>
wirelessVars == <<radio, stationOnly, multiOnly, shieldVars, family>>

NoStation ==
    /\ saved = NothingSaved /\ before = Fresh /\ cycle = "awake"
    /\ handlers = {} /\ held = {} /\ wps = FALSE /\ requests = 0
NoMulti == scan = NoScan /\ list = <<>> /\ call = Idle

WirelessInit ==
    /\ ShieldInit
    /\ \/ family = "station" /\ StationInit /\ NoMulti
       \/ family = "multi" /\ MultiInit /\ NoStation
       \/ family = "shield" /\ radio = Fresh /\ NoStation /\ NoMulti

WirelessNext ==
    /\ UNCHANGED family
    /\ \/ family = "station" /\ StationNext /\ UNCHANGED <<multiOnly, shieldVars>>
       \/ family = "multi" /\ MultiNext /\ UNCHANGED <<stationOnly, shieldVars>>
       \/ family = "shield" /\ ShieldNext /\ UNCHANGED <<radio, stationOnly, multiOnly>>

\* Every wait of run() is an esp_delay with a timeout, and every loop of the
\* shield's library goes on; its exchanges end if the shield is ever ready.
WirelessSpec ==
    /\ WirelessInit /\ [][WirelessNext]_wirelessVars
    /\ WF_multiVars(family = "multi" /\ Waits)
    /\ WF_shieldVars(family = "shield" /\ Steps)

\* The networks of TLC's instance: two access points of one of them.
McNets == {<<"n1", "b1">>, <<"n1", "b2">>}
=============================================================================
