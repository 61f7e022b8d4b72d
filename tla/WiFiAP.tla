------------------------------- MODULE WiFiAP -------------------------------
(***************************************************************************)
(* The soft access point, ESP8266WiFiAP.cpp: its network, its address and  *)
(* the leases it gives.                                                    *)
(***************************************************************************)
EXTENDS WiFiGeneric

DefaultIp == "192.168.4.1"

ApLong == "too long"

\* wifi_softap_set_config, wifi_softap_set_config_current
SetAp(r, conf) ==
    [r EXCEPT !.ap = conf, !.flashAp = IF r.persistent THEN conf ELSE @]

ApCompared(r) == IF r.persistent THEN r.flashAp ELSE r.ap

(* softAPConfig: every request is made even if an earlier one is refused;  *)
(* the addresses leased follow the point's own.                            *)
SoftAPConfig(r, ip) ==
    LET given(x) == [x EXCEPT !.apIp = ip, !.lease = ip]
        leaseOnly(x) == [x EXCEPT !.lease = ip]
    IN After(EnableAP(r, TRUE),
             LAMBDA x :
                 IF ip = ApLong THEN {Result(FALSE, x)}
                 ELSE {Result(TRUE, given(x))}
                      \union {Result(FALSE, leaseOnly(y)) : y \in Refused(x)}
                      \union {Result(FALSE, given(y)) : y \in Refused(x)},
             LAMBDA x : {Result(FALSE, x)})

\* The end of softAP: an address, if there is none yet.
Addressed(r) ==
    IF r.apIp # None THEN {Result(TRUE, r)} ELSE SoftAPConfig(r, DefaultIp)

SoftAP(r, ssid, pass) ==
    LET conf == [ssid |-> ssid, pass |-> pass]
        set(x) == IF ApCompared(x) = conf THEN {Result(TRUE, x)}
                  ELSE {Result(TRUE, SetAp(x, conf))} \union {Result(FALSE, y) : y \in Refused(x)}
        refused(x) == {Result(FALSE, x)}
    IN After(EnableAP(r, TRUE),
             LAMBDA x : IF ssid \in {None, ApLong} \/ pass = ApLong THEN refused(x)
                        ELSE After(set(x), Addressed, refused),
             refused)

SoftAPDisconnect(r, wifioff) ==
    After({Result(TRUE, SetAp(r, NoAp))} \union {Result(FALSE, x) : x \in Refused(r)},
          LAMBDA x : IF wifioff THEN EnableAP(x, FALSE) ELSE {Result(TRUE, x)},
          LAMBDA x : {Result(FALSE, x)})
=============================================================================
