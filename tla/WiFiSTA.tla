------------------------------ MODULE WiFiSTA ------------------------------
(***************************************************************************)
(* The station, ESP8266WiFiSTA.cpp: the network it is configured for, its  *)
(* address, and the ways a user is led to one (SmartConfig, WPS).          *)
(***************************************************************************)
EXTENDS WiFiGeneric

CONSTANT Bssids  \* external: access points

Conf(ssid, pass, bssid) == [ssid |-> ssid, pass |-> pass, bssid |-> bssid]

(* Chips that boot with some network in flash, or with none.               *)
Starts(atBoot) ==
    LET held == {NoConf} \union {Conf(s, p, None) : s \in Ssids, p \in Passes}
    IN {Boots([Fresh EXCEPT !.flashConf = c], atBoot) : c \in held}

TooLong == "too long"   \* more than 32 characters of a name, 64 of a passphrase

WlStatus(r) ==
    CASE r.status = "GOT_IP" -> "CONNECTED"
      [] r.status = "NO_AP_FOUND" -> "NO_SSID_AVAIL"
      [] r.status = "CONNECT_FAIL" -> "CONNECT_FAILED"
      [] r.status = "WRONG_PASSWORD" -> "WRONG_PASSWORD"
      [] r.status = "IDLE" -> "IDLE_STATUS"
      [] OTHER -> NoWord

\* wifi_station_set_config, wifi_station_set_config_current
SetConfig(r, conf) ==
    [r EXCEPT !.conf = conf, !.flashConf = IF r.persistent THEN conf ELSE @]

(* The comparison is with what is in flash if settings are persistent, and *)
(* with what is in force otherwise.                                        *)
Compared(r) == IF r.persistent THEN r.flashConf ELSE r.conf

Dhcp(r) == IF r.useStaticIp THEN r ELSE [r EXCEPT !.dhcp = TRUE]
MaybeConnect(r, connect) == IF connect THEN StationConnect(r) ELSE r
Report(r) == Result(WlStatus(r), r)

Configured(r, conf) == IF Compared(r) = conf THEN r ELSE SetConfig(r, conf)

Begin(r, ssid, pass, bssid, connect) ==
    LET refused(x) == {Result("CONNECT_FAILED", x)}
        go(x) == {Report(Dhcp(MaybeConnect(Configured(x, Conf(ssid, pass, bssid)), connect)))}
    IN After(EnableSTA(r, TRUE),
             LAMBDA x : CASE ssid \in {None, TooLong} -> refused(x)
                          [] ssid \notin {None, TooLong} /\ pass = TooLong -> {Result("WRONG_PASSWORD", x)}
                          [] OTHER -> go(x),
             refused)

\* begin(): whatever network the SDK holds.
BeginSaved(r) ==
    After(EnableSTA(r, TRUE),
          LAMBDA x : {Report(Dhcp(StationConnect(x)))},
          LAMBDA x : {Result("CONNECT_FAILED", x)})

(* config(): all zero means DHCP; an address that cannot be put in order   *)
(* with its gateway and mask is refused; otherwise the address is fixed.   *)
Config(r, address) ==
    LET stopped(x) == [x EXCEPT !.dhcp = FALSE]
        fixed(x) == [stopped(x) EXCEPT !.useStaticIp = TRUE, !.ip = address]
    IN After(EnableSTA(r, TRUE),
             LAMBDA x :
                 CASE address = None -> {Result(TRUE, [x EXCEPT !.useStaticIp = FALSE, !.dhcp = TRUE])}
                   [] address = TooLong -> {Result(FALSE, x)}
                   [] OTHER -> {Result(TRUE, fixed(x))}
                               \union {Result(FALSE, stopped(y)) : y \in Refused(x)},
             LAMBDA x : {Result(FALSE, x)})

Reconnect(r) ==
    IF "STA" \notin r.mode THEN {Result(FALSE, r)}
    ELSE {Result(TRUE, StationConnect(StationDisconnect(r)))}
         \union {Result(FALSE, x) : x \in Refused(r)}
         \union {Result(FALSE, StationDisconnect(x)) : x \in Refused(r)}

\* disconnect(wifioff): the name and the passphrase are cleared.
Disconnect(r, wifioff) ==
    LET left == IF "STA" \in r.mode
                THEN {Result(TRUE, StationDisconnect(r))} \union {Result(FALSE, x) : x \in Refused(r)}
                ELSE {Result(TRUE, r)}
        cleared(x) == Result(x.back, SetConfig(x.radio, NoConf))
        off(x) == IF wifioff THEN {Result(x.back, y.radio) : y \in EnableSTA(x.radio, FALSE)} ELSE {x}
    IN UNION {off(cleared(x)) : x \in left}

\* external: what becomes of a connection, made or being made.
Reached(r) ==
    [r EXCEPT !.status = "GOT_IP", !.ip = IF r.useStaticIp THEN @ ELSE "leased"]
LinkOutcomes(r) ==
    CASE r.status = "CONNECTING" ->
             {Reached(r)} \union {[r EXCEPT !.status = s] :
                                  s \in {"NO_AP_FOUND", "WRONG_PASSWORD", "CONNECT_FAIL"}}
      [] r.status = "GOT_IP" -> {[StationDisconnect(r) EXCEPT !.status = "CONNECTING"]}
      [] OTHER -> {}

-----------------------------------------------------------------------------
(* SmartConfig: the SDK listens for a phone that tells it the network; the *)
(* sketch polls smartConfigDone.                                           *)
BeginSmartConfig(r) ==
    IF r.smartStarted THEN {Result(FALSE, r)}
    ELSE After(EnableSTA(r, TRUE),
               LAMBDA x : {Result(TRUE, [x EXCEPT !.smartStarted = TRUE, !.smartDone = FALSE])}
                          \union {Result(FALSE, y) : y \in Refused(x)},
               LAMBDA x : {Result(FALSE, x)})

StopSmartConfig(r) ==
    IF ~r.smartStarted THEN {Result(TRUE, r)}
    ELSE {Result(TRUE, [r EXCEPT !.smartStarted = FALSE])}
         \union {Result(FALSE, x) : x \in Refused(r)}

SmartConfigDone(r) == r.smartStarted /\ r.smartDone

\* _smartConfigCallback, SC_STATUS_LINK: stored in flash whatever persistent
\* says; and SC_STATUS_LINK_OVER.
SmartLink(r, conf) ==
    [StationConnect(StationDisconnect([r EXCEPT !.conf = conf, !.flashConf = conf]))
        EXCEPT !.smartDone = TRUE]
SmartLinkOver(r) == {x.radio : x \in StopSmartConfig(r)}

(* beginWPSConfig up to its suspension, and the callback that ends it.     *)
BeginWPSConfig(r) ==
    LET pending(x) == {Result(TRUE, x)} \union {Result(FALSE, y) : y \in Refused(x)}
    IN After(EnableSTA(r, TRUE),
             LAMBDA x : UNION {pending(y.radio) : y \in Disconnect(x, FALSE)},
             LAMBDA x : {Result(FALSE, x)})

WpsStatus(r, success, conf) ==
    IF success THEN StationConnect([r EXCEPT !.conf = conf, !.flashConf = conf]) ELSE r

(* One look of waitForConnectResult: a result, or go on.                   *)
ConnectResult(r) ==
    IF "STA" \notin r.mode THEN NoWord ELSE WlStatus(r)
WaitGoesOn(r) == "STA" \in r.mode /\ WlStatus(r) = NoWord
=============================================================================
