---------------------------- MODULE WiFiGeneric ----------------------------
(***************************************************************************)
(* The radio of the ESP8266 as ESP8266WiFiGeneric.cpp drives it: which     *)
(* interfaces are on, forced sleep, and whether settings go to flash.  An  *)
(* operator here is a function of the class: it takes the radio and gives  *)
(* the set of its possible outcomes, what it returns and the radio after   *)
(* it, for the vendor's SDK may refuse any request and then changes        *)
(* nothing.                                                                *)
(***************************************************************************)
EXTENDS Integers, Sequences, FiniteSets

CONSTANTS
    Ssids,       \* names of networks
    Passes,      \* passphrases
    MaxRefusals  \* bound: requests the SDK refuses in a behaviour

ASSUME RadioAssumption == MaxRefusals \in Nat

VARIABLE radio

Off == {}
None == "none"
NoConf == [ssid |-> None, pass |-> None, bssid |-> None]
NoAp == [ssid |-> None, pass |-> None]
NoWord == "DISCONNECTED"  \* what status() calls a state that is still going on

\* A chip that was never used.
Fresh ==
    [mode |-> Off, flashMode |-> {"STA"}, sleep |-> "MODEM", status |-> "IDLE",
     conf |-> NoConf, flashConf |-> NoConf, ap |-> NoAp, flashAp |-> NoAp,
     apIp |-> None, lease |-> None, ip |-> None, dhcp |-> FALSE, persistent |-> FALSE,
     useStaticIp |-> FALSE, lastMode |-> Off, smartStarted |-> FALSE,
     smartDone |-> FALSE, refusals |-> 0]

Result(back, r) == [back |-> back, radio |-> r]
Refused(r) ==
    IF r.refusals < MaxRefusals THEN {[r EXCEPT !.refusals = @ + 1]} ELSE {}

\* The outcomes of a step that goes on with Yes or No by what it returned.
After(results, Yes(_), No(_)) ==
    UNION {IF x.back THEN Yes(x.radio) ELSE No(x.radio) : x \in results}

(* What the SDK holds when the chip starts: the settings in flash, and the *)
(* radio asleep, or on if enableWiFiAtBootTime is linked in, which also    *)
(* makes settings persistent.                                              *)
Boots(r, atBoot) ==
    [r EXCEPT !.mode = IF atBoot THEN r.flashMode ELSE Off,
              !.sleep = IF atBoot THEN "NONE" ELSE "MODEM",
              !.conf = r.flashConf, !.ap = r.flashAp, !.apIp = None,
              !.status = "IDLE", !.ip = None, !.dhcp = FALSE,
              !.persistent = atBoot, !.useStaticIp = FALSE, !.lastMode = Off,
              !.smartStarted = FALSE, !.smartDone = FALSE]

-----------------------------------------------------------------------------
(* wifi_set_opmode and wifi_set_opmode_current: without the station there  *)
(* is no link.                                                             *)
Opmode(r, m) ==
    [r EXCEPT !.mode = m,
              !.flashMode = IF r.persistent THEN m ELSE @,
              !.status = IF "STA" \in m THEN @ ELSE "IDLE",
              !.ip = IF "STA" \in m THEN @ ELSE None]

\* wifi_fpm_do_wakeup, wifi_fpm_close
WakeUp(r) == [r EXCEPT !.sleep = "NONE"]

(* mode(): nothing to do, refused, reached, or given up after a second     *)
(* with the new mode in flash only.                                        *)
ModeIs(r, m) == r.mode = m /\ (r.persistent => r.flashMode = m)

Mode(r, m) ==
    LET woken == IF m # Off /\ r.sleep # "NONE" THEN WakeUp(r) ELSE r
        late(x) == [x EXCEPT !.flashMode = IF x.persistent THEN m ELSE @]
    IN IF ModeIs(r, m) THEN {Result(TRUE, r)}
       ELSE {Result(TRUE, Opmode(woken, m))}
            \union {Result(FALSE, x) : x \in Refused(woken)}
            \union {Result(FALSE, late(x)) : x \in Refused(woken)}

Enable(r, interface, on) ==
    IF (interface \in r.mode) = on THEN {Result(TRUE, r)}
    ELSE Mode(r, IF on THEN r.mode \union {interface} ELSE r.mode \ {interface})

EnableSTA(r, on) == Enable(r, "STA", on)
EnableAP(r, on) == Enable(r, "AP", on)

Persistent(r, on) == [r EXCEPT !.persistent = on]

\* wifi_station_connect and wifi_station_disconnect
StationConnect(r) ==
    [r EXCEPT !.status = IF "STA" \in r.mode /\ r.conf.ssid # None THEN "CONNECTING" ELSE "IDLE",
              !.ip = IF r.useStaticIp THEN @ ELSE None]
StationDisconnect(r) ==
    [r EXCEPT !.status = "IDLE", !.ip = IF r.useStaticIp THEN @ ELSE None]

-----------------------------------------------------------------------------
ForceSleepBegin(r) ==
    LET asleep(x) == [x EXCEPT !.sleep = "MODEM"]
    IN After(Mode([r EXCEPT !.lastMode = r.mode], Off),
             LAMBDA x : {Result(TRUE, asleep(x))}
                        \union {Result(FALSE, asleep(y)) : y \in Refused(x)},
             LAMBDA x : {Result(FALSE, x)})

ForceSleepWake(r) ==
    After(Mode(WakeUp(r), r.lastMode),
          LAMBDA x : {Result(TRUE, IF "STA" \in r.lastMode THEN StationConnect(x) ELSE x)},
          LAMBDA x : {Result(FALSE, x)})

SetSleepMode(r) ==
    {Result(TRUE, r)} \union {Result(FALSE, x) : x \in Refused(r)}
=============================================================================
