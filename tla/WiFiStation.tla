---------------------------- MODULE WiFiStation ----------------------------
(***************************************************************************)
(* A sketch that configures the radio of the ESP8266: it sets modes, joins *)
(* and leaves networks, opens an access point, registers event handlers,   *)
(* and shuts the radio down over a sleep of the chip, with what resume     *)
(* needs in memory that outlives the sleep.  The SDK reports what becomes  *)
(* of a connection in between.                                             *)
(***************************************************************************)
EXTENDS WiFiSTA, WiFiAP

CONSTANTS
    MaxRequests, \* bound: calls of the sketch
    AtBoot       \* whether enableWiFiAtBootTime is linked in

ASSUME StationAssumption == MaxRequests \in Nat /\ AtBoot \in BOOLEAN

VARIABLES
    saved,     \* the WiFiState of shutdown and resumeFromShutdown
    handlers,  \* sCbEventList, by who registered them
    held,      \* those the sketch still holds, of onStationMode... and the like
    wps,       \* _wps_config_pending: beginWPSConfig is suspended
    before,    \* history: the radio when it was shut down
    cycle,     \* history: "down" by shutdown, "up" by resume, else a call since
    requests

stationVars == <<radio, saved, handlers, held, wps, before, cycle, requests>>

Blank == "ff:ff:ff:ff:ff:ff"   \* a bssid that is set, where the station had none

\* An invalid checksum is one that was counted on, or never computed.
NothingSaved ==
    [valid |-> FALSE, mode |-> Off, persistent |-> FALSE, conf |-> NoConf, ip |-> None]

StationInit ==
    /\ radio \in Starts(AtBoot)
    /\ saved = NothingSaved /\ before = Fresh /\ cycle = "awake"
    /\ handlers = {} /\ held = {} /\ wps = FALSE /\ requests = 0

-----------------------------------------------------------------------------
(* shutdown: settings stop being persistent first, so that a power failure *)
(* does not leave the chip with its radio off; what is saved is what was   *)
(* there before, the station's part only if there is a station.            *)
Saving(r, persistent) ==
    [valid |-> TRUE, mode |-> r.mode, persistent |-> persistent,
     conf |-> IF "STA" \in r.mode THEN [r.conf EXCEPT !.bssid = IF @ = None THEN Blank ELSE @]
              ELSE saved.conf,
     ip |-> IF "STA" \in r.mode THEN r.ip ELSE saved.ip]

BugShutdown(r) ==
    LET undone(x) == {y.radio : y \in Mode(Persistent(x, r.persistent), r.mode)}
    IN After(ForceSleepBegin(Persistent(r, FALSE)),
             LAMBDA x : {Result(TRUE, x)},
             LAMBDA x : {Result(FALSE, y) : y \in undone(x)})

Shutdown(r) ==
    LET undone(x) == {Persistent(y.radio, r.persistent) : y \in Mode(x, r.mode)}
    IN (IF "STA" \in r.mode THEN {Result(FALSE, x) : x \in Refused(r)} ELSE {})
       \union After(ForceSleepBegin(Persistent(r, FALSE)),
                    LAMBDA x : {Result(TRUE, x)},
                    LAMBDA x : {Result(FALSE, y) : y \in undone(x)})

(* resumeFromShutdown: the address the station had, leased or not, is made *)
(* its fixed address, and its network is the one it was in, by access      *)
(* point; what config returns is ignored.  An access point is not resumed. *)
Rejoined(r) ==
    LET addressed == IF saved.ip = None THEN {r} ELSE {x.radio : x \in Config(r, saved.ip)}
        joined(x) == Begin(x, saved.conf.ssid, saved.conf.pass, saved.conf.bssid, TRUE)
    IN UNION {{Result(y.back \notin {"CONNECT_FAILED", "WRONG_PASSWORD"}, y.radio) : y \in joined(x)}
              : x \in addressed}

BugResume(r) ==
    IF ~saved.valid THEN {Result(FALSE, WakeUp(r))}
    ELSE After(Mode(Persistent(WakeUp(r), saved.persistent), saved.mode),
               LAMBDA x : {Result("AP" \notin saved.mode, x)},
               LAMBDA x : {Result(FALSE, x)})

Resume(r) ==
    LET network(x) == IF "STA" \in saved.mode THEN Rejoined(x) ELSE {Result(TRUE, x)}
        noAp(x) == {Result("AP" \notin saved.mode, x)}
        failed(x) == {Result(FALSE, x)}
    IN IF ~saved.valid THEN failed(WakeUp(r))
       ELSE After(Mode(Persistent(WakeUp(r), saved.persistent), saved.mode),
                  LAMBDA x : After(network(x), noAp, failed),
                  failed)

-----------------------------------------------------------------------------
(* _eventCallback: a handler nobody else holds is dropped when the next    *)
(* event comes, unheard; those of onEvent, the deprecated way, stay.       *)
EventCallback ==
    /\ handlers' = {h \in handlers : h = "onEvent" \/ h \in held}
    /\ UNCHANGED held

NoEvent == UNCHANGED <<handlers, held>>

Event(r) ==
    /\ radio' = r /\ EventCallback
    /\ UNCHANGED <<saved, wps, before, cycle, requests>>

LinkEvent == \E r \in LinkOutcomes(radio) : Event(r)

(* A network that drops its encryption: reconnect at once.                 *)
Downgraded ==
    /\ radio.status = "GOT_IP"
    /\ \E x \in Reconnect(radio) : Event(x.radio)

SmartCallback ==
    /\ radio.smartStarted
    /\ \/ \E s \in Ssids, p \in Passes : radio' = SmartLink(radio, Conf(s, p, None))
       \/ radio' \in SmartLinkOver(radio)
    /\ UNCHANGED <<saved, handlers, held, wps, before, requests>> /\ cycle' = "awake"

WpsCallback ==
    /\ wps /\ wps' = FALSE
    /\ \E s \in Ssids, p \in Passes, success \in BOOLEAN :
           radio' = WpsStatus(radio, success, Conf(s, p, None))
    /\ UNCHANGED <<saved, handlers, held, before, requests>> /\ cycle' = "awake"

StationEvents ==
    LinkEvent \/ Downgraded \/ SmartCallback \/ WpsCallback

-----------------------------------------------------------------------------
Request == ~wps /\ requests < MaxRequests /\ requests' = requests + 1

Calling(results) ==
    /\ Request /\ NoEvent /\ cycle' = "awake" /\ wps' = FALSE
    /\ \E x \in results : radio' = x.radio
    /\ UNCHANGED <<saved, before>>

SetPersistent == \E on \in BOOLEAN : Calling({Result(TRUE, Persistent(radio, on))})
SetMode == \E m \in SUBSET {"STA", "AP"} : Calling(Mode(radio, m))
Sleep == Calling(ForceSleepBegin(radio)) \/ Calling(ForceSleepWake(radio)) \/ Calling(SetSleepMode(radio))
Join ==
    \/ \E s \in Ssids \union {None}, p \in Passes \union {TooLong}, b \in Bssids \union {None} :
           Calling(Begin(radio, s, p, b, TRUE))
    \/ Calling(BeginSaved(radio))
Address == \E a \in {None, TooLong, "fixed"} : Calling(Config(radio, a))
Leave == Calling(Reconnect(radio)) \/ \E off \in BOOLEAN : Calling(Disconnect(radio, off))
OpenAp ==
    \/ \E s \in Ssids \union {None}, p \in Passes : Calling(SoftAP(radio, s, p))
    \/ \E ip \in {DefaultIp, ApLong} : Calling(SoftAPConfig(radio, ip))
    \/ \E off \in BOOLEAN : Calling(SoftAPDisconnect(radio, off))
Smart == Calling(BeginSmartConfig(radio)) \/ Calling(StopSmartConfig(radio))

BeginWPS ==
    /\ Request /\ NoEvent /\ cycle' = "awake"
    /\ \E x \in BeginWPSConfig(radio) : radio' = x.radio /\ wps' = x.back
    /\ UNCHANGED <<saved, before>>

Register ==
    /\ Request
    /\ \/ handlers' = handlers \union {"handle"} /\ held' = held \union {"handle"}
       \/ handlers' = handlers \union {"onEvent"} /\ UNCHANGED held
    /\ UNCHANGED <<radio, saved, wps, before, cycle>>

Forget ==
    /\ held # {} /\ held' = {}
    /\ UNCHANGED <<radio, saved, handlers, wps, before, cycle, requests>>

\* Undone half way: what was saved of the station is there, the sum is old.
HalfSaved(new) ==
    [saved EXCEPT !.conf = new.conf, !.ip = new.ip,
                  !.valid = @ /\ new.conf = saved.conf /\ new.ip = saved.ip]

ShutdownRadio ==
    /\ ~wps /\ NoEvent
    /\ \E x \in Shutdown(radio) :
           /\ radio' = x.radio
           /\ saved' = IF x.back THEN Saving(radio, radio.persistent)
                       ELSE HalfSaved(Saving(radio, radio.persistent))
           /\ before' = IF x.back THEN radio ELSE before
           /\ cycle' = IF x.back THEN "down" ELSE "awake"
    /\ UNCHANGED <<wps, requests>>

ResumeRadio ==
    /\ ~wps /\ NoEvent
    /\ \E x \in Resume(radio) :
           /\ radio' = x.radio
           /\ cycle' = IF cycle = "down" /\ x.back THEN "up" ELSE "awake"
           /\ saved' = [saved EXCEPT !.valid = @ /\ ~x.back]
    /\ UNCHANGED <<wps, before, requests>>

(* Deep sleep ends in a restart, and the power may fail at any time; the   *)
(* memory of the saved state outlives both here, being checked by its sum. *)
Restart ==
    /\ radio' = Boots(radio, AtBoot)
    /\ handlers' = {} /\ held' = {} /\ wps' = FALSE
    /\ cycle' = IF cycle = "down" THEN cycle ELSE "awake"
    /\ UNCHANGED <<saved, before, requests>>

StationNext ==
    \/ StationEvents
    \/ SetPersistent \/ SetMode \/ Sleep \/ Join \/ Address \/ Leave \/ OpenAp \/ Smart
    \/ BeginWPS \/ Register \/ Forget \/ ShutdownRadio \/ ResumeRadio \/ Restart

StationSpec == StationInit /\ [][StationNext]_stationVars

-----------------------------------------------------------------------------
(* Shutting down never touches the flash, whether it succeeds or is undone *)
(* half way, so that a power failure brings back what was set to stay.     *)
ShutdownSparesFlash ==
    [][ShutdownRadio => radio'.flashMode = radio.flashMode /\ radio'.flashConf = radio.flashConf]_stationVars

(* A radio that has been shut down and resumed, over restarts or not but   *)
(* with no other call in between, has the interfaces, the persistence and  *)
(* the network it was shut down with.                                      *)
ResumeRestores ==
    cycle = "up" =>
        /\ radio.mode = before.mode /\ radio.persistent = before.persistent
        /\ "STA" \in before.mode =>
               radio.conf.ssid = before.conf.ssid /\ radio.conf.pass = before.conf.pass
=============================================================================
