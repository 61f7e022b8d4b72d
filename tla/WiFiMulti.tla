----------------------------- MODULE WiFiMulti -----------------------------
(***************************************************************************)
(* Looking for networks, ESP8266WiFiScan.cpp: the SDK scans, and its       *)
(* completion, which may be late or never come, copies what was found.     *)
(* And ESP8266WiFiMulti: a list of networks, and run(), which the sketch   *)
(* calls again and again to be connected to the strongest of them.  run()  *)
(* waits three ways, for a connection that was saved, for a scan and for   *)
(* each connection it tries; while it waits the SDK goes on.               *)
(***************************************************************************)
EXTENDS WiFiSTA, SequencesExt

CONSTANTS
    Nets,      \* external: pairs of a network's name and an access point
    Levels,    \* external: strengths of a signal
    MaxFound,  \* bound: networks found by a scan
    MaxEntries \* bound: networks in the list

ASSUME ScanAssumption == Levels \subseteq Int /\ MaxFound \in Nat
ASSUME MultiAssumption == MaxEntries \in Nat

VARIABLES
    scan,  \* the flags and results of ESP8266WiFiScan
    list,  \* _APlist
    call   \* run(): where it waits, what is left to try, what it returned

NoScan ==
    [started |-> FALSE, complete |-> FALSE, async |-> FALSE, found |-> <<>>,
     handler |-> FALSE]

\* external: lists of distinct access points.
Sightings ==
    UNION {{[k \in 1..n |-> [ssid |-> who[k][1], bssid |-> who[k][2], rssi |-> how[k]]] :
                who \in {w \in [1..n -> Nets] : \A k, l \in 1..n : w[k] = w[l] => k = l},
                how \in [1..n -> Levels]} :
           n \in 0..MaxFound}

\* scanDelete: also while a scan runs.
ScanDelete(sc) == [sc EXCEPT !.found = <<>>, !.complete = FALSE]

(* scanNetworks, up to where a scan that is not async is suspended: the    *)
(* outcomes are what it returns, the radio and the scan.                   *)
Scanned(back, r, sc) == [back |-> back, radio |-> r, scan |-> sc]

ScanNetworks(r, sc, async) ==
    LET stirred(x) == IF x.status \in {"GOT_IP", "IDLE"} THEN x ELSE StationDisconnect(x)
        ready == ScanDelete([sc EXCEPT !.async = async])
        going(x) == Scanned("RUNNING", x, [ready EXCEPT !.started = TRUE, !.complete = FALSE])
        refused(x) == Scanned("FAILED", x, ready)
    IN IF sc.started THEN {Scanned("RUNNING", r, sc)}
       ELSE UNION {{going(stirred(x.radio))} \union {refused(y) : y \in Refused(stirred(x.radio))} :
                   x \in EnableSTA(r, TRUE)}

\* scanNetworksAsync: the handler is set though a scan may be running.
ScanNetworksAsync(r, sc) == ScanNetworks(r, [sc EXCEPT !.handler = TRUE], TRUE)

ScanComplete(sc) ==
    CASE sc.started -> "RUNNING" [] ~sc.started /\ sc.complete -> "DONE" [] OTHER -> "FAILED"

(* _scanDone: a handler is used once.                                      *)
ScanDone(sc, ok, seen) ==
    [sc EXCEPT !.found = IF ok THEN seen ELSE <<>>,
               !.started = FALSE, !.complete = TRUE,
               !.handler = @ /\ ~sc.async]

(* _getScanInfoByIndex and what reads through it: the index is from 0, and *)
(* the one past the last reads what follows the list.                      *)
Beyond == [ssid |-> "past the list", bssid |-> None, rssi |-> 0]
ScanInfo(sc, i) ==
    CASE sc.found = <<>> \/ i > Len(sc.found) -> None
      [] sc.found # <<>> /\ i = Len(sc.found) -> Beyond
      [] OTHER -> sc.found[i + 1]

-----------------------------------------------------------------------------
multiVars == <<radio, scan, list, call>>

Idle ==
    [at |-> "idle", firstRun |-> TRUE, queue |-> <<>>, skip |-> {},
     hidden |-> 0, tried |-> {}, result |-> None]

MultiInit ==
    /\ radio \in Starts(TRUE)
    /\ scan = NoScan /\ list = <<>> /\ call = Idle

-----------------------------------------------------------------------------
(* addAP, existsAP, cleanAPlist: an entry that is there is not added; the  *)
(* memory may run out.                                                     *)
Entry(ssid, pass) == [ssid |-> ssid, pass |-> pass]
APlistExists(ssid, pass) == ssid \notin {None, TooLong} /\ Contains(list, Entry(ssid, pass))

AddAP ==
    /\ call.at = "idle" /\ call' = [call EXCEPT !.result = None]
    /\ \E s \in Ssids \union {None, TooLong}, p \in Passes \union {TooLong} :
           \/ /\ s \notin {None, TooLong} /\ p # TooLong
              /\ ~APlistExists(s, p) /\ Len(list) < MaxEntries
              /\ list' = Append(list, Entry(s, p))
           \/ UNCHANGED list
    /\ UNCHANGED <<radio, scan>>

CleanAPlist ==
    /\ call.at = "idle" /\ call' = [call EXCEPT !.result = None] /\ list' = <<>>
    /\ UNCHANGED <<radio, scan>>

-----------------------------------------------------------------------------
Return(status) == [call EXCEPT !.at = "idle", !.result = status, !.queue = <<>>,
                               !.skip = {}, !.hidden = 0]

(* startScan, up to its wait.                                              *)
StartScan(r) ==
    LET left == {x.radio : x \in Disconnect(r, FALSE)}
    IN /\ \E x \in UNION {ScanNetworks(y, ScanDelete(scan), TRUE) : y \in left} :
              radio' = x.radio /\ scan' = x.scan
       /\ call' = [call EXCEPT !.at = "scan", !.firstRun = FALSE, !.tried = {}, !.result = None]

\* run() from its look at the state of the connection.
Look(r) ==
    IF WlStatus(r) = "CONNECTED"
    THEN radio' = r /\ call' = [Return("CONNECTED") EXCEPT !.firstRun = FALSE] /\ UNCHANGED scan
    ELSE StartScan(r)

Run ==
    /\ call.at = "idle"
    /\ IF call.firstRun /\ radio.conf.ssid # None
       THEN /\ \E x \in BeginSaved(radio) : radio' = x.radio
            /\ call' = [call EXCEPT !.at = "saved", !.firstRun = FALSE, !.result = None]
            /\ UNCHANGED scan
       ELSE Look(radio)
    /\ UNCHANGED list

(* waitWiFiConnect ends with a connection, a failure, or the timeout.      *)
Waited(status, timeout) == status \in {"CONNECTED", "CONNECT_FAILED"} \/ timeout
Timeout == TRUE   \* esp_delay gives up in the end, whatever it waits for

Saved ==
    /\ call.at = "saved" /\ \E t \in {FALSE, Timeout} : Waited(WlStatus(radio), t)
    /\ Look(radio) /\ UNCHANGED list

-----------------------------------------------------------------------------
(* connectWiFiMulti.  Each network found is known once for every entry of  *)
(* its name.                                                               *)
Entries(net) == {j \in 1..Len(list) : list[j].ssid = net.ssid}
Known ==
    FlattenSeq([i \in 1..Len(scan.found) |->
                   [k \in 1..Cardinality(Entries(scan.found[i])) |-> i - 1]])

Orders(known) ==
    {[k \in 1..Len(known) |-> known[how[k]]] :
         how \in {f \in [1..Len(known) -> 1..Len(known)] : \A k, l \in 1..Len(known) : f[k] = f[l] => k = l}}
Sorted(known) ==
    {o \in Orders(known) :
         \A k \in 1..Len(o) - 1 : ScanInfo(scan, o[k]).rssi >= ScanInfo(scan, o[k + 1]).rssi}

\* What the two nested loops will try, in their order.
Queue(order) ==
    LET tries(i) == LET net == ScanInfo(scan, i)
                        js == SetToSortSeq(Entries(net), <)
                    IN [k \in 1..Len(js) |-> [entry |-> js[k], found |-> i + 1, net |-> net]]
    IN FlattenSeq([k \in 1..Len(order) |-> tries(order[k])])

Try(c, entry, bssid) ==
    /\ \E x \in Begin(radio, list[entry].ssid, list[entry].pass, bssid, TRUE) : radio' = x.radio
    /\ call' = [c EXCEPT !.tried = @ \union {list[entry]}]

\* connectSkipIndex is of entries.
BugSkipped(t) == t.found
Skipped(t) == t.entry

BugHiddenLeft(c) == {j \in c.hidden..Len(list) : j > 0 /\ j \notin c.skip}
HiddenLeft(c) == {j \in c.hidden + 1..Len(list) : j \notin c.skip}

TryHidden(c) ==
    IF HiddenLeft(c) = {} THEN call' = [Return("CONNECT_FAILED") EXCEPT !.tried = c.tried] /\ UNCHANGED radio
    ELSE LET j == Min(HiddenLeft(c)) IN Try([c EXCEPT !.at = "hidden", !.hidden = j], j, None)

TryNext(c) ==
    IF c.queue = <<>> THEN TryHidden(c)
    ELSE Try([c EXCEPT !.at = "visible"], Head(c.queue).entry, Head(c.queue).net.bssid)

(* The scan's wait is over: connect, or give up.                           *)
ScanWaited ==
    /\ call.at = "scan"
    /\ IF ScanComplete(scan) = "DONE"
       THEN \E o \in Sorted(Known) : TryNext([call EXCEPT !.queue = Queue(o)])
       ELSE Timeout /\ call' = Return("NO_SSID_AVAIL") /\ UNCHANGED radio
    /\ UNCHANGED <<scan, list>>

(* known[] has room for as many as there are entries: one more lands       *)
(* beyond it, with luck in padding, or else in what the caller needs.      *)
Overrun ==
    /\ call.at = "scan" /\ ScanComplete(scan) = "DONE" /\ Len(Known) > Len(list)
    /\ radio' = Boots(radio, TRUE) /\ scan' = NoScan /\ list' = <<>> /\ call' = Idle

Visible ==
    /\ call.at = "visible" /\ \E t \in {FALSE, Timeout} : Waited(WlStatus(radio), t)
    /\ IF WlStatus(radio) = "CONNECTED" THEN call' = Return("CONNECTED") /\ UNCHANGED radio
       ELSE TryNext([call EXCEPT !.queue = Tail(@), !.skip = @ \union {Skipped(Head(call.queue))}])
    /\ UNCHANGED <<scan, list>>

Hidden ==
    /\ call.at = "hidden" /\ \E t \in {FALSE, Timeout} : Waited(WlStatus(radio), t)
    /\ IF WlStatus(radio) = "CONNECTED" THEN call' = Return("CONNECTED") /\ UNCHANGED radio
       ELSE TryHidden(call)
    /\ UNCHANGED <<scan, list>>

-----------------------------------------------------------------------------
(* The sketch's own scans, between two runs; and the SDK: a scan may be    *)
(* reported late, failed or never, a connection may be made or fail.       *)
OwnScan ==
    /\ call.at = "idle" /\ UNCHANGED list
    /\ \/ \E async \in BOOLEAN : \E x \in ScanNetworks(radio, scan, async) :
              /\ radio' = x.radio /\ scan' = x.scan
              /\ call' = [call EXCEPT !.at = IF async \/ x.back = "FAILED" \/ scan.started THEN @ ELSE "suspended",
                                      !.result = None]
       \/ \E x \in ScanNetworksAsync(radio, scan) :
              radio' = x.radio /\ scan' = x.scan /\ call' = [call EXCEPT !.result = None]
       \/ scan' = ScanDelete(scan) /\ UNCHANGED <<radio, call>>

Resumed ==
    /\ call.at = "suspended" /\ (scan.complete \/ ~scan.started)
    /\ call' = [call EXCEPT !.at = "idle"] /\ UNCHANGED <<radio, scan, list>>

ScanReports ==
    /\ scan.started
    /\ \E ok \in BOOLEAN, seen \in Sightings : scan' = ScanDone(scan, ok, seen)
    /\ UNCHANGED <<radio, list, call>>

LinkChanges == radio' \in LinkOutcomes(radio) /\ UNCHANGED <<scan, list, call>>

Waits == Saved \/ ScanWaited \/ Visible \/ Hidden
MultiNext ==
    \/ AddAP \/ CleanAPlist \/ Run \/ Waits \/ Overrun
    \/ OwnScan \/ Resumed \/ ScanReports \/ LinkChanges

-----------------------------------------------------------------------------
(* run() says that no connection could be made only when it has tried      *)
(* every network of the list, found by the scan or not.                    *)
TriesEveryEntry ==
    call.at = "idle" /\ call.result = "CONNECT_FAILED" => Range(list) \subseteq call.tried

(* run() returns, whether or not the scan it waits for is ever reported.   *)
RunReturns == call.at \in {"saved", "scan", "visible", "hidden"} ~> call.at = "idle"
=============================================================================
