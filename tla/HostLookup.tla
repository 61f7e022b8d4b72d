----------------------------- MODULE HostLookup -----------------------------
(***************************************************************************)
(* hostByName of ESP8266WiFiGeneric.cpp: a sketch resolves one name after  *)
(* another.  lwIP keeps a request until it has an answer or gives it up;   *)
(* hostByName may stop waiting sooner.                                     *)
(***************************************************************************)
EXTENDS Naturals, Sequences, FiniteSets

CONSTANTS
    Hosts,      \* names to look up
    Slots,      \* places in the callers' stack frames for the address found
    MaxLookups  \* bound: calls of hostByName

VARIABLES
    pending,  \* _dns_lookup_pending
    words,    \* what is at each slot: the host whose address it is, or Unset
    asked,    \* external: lwIP's table, requests with their callback_arg
    cached,   \* external: hosts whose address lwIP knows
    call,     \* hostByName: idle, waiting or returned, for whom, and where to
    lookups

lookupVars == <<pending, words, asked, cached, call, lookups>>

Unset == "unset"
Returned(host, slot, back) == [at |-> "returned", host |-> host, slot |-> slot, back |-> back]

LookupInit ==
    /\ pending = FALSE /\ words = [s \in Slots |-> Unset]
    /\ asked = {} /\ cached = {} /\ lookups = 0
    /\ call = [at |-> "idle", host |-> Unset, slot |-> Unset, back |-> 0]

(* hostByName: the result is cleared; a known address is returned at once, *)
(* a request may be refused, or else the call waits.                       *)
HostByName ==
    /\ call.at # "waiting" /\ lookups < MaxLookups /\ lookups' = lookups + 1
    /\ \E h \in Hosts, s \in Slots :
           \/ /\ h \in cached /\ words' = [words EXCEPT ![s] = h]
              /\ call' = Returned(h, s, 1) /\ UNCHANGED <<pending, asked>>
           \/ /\ h \notin cached /\ words' = [words EXCEPT ![s] = Unset]
              /\ \/ call' = Returned(h, s, 0) /\ UNCHANGED <<pending, asked>>
                 \/ /\ call' = [at |-> "waiting", host |-> h, slot |-> s, back |-> 0]
                    /\ pending' = TRUE /\ asked' = asked \union {<<h, s>>}
    /\ UNCHANGED cached

\* The end of the wait, by the timeout or because nothing is pending: only
\* whether an address is there decides what is returned.
Waited ==
    /\ call.at = "waiting"
    /\ pending' = FALSE
    /\ call' = Returned(call.host, call.slot, IF words[call.slot] = Unset THEN 0 ELSE 1)
    /\ UNCHANGED <<words, asked, cached, lookups>>

(* wifi_dns_found_callback, for any request that lwIP still has, with the  *)
(* address or, when lwIP gives up, without.                                *)
DnsFound ==
    \E q \in asked, found \in BOOLEAN :
        /\ asked' = asked \ {q}
        /\ cached' = IF found THEN cached \union {q[1]} ELSE cached
        /\ words' = IF pending /\ found THEN [words EXCEPT ![q[2]] = q[1]] ELSE words
        /\ pending' = FALSE
        /\ UNCHANGED <<call, lookups>>

LookupNext == HostByName \/ Waited \/ DnsFound
LookupSpec == LookupInit /\ [][LookupNext]_lookupVars

-----------------------------------------------------------------------------
(* A lookup that succeeds gives the address of the name that was asked     *)
(* for, as the comment over hostByName says.                               *)
AddressOfTheHost ==
    call.at = "returned" /\ call.back = 1 => words[call.slot] = call.host
=============================================================================
