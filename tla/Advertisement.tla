----------------------------- MODULE Advertisement -----------------------------
(***************************************************************************)
(* mdns_advertiser.advertise: under which address the private API is       *)
(* announced on the LAN.  DHCP may give the host another address at any    *)
(* time, asking for it may fail, so may each call of the mDNS library, and *)
(* systemd starts the service again whenever it ends.                      *)
(***************************************************************************)
EXTENDS FiniteSets, Naturals

CONSTANTS Addresses,
          MaxMoves, MaxFaults, MaxStops   \* bounds: new leases, failures, stops

VARIABLES lease,      \* the address of the interface, or None
          pc,         \* where advertise is
          read,       \* the address it has read last
          publisher,  \* its publisher and the service it registers with it,
          service,    \* each the address it is for, or None
          advertised, \* advertised_address
          open,       \* the publishers of the process that are not closed
          lan,        \* the addresses the hosts on the LAN know the API by
          moves, faults, stops

vars == <<lease, pc, read, publisher, service, advertised, open, lan,
          moves, faults, stops>>

None == "none"
Maybe == Addresses \cup {None}

Init ==
    /\ lease \in Maybe /\ pc = "poll" /\ read = None
    /\ publisher = None /\ service = None /\ advertised = None
    /\ open = {} /\ lan = {} /\ moves = 0 /\ faults = 0 /\ stops = 0

Faulty == faults < MaxFaults /\ faults' = faults + 1

\* Asking for the address fails as an answer, not as an error (lan_address_for_network).
Poll ==
    /\ pc = "poll"
    /\ \/ read' = lease /\ UNCHANGED faults
       \/ Faulty /\ read' = None
    /\ pc' = IF read' # advertised THEN "unregister" ELSE "wait"
    /\ UNCHANGED <<lease, publisher, service, advertised, open, lan, moves, stops>>

\* close_advertisement, in the loop or at the end of the process.  Unregistering says
\* goodbye to the hosts on the LAN, if it does not fail.
After(stage) ==
    IF stage = "close" THEN IF read = None THEN "wait" ELSE "publish" ELSE "ended"

Unregister ==
    /\ pc \in {"unregister", "finally"}
    /\ \/ /\ lan' = IF publisher # None THEN lan \ {service} ELSE lan
          /\ pc' = IF pc = "unregister" THEN "close" ELSE "close finally"
          /\ UNCHANGED faults
       \/ /\ publisher # None /\ service # None /\ Faulty
          /\ pc' = IF pc = "unregister" THEN "finally" ELSE "ended"
          /\ UNCHANGED lan
    /\ UNCHANGED <<lease, read, publisher, service, advertised, open, moves, stops>>

Close ==
    /\ pc \in {"close", "close finally"}
    /\ open' = open \ {publisher}
    /\ publisher' = None /\ service' = None /\ advertised' = None
    /\ pc' = After(pc)
    /\ UNCHANGED <<lease, read, lan, moves, faults, stops>>

\* publisher_factory, service_info_factory: a socket on the address
Publish ==
    /\ pc = "publish"
    /\ \/ /\ publisher' = read /\ service' = read /\ open' = open \cup {read}
          /\ pc' = "register" /\ UNCHANGED faults
       \/ /\ Faulty /\ pc' = "finally" /\ UNCHANGED service
          /\ publisher' \in {None, read} /\ open' = open \cup ({publisher'} \ {None})
    /\ UNCHANGED <<lease, read, advertised, lan, moves, stops>>

Register ==
    /\ pc = "register"
    /\ \/ /\ lan' = lan \cup {service} /\ advertised' = read
          /\ pc' = "wait" /\ UNCHANGED faults
       \/ Faulty /\ pc' = "finally" /\ UNCHANGED <<lan, advertised>>
    /\ UNCHANGED <<lease, read, publisher, service, open, moves, stops>>

Wake ==
    /\ pc = "wait" /\ pc' = "poll"
    /\ UNCHANGED <<lease, read, publisher, service, advertised, open, lan,
                   moves, faults, stops>>

\* SIGTERM ends the loop when it is looked at next.
Stop ==
    /\ pc = "wait" /\ stops < MaxStops /\ stops' = stops + 1
    /\ pc' = "finally"
    /\ UNCHANGED <<lease, read, publisher, service, advertised, open, lan,
                   moves, faults>>

Crash ==
    /\ pc # "ended" /\ stops < MaxStops /\ stops' = stops + 1
    /\ pc' = "ended"
    /\ UNCHANGED <<lease, read, publisher, service, advertised, open, lan,
                   moves, faults>>

\* Restart=always; the sockets of a process end with it.
Restart ==
    /\ pc = "ended" /\ pc' = "poll"
    /\ read' = None /\ publisher' = None /\ service' = None /\ advertised' = None
    /\ open' = {}
    /\ UNCHANGED <<lease, lan, moves, faults, stops>>

\* DHCP
Move ==
    /\ moves < MaxMoves /\ moves' = moves + 1
    /\ lease' \in Maybe \ {lease}
    /\ UNCHANGED <<pc, read, publisher, service, advertised, open, lan, faults, stops>>

\* What nobody announces any more is forgotten on the LAN after its time to live.
Expire ==
    /\ \E address \in lan \ open : lan' = lan \ {address}
    /\ UNCHANGED <<lease, pc, read, publisher, service, advertised, open,
                   moves, faults, stops>>

Progress == Poll \/ Unregister \/ Close \/ Publish \/ Register \/ Wake \/ Restart

Next == Progress \/ Stop \/ Crash \/ Move \/ Expire

Spec == Init /\ [][Next]_vars /\ WF_vars(Progress) /\ WF_vars(Expire)

-----------------------------------------------------------------------------
\* A process that has come to rest announces the address it has read last and no
\* other, and holds no publisher but that one (advertise 89-151).
AnnouncesWhatItRead ==
    pc = "wait" =>
        /\ advertised = read /\ publisher = read /\ service = read
        /\ open = (IF read = None THEN {} ELSE {read})
        /\ read # None => read \in lan

\* When the leases, the failures and the stops are over, the hosts on the LAN come
\* to know the API by its address and by no other.
LanKnowsTheAddress == lan = (IF lease = None THEN {} ELSE {lease})
=============================================================================
