-------------------------------- MODULE Ntp --------------------------------
(***************************************************************************)
(* The SNTP client (src/ntp.c).                                            *)
(*                                                                         *)
(* __connman_ntp_start makes a resolver and looks the server up;          *)
(* resolv_result runs start_ntp, which opens a UDP socket with a receive   *)
(* watch and sends the first request.  Each datagram received_data reads   *)
(* is decoded and arms a one-shot next_request timer, which sends the next *)
(* request on transmit_fd.  __connman_ntp_stop removes the watch (closing  *)
(* the socket) and unrefs the resolver.  There is no retransmission and   *)
(* no timer is ever removed.                                               *)
(*                                                                         *)
(* Datagrams are counted, not named: the code keeps no identity for a     *)
(* request (it decodes every reply against the time of the last send).    *)
(* The network may lose or duplicate a datagram.  What a reply says       *)
(* (poll interval, offset) decides only when the next request goes out    *)
(* and how the clock is stepped, which the model leaves out.              *)
(***************************************************************************)
EXTENDS Integers

CONSTANTS
    MaxInFlight,  \* bound on outstanding requests, replies and timers
    Polls         \* poll exponents (int8_t) a server may answer with

VARIABLES
    resolv,          \* "null", "alive", or "freed" (unref'd, pointer kept)
    lookup,          \* a resolver lookup whose callback is still to run
    channel_watch,   \* the receive watch, and with it the socket, exists
    timers,          \* next_request timers armed and not yet fired
    requests,        \* requests on their way to the server
    replies,         \* the server's replies on their way to the socket
    transmit_delay,  \* seconds until the next request (a guint)
    clock            \* what the last decoded reply did to the system clock:
                     \*   "untouched", "adjusted" (adjtime), "stepped"

vars == <<resolv, lookup, channel_watch, timers, requests, replies,
          transmit_delay, clock>>
decoded == <<transmit_delay, clock>>

Outstanding == timers + requests + replies

\* LOGTOD(poll) stored in a guint: a negative poll gives a fraction of a
\* second, truncated to 0; 1L << poll keeps only its low 32 bits, 0 for
\* a poll from 32 to 63; a shift by 64 or more is undefined and may give
\* any value (0 or 1 here).  Polls leaves out 31, whose 2^31 TLC's
\* integers cannot hold.
LOGTOD(poll) ==
    IF poll < 0 THEN {0}
    ELSE IF poll < 31 THEN {2^poll}
    ELSE IF poll < 64 THEN {0}
    ELSE {0, 1}

ASSUME Polls \subseteq (-128..127) \ {31}

-----------------------------------------------------------------------------
\* __connman_ntp_start: g_resolv_new may fail (-ENOMEM); otherwise a new
\* resolver (any earlier one is leaked) starts a lookup.  The id the
\* lookup returns is not stored in resolv_lookup.
__connman_ntp_start(ok) ==
    /\ IF ok THEN resolv' = "alive" /\ lookup' = TRUE
       ELSE UNCHANGED <<resolv, lookup>>
    /\ UNCHANGED <<channel_watch, timers, requests, replies, decoded>>

\* start_ntp: nothing while a watch exists; the socket, bind and the two
\* socket options may fail (the socket is closed); otherwise the watch is
\* added and the first request sent
start_ntp(sock_ok) ==
    IF channel_watch \/ ~sock_ok
    THEN UNCHANGED <<channel_watch, requests>>
    ELSE channel_watch' = TRUE /\ requests' = requests + 1

\* resolv_result: with an address, start_ntp on the first result.  The
\* MaxInFlight conjunct is the model's bound on datagrams and timers, not
\* a check of the code.
resolv_result(found, sock_ok) ==
    /\ lookup /\ resolv = "alive"
    /\ Outstanding < MaxInFlight
    /\ lookup' = FALSE
    /\ IF found THEN start_ntp(sock_ok)
       ELSE UNCHANGED <<channel_watch, requests>>
    /\ UNCHANGED <<resolv, timers, replies, decoded>>

\* seeded bug: next_request returns TRUE, so its timer repeats
next_request_repeat ==
    /\ timers > 0
    /\ IF channel_watch THEN requests' = requests + 1 ELSE UNCHANGED requests
    /\ UNCHANGED <<resolv, lookup, channel_watch, timers, replies, decoded>>

\* next_request: the timer fires once (it returns FALSE) and calls
\* send_packet, which builds the request and writes it to transmit_fd,
\* which fails (EBADF) once the socket is closed, or goes out on whatever
\* socket a later start_ntp opened; a failed sendto on the open socket
\* is a lost request (LoseRequest)
next_request ==
    /\ timers > 0
    /\ timers' = timers - 1
    /\ IF channel_watch THEN requests' = requests + 1 ELSE UNCHANGED requests
    /\ UNCHANGED <<resolv, lookup, channel_watch, replies, decoded>>

\* decode_msg on a reply with poll exponent poll, the server's leap and
\* mode flags equal to 0x24 or not (sync), an offset within 0.128 s or
\* not (small), and adjtime or settimeofday succeeding or not (sys_ok).
\* The length check compares the buffer size, 128, so it always passes;
\* SO_TIMESTAMP is set on the socket, so the timestamp is there.
decode_msg(poll, sync, small, sys_ok) ==
    /\ transmit_delay' \in LOGTOD(poll)
    /\ clock' = IF sync /\ sys_ok THEN IF small THEN "adjusted" ELSE "stepped"
                ELSE clock

\* received_data on G_IO_IN: recvmsg takes one datagram, decode_msg, and
\* another next_request is armed for transmit_delay seconds whatever the
\* reply was
received_data(poll, sync, small, sys_ok) ==
    /\ channel_watch /\ replies > 0
    /\ replies' = replies - 1
    /\ decode_msg(poll, sync, small, sys_ok)
    /\ timers' = timers + 1
    /\ UNCHANGED <<resolv, lookup, channel_watch, requests>>

\* received_data on G_IO_HUP, G_IO_ERR or G_IO_NVAL: the watch goes and
\* with it the socket; nothing restarts the client
ChannelError ==
    /\ channel_watch
    /\ channel_watch' = FALSE /\ requests' = 0 /\ replies' = 0
    /\ UNCHANGED <<resolv, lookup, timers, decoded>>

\* seeded bug: the lookup is left running on the freed resolver
__connman_ntp_stop_keeplookup ==
    /\ resolv # "null"
    /\ resolv' = "freed"
    /\ channel_watch' = FALSE /\ requests' = 0 /\ replies' = 0
    /\ UNCHANGED <<lookup, timers, decoded>>

\* __connman_ntp_stop: nothing if no resolver was ever made; resolv_lookup
\* is 0, so no lookup is cancelled; the watch is removed (the socket
\* closes: what is on its way to it, or will be answered to it, is
\* lost); the resolver is unref'd, which drops its lookup, but resolv is
\* not set to NULL
__connman_ntp_stop ==
    /\ resolv # "null"
    /\ resolv' = "freed" /\ lookup' = FALSE
    /\ channel_watch' = FALSE /\ requests' = 0 /\ replies' = 0
    /\ UNCHANGED <<timers, decoded>>

-----------------------------------------------------------------------------
(* The network and the server.                                             *)

\* the server answers a request
ServerReply ==
    /\ requests > 0
    /\ requests' = requests - 1 /\ replies' = replies + 1
    /\ UNCHANGED <<resolv, lookup, channel_watch, timers, decoded>>

LoseRequest ==
    /\ requests > 0 /\ requests' = requests - 1
    /\ UNCHANGED <<resolv, lookup, channel_watch, timers, replies, decoded>>

LoseReply ==
    /\ replies > 0 /\ replies' = replies - 1
    /\ UNCHANGED <<resolv, lookup, channel_watch, timers, requests, decoded>>

DuplicateReply ==
    /\ replies > 0 /\ Outstanding < MaxInFlight
    /\ replies' = replies + 1
    /\ UNCHANGED <<resolv, lookup, channel_watch, timers, requests, decoded>>

-----------------------------------------------------------------------------
Init ==
    /\ resolv = "null" /\ lookup = FALSE /\ channel_watch = FALSE
    /\ timers = 0 /\ requests = 0 /\ replies = 0
    /\ transmit_delay = 16 /\ clock = "untouched"

Client ==
    \/ \E ok \in BOOLEAN : __connman_ntp_start(ok)
    \/ \E found, sock_ok \in BOOLEAN : resolv_result(found, sock_ok)
    \/ next_request
    \/ \E poll \in Polls, sync, small, sys_ok \in BOOLEAN :
          received_data(poll, sync, small, sys_ok)
    \/ ChannelError
    \/ __connman_ntp_stop

Network ==
    \/ ServerReply \/ LoseRequest \/ LoseReply \/ DuplicateReply

Next == Client \/ Network

\* GLib fires an armed timer and dispatches a readable socket; the server
\* answers what reaches it.  Loss, duplication, channel errors and the
\* calls to start and stop are not fair.
Fairness ==
    /\ WF_vars(next_request)
    /\ WF_vars(\E poll \in Polls, sync, small, sys_ok \in BOOLEAN :
                  received_data(poll, sync, small, sys_ok))
    /\ WF_vars(ServerReply)
    /\ WF_vars(\E found, sock_ok \in BOOLEAN : resolv_result(found, sock_ok))

Spec == Init /\ [][Next]_vars /\ Fairness
====
