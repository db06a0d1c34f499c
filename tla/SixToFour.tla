----------------------------- MODULE SixToFour -----------------------------
(***************************************************************************)
(* The 6-to-4 tunnel controller (src/6to4.c) composed with the HTTP client *)
(* it probes the tunnel with (gweb/gweb.c).                               *)
(*                                                                         *)
(* __connman_6to4_probe marks a probe pending and sends a router          *)
(* solicitation; if no router answers, receive_rs_reply runs init_6to4,    *)
(* which creates tun6to4, sets it up, makes a new GWeb bound to it and    *)
(* requests STATUS_URL.  web_result, the request's result function,       *)
(* keeps the tunnel unless the status is 4xx, clears the pending mark and *)
(* schedules unref_web, a one-second timer that unrefs the global web.    *)
(* __connman_6to4_remove tears the tunnel down when the service's IPv4    *)
(* address goes.                                                          *)
(*                                                                         *)
(* Each GWeb the controller creates is an element of WebIds; its one      *)
(* request is a GWeb session record, driven by the handlers of GWeb.tla.  *)
(* Every handler's calls of the result function run web_result in the    *)
(* same step, as they do in the code.                                     *)
(***************************************************************************)
EXTENDS Integers, Sequences, SequencesExt, FiniteSets, GWeb

CONSTANTS
    Addrs,        \* IPv4 addresses the service may have
    PrivateAddrs, \* those in 10/8, 172.16/12 or 192.168/16
    WebIds,       \* the GWeb objects init_6to4 may create (bounds the probes)
    Responses,    \* what the status server may answer (records of GWeb!Response)
    SplitCRLF,    \* whether a read may end between a CR and its LF
    NULL

ASSUME PrivateAddrs \subseteq Addrs /\ NULL \notin Addrs \cup WebIds

VARIABLES
    tunnel_created, tunnel_pending, tunnel_ip_address,
    web,             \* the global GWeb pointer
    web_request_id,
    webs,            \* per GWeb: "unused", "alive" or "freed", and its session
    rs,              \* the address a solicitation's callback carries, or NULL
    timers,          \* unref_web timers armed and not yet fired
    addr,            \* the service's IPv4 local address, or NULL
    answered         \* auxiliary: the GWebs whose result function has run

vars == <<tunnel_created, tunnel_pending, tunnel_ip_address, web,
          web_request_id, webs, rs, timers, addr, answered>>
ctl == <<tunnel_created, tunnel_pending, tunnel_ip_address, web_request_id, timers>>

NoSession == [resolving |-> FALSE, watch |-> FALSE]

-----------------------------------------------------------------------------
(* The controller's globals as a record, so that web_result can be folded  *)
(* over the calls one gweb handler makes.                                 *)
Ctl == [created |-> tunnel_created, pending |-> tunnel_pending,
        ip |-> tunnel_ip_address, req |-> web_request_id, timers |-> timers]
SetCtl(c) == /\ tunnel_created' = c.created /\ tunnel_pending' = c.pending
             /\ tunnel_ip_address' = c.ip /\ web_request_id' = c.req
             /\ timers' = c.timers

\* tunnel_destroy (SIOCDELTUNNEL is taken to succeed)
tunnel_destroy(c) ==
    IF c.created = 0 THEN c
    ELSE [c EXCEPT !.created = 0, !.pending = 0, !.ip = NULL]

\* seeded bug: the request id is not checked, so every call arms a timer
web_result_noguard(c, status) ==
    LET d == IF status >= 400 /\ status < 500 THEN tunnel_destroy(c)
             ELSE [c EXCEPT !.pending = 0]
    IN [d EXCEPT !.req = 0, !.timers = @ + 1]

\* seeded bug: a tunnel that answered is kept but still marked pending
web_result_keep(c, status) ==
    IF c.req = 0 THEN c
    ELSE LET d == IF status >= 400 /\ status < 500 THEN tunnel_destroy(c) ELSE c
         IN [d EXCEPT !.req = 0, !.timers = @ + 1]

\* web_result: ignored once the request id is cleared; 4xx tears the tunnel
\* down, anything else keeps it; unref_web is armed for one second later
web_result(c, status) ==
    IF c.req = 0 THEN c
    ELSE LET d == IF status >= 400 /\ status < 500 THEN tunnel_destroy(c)
                  ELSE [c EXCEPT !.pending = 0]
         IN [d EXCEPT !.req = 0, !.timers = @ + 1]

RunResults(c, calls) == FoldLeft(web_result, c, calls)

-----------------------------------------------------------------------------
(* The controller's entry points.                                          *)

\* seeded bug: the probe is started without being marked pending
Probe_nopending ==
    /\ addr # NULL
    /\ tunnel_created = 0 /\ tunnel_pending = 0
    /\ addr \notin PrivateAddrs
    /\ tunnel_pending' = 0
    /\ tunnel_ip_address' = addr
    /\ rs' = addr
    /\ UNCHANGED <<tunnel_created, web, web_request_id, webs, timers, addr,
                   answered>>

\* __connman_6to4_probe: nothing while a tunnel exists or a probe is
\* pending; only a public address is probed
Probe ==
    /\ addr # NULL
    /\ tunnel_created = 0 /\ tunnel_pending = 0
    /\ addr \notin PrivateAddrs
    /\ tunnel_pending' = 1
    /\ tunnel_ip_address' = addr
    /\ rs' = addr
    /\ UNCHANGED <<tunnel_created, web, web_request_id, webs, timers, addr,
                   answered>>

\* the same call when it returns early (a tunnel or probe exists, or the
\* address is private): no state changes
ProbeRefused ==
    /\ addr # NULL
    /\ tunnel_created = 1 \/ tunnel_pending = 1 \/ addr \in PrivateAddrs
    /\ UNCHANGED vars

\* init_6to4 for address a: tunnel_create fails ("nocreate"); a later step
\* fails and the tunnel is destroyed ("nosetup"); or a new GWeb w requests
\* STATUS_URL, whose resolver lookup may fail to start ("noreq")
InitOutcomes == {"nocreate", "nosetup", "noreq", "ok"}
init_6to4(a, outcome, w, resp) ==
    CASE outcome = "nocreate" ->
           UNCHANGED <<tunnel_created, tunnel_pending, tunnel_ip_address,
                       web, web_request_id, webs, timers>>
      [] outcome = "nosetup" ->
           /\ SetCtl(tunnel_destroy([Ctl EXCEPT !.created = 1]))
           /\ UNCHANGED <<web, webs>>
      [] outcome \in {"noreq", "ok"} ->
           /\ webs[w].state = "unused"
           /\ web' = w
           /\ webs' = [webs EXCEPT ![w] =
                         [state |-> "alive",
                          sess |-> IF outcome = "ok" THEN Session(resp)
                                   ELSE NoSession]]
           /\ tunnel_created' = 1
           /\ web_request_id' = IF outcome = "ok" THEN 1 ELSE 0
           /\ UNCHANGED <<tunnel_pending, tunnel_ip_address, timers>>

\* receive_rs_reply: with no router answer (reply NULL) the tunnel is
\* set up for the address the solicitation was sent for
receive_rs_reply(reply) ==
    /\ rs # NULL
    /\ rs' = NULL
    /\ IF reply
       THEN UNCHANGED <<tunnel_created, tunnel_pending, tunnel_ip_address,
                        web, web_request_id, webs, timers>>
       ELSE \E outcome \in InitOutcomes, w \in WebIds, resp \in Responses :
               init_6to4(rs, outcome, w, resp)
    /\ UNCHANGED <<addr, answered>>

\* __connman_6to4_remove for the address the service is losing
__connman_6to4_remove ==
    /\ addr # NULL
    /\ IF addr = tunnel_ip_address
       THEN SetCtl(tunnel_destroy(Ctl)) ELSE UNCHANGED ctl
    /\ addr' = NULL
    /\ UNCHANGED <<web, webs, rs, answered>>

\* the service gets an IPv4 address
AddressUp(a) ==
    /\ addr = NULL /\ addr' = a
    /\ UNCHANGED <<tunnel_created, tunnel_pending, tunnel_ip_address, web,
                   web_request_id, webs, rs, timers, answered>>

\* unref_web: g_web_unref of whatever the global web is when the timer fires;
\* the last reference frees the GWeb; flush_sessions frees its sessions,
\* whose watches and lookups then never call back
unref_web ==
    /\ timers > 0
    /\ timers' = timers - 1
    /\ webs' = IF web # NULL /\ webs[web].state = "alive"
               THEN [webs EXCEPT ![web] = [state |-> "freed", sess |-> NoSession]]
               ELSE webs
    /\ UNCHANGED <<tunnel_created, tunnel_pending, tunnel_ip_address, web,
                   web_request_id, rs, addr, answered>>

-----------------------------------------------------------------------------
(* The HTTP session of GWeb w: one gweb handler, then web_result on each   *)
(* call it made.                                                          *)
SessionStep(w, o) ==
    /\ webs' = [webs EXCEPT ![w].sess = o.s]
    /\ SetCtl(RunResults(Ctl, o.calls))
    /\ answered' = IF o.calls # <<>> THEN answered \cup {w} ELSE answered
    /\ UNCHANGED <<web, rs, addr>>

Live(w) == webs[w].state = "alive" /\ webs[w].sess # NoSession
S(w) == webs[w].sess

ResolvResult(w) ==
    /\ Live(w) /\ S(w).resolving
    /\ \E outcome \in ResolvOutcomes : SessionStep(w, resolv_result(S(w), outcome))

SendData(w) ==
    /\ Live(w) /\ S(w).sending
    /\ \E ok \in BOOLEAN : SessionStep(w, send_data(S(w), ok))

\* a read may end anywhere, unless SplitCRLF is off: then not between a CR
\* and the LF that follows it
ReadSizes(s) ==
    {k \in 1..(Len(s.resp.bytes) - s.pos) :
        SplitCRLF \/ s.pos + k = Len(s.resp.bytes)
        \/ ~(s.resp.bytes[s.pos + k] = "CR" /\ s.resp.bytes[s.pos + k + 1] = "LF")}

ReceiveData(w) ==
    /\ Live(w) /\ S(w).watch /\ S(w).sent
    /\ \E k \in ReadSizes(S(w)) : SessionStep(w, received_data(S(w), k))

\* end of file once the server has sent everything, or a read error
ReceiveEnd(w) ==
    /\ Live(w) /\ S(w).watch
    /\ SessionStep(w, received_end(S(w)))

\* the connection breaks (G_IO_HUP/G_IO_ERR) before the whole response
\* has arrived
ReceiveHup(w) ==
    /\ Live(w) /\ S(w).watch /\ S(w).pos < Len(S(w).resp.bytes)
    /\ SessionStep(w, received_hup(S(w)))

-----------------------------------------------------------------------------
Init ==
    /\ tunnel_created = 0 /\ tunnel_pending = 0 /\ tunnel_ip_address = NULL
    /\ web = NULL /\ web_request_id = 0
    /\ webs = [w \in WebIds |-> [state |-> "unused", sess |-> NoSession]]
    /\ rs = NULL /\ timers = 0 /\ addr = NULL /\ answered = {}

Web ==
    \E w \in WebIds :
        \/ ResolvResult(w) \/ SendData(w) \/ ReceiveData(w)
        \/ ReceiveEnd(w) \/ ReceiveHup(w)

Next ==
    \/ \E a \in Addrs : AddressUp(a)
    \/ Probe \/ ProbeRefused \/ __connman_6to4_remove
    \/ \E reply \in BOOLEAN : receive_rs_reply(reply)
    \/ Web
    \/ unref_web

\* The kernel's solicitation timer and the client's socket events happen;
\* the timer GLib armed fires.  The address, and the calls into the
\* controller, are the environment's and are not fair.
Fairness ==
    /\ WF_vars(\E reply \in BOOLEAN : receive_rs_reply(reply))
    /\ \A w \in WebIds :
         WF_vars(ResolvResult(w) \/ SendData(w) \/ ReceiveData(w) \/ ReceiveEnd(w))
    /\ WF_vars(unref_web)

Spec == Init /\ [][Next]_vars /\ Fairness
====
