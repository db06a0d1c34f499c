------------------------------- MODULE Service -------------------------------
(***************************************************************************)
(* The service model of connman (src/service.c): the per-service combined  *)
(* state machine driven by the two per-family ipconfig states, the sorted  *)
(* service list (a GSequence ordered by service_compare), the pending     *)
(* D-Bus Connect reply, the connect timeout, the agent round trips, auto   *)
(* connect and the rp_filter counter.                                      *)
(*                                                                         *)
(* connman runs one GLib main loop: every D-Bus method, timer, agent reply *)
(* and network callback runs to completion.  Each action below is one such *)
(* callback, with every function it calls (recursively) folded in.  The    *)
(* call tree is written as operators from a "world" record to a world      *)
(* record, so that a C function that calls another is an operator applied *)
(* to the result of another.                                               *)
(***************************************************************************)
EXTENDS Integers, Sequences, SequencesExt, FiniteSets

CONSTANTS
    Services,     \* the services (model values), one network each
    Type,         \* Type[s] \in {"wifi", "ethernet"}; wifi ones are PSK
    Strength,     \* Strength[s]: signal strength, a natural number
    Device,       \* Device[s]: the device that owns the service's network
    Method4,      \* IPv4 ipconfig method: "dhcp" or "off"
    Method6,      \* IPv6 ipconfig method: "auto" or "off"
    HasAgent,     \* an agent is registered (agent requests are sent)
    MaxRp,        \* bound on connected_networks_count
    MaxAgent,     \* bound on outstanding agent requests of one kind
    NoService     \* get_default() returning NULL

ASSUME NoService \notin Services

States == {"unknown", "idle", "association", "configuration", "ready",
           "online", "disconnect", "failure"}
Families == {"ipv4", "ipv6"}

VARIABLES
    svc,        \* per-service fields of struct connman_service
    list,       \* service_list, a GSequence: a sequence of services
    net,        \* network->connecting / link as seen by network.c
    reconnect,  \* the reconnect flag of each device (device.c)
    agent,      \* outstanding agent requests of a service
    portal,     \* families with a WISPr status probe in flight
    rp,         \* connected_networks_count
    loose       \* rp_filter switched to loose mode

vars == <<svc, list, net, reconnect, agent, portal, rp, loose>>

SvcRec == [state : States, state4 : States, state6 : States,
           favorite : BOOLEAN, autoconnect : BOOLEAN, ignore : BOOLEAN,
           userconnect : BOOLEAN, pending : BOOLEAN, timeout : BOOLEAN,
           order : {0, 1}, passphrase : BOOLEAN]

-----------------------------------------------------------------------------
(* The world as one record, and writing a world back to the variables.    *)

World == [svc |-> svc, list |-> list, net |-> net, reconnect |-> reconnect,
          agent |-> agent, portal |-> portal, rp |-> rp, loose |-> loose]

Apply(w) == /\ svc' = w.svc /\ list' = w.list /\ net' = w.net
            /\ reconnect' = w.reconnect /\ agent' = w.agent
            /\ portal' = w.portal /\ rp' = w.rp /\ loose' = w.loose

Set(w, s, f, v) == [w EXCEPT !.svc[s][f] = v]
FamState(w, s, fam) == IF fam = "ipv4" THEN w.svc[s].state4
                                       ELSE w.svc[s].state6
Devices == {Device[s] : s \in Services}

\* set_reconnect_state: the flag belongs to the service's device
SetReconnect(w, s, v) == [w EXCEPT !.reconnect[Device[s]] = v]

Method(s, fam) == IF fam = "ipv4" THEN Method4[s] ELSE Method6[s]

-----------------------------------------------------------------------------
(* combine_state: the first of the precedence list present wins.          *)
Precedence == <<"online", "ready", "configuration", "association",
                "disconnect">>

combine_state(a, b) ==
    LET i == SelectInSeq(Precedence, LAMBDA x : x \in {a, b})
    IN  CASE a = b                      -> a
          [] a \in {"unknown", "idle"}  -> b
          [] b \in {"unknown", "idle"}  -> a
          [] i # 0                      -> Precedence[i]
          [] OTHER                      -> "failure"

is_connected(w, s) == w.svc[s].state \in {"ready", "online"}

\* is_connecting_state: idle/unknown/failure defer to network->connecting
is_connecting(w, s) ==
    \/ w.svc[s].state \in {"association", "configuration"}
    \/ w.svc[s].state \in {"unknown", "idle", "failure"}
       /\ w.net[s] = "connecting"

is_ignore(w, s) ==
    ~w.svc[s].autoconnect \/ w.svc[s].ignore \/ w.svc[s].state = "failure"

get_default(w) ==
    IF w.list # <<>> /\ is_connected(w, Head(w.list))
    THEN Head(w.list) ELSE NoService

-----------------------------------------------------------------------------
(* service_compare(a, b): negative when a sorts before b.                 *)
TypeRank(a, b) ==
    IF Type[a] # Type[b] /\ Type[a] = "wifi" THEN 1 ELSE 0

service_compare(w, a, b) ==
    LET sa == w.svc[a]  sb == w.svc[b]
        ca == is_connected(w, a)  cb == is_connected(w, b)
    IN CASE sa.state # sb.state /\ ca /\ cb /\ sa.state = "online" -> -1
         [] sa.state # sb.state /\ ca /\ cb /\ sb.state = "online" -> 1
         [] sa.state # sb.state /\ ca -> -1
         [] sa.state # sb.state /\ cb -> 1
         [] sa.state # sb.state /\ is_connecting(w, a) -> -1
         [] sa.state # sb.state /\ is_connecting(w, b) -> 1
         [] sa.order > sb.order -> -1
         [] sa.order < sb.order -> 1
         [] sa.favorite /\ ~sb.favorite -> -1
         [] ~sa.favorite /\ sb.favorite -> 1
         [] TypeRank(a, b) = 1 -> 1
         [] OTHER -> Strength[b] - Strength[a]

IndexOf(l, s) == SelectInSeq(l, LAMBDA x : x = s)

(* g_sequence_sort_changed: a service equal to a neighbour stays; else it *)
(* is taken out and inserted before the first entry that compares greater *)
(* (the end of GLib's binary search when the list is sorted).             *)
SortChanged(w, s) ==
    LET l == w.list  i == IndexOf(l, s)  rest == RemoveAt(l, i)
        p == SelectInSeq(rest, LAMBDA x : service_compare(w, x, s) > 0)
        at == IF p = 0 THEN Len(rest) + 1 ELSE p
    IN IF \/ i > 1 /\ service_compare(w, l[i - 1], s) = 0
          \/ i < Len(l) /\ service_compare(w, l[i + 1], s) = 0
       THEN w
       ELSE [w EXCEPT !.list = InsertAt(rest, at, s)]

\* g_sequence_move(src, dst): src is put immediately before dst
SequenceMove(w, src, dst) ==
    LET rest == Remove(w.list, src)
    IN [w EXCEPT !.list = InsertAt(rest, IndexOf(rest, dst), src)]

-----------------------------------------------------------------------------
(* Small helpers of service.c and the collaborators they call.            *)

SetFam(w, s, fam, st) ==
    IF fam = "ipv4" THEN Set(w, s, "state4", st) ELSE Set(w, s, "state6", st)

\* seeded bug: the timer is removed but the pending call left unanswered
reply_pending_keep(w, s) == [w EXCEPT !.svc[s].timeout = FALSE]

reply_pending(w, s) ==
    [w EXCEPT !.svc[s].timeout = FALSE, !.svc[s].pending = FALSE]

\* __connman_network_disconnect (network.c): the link report is left to come
__connman_network_disconnect(w, s) ==
    [w EXCEPT !.net[s] = IF @ = "idle" THEN "idle" ELSE "down"]

__connman_service_disconnect(w, s) == __connman_network_disconnect(w, s)

__connman_wispr_start(w, s, fam) == [w EXCEPT !.portal[s] = @ \cup {fam}]

\* check_proxy_setup: WPAD, when it runs, ends in the same portal probe
check_proxy_setup(w, s) == __connman_wispr_start(w, s, "ipv4")

AgentRequest(w, s, kind) == [w EXCEPT !.agent[s][kind] = @ + 1]

\* seeded bug: the count is decremented without the clamp at zero
service_rp_filter_noclamp(w, s, connected) ==
    IF Method4[s] = "off" THEN w
    ELSE IF connected THEN [w EXCEPT !.rp = @ + 1]
         ELSE [w EXCEPT !.rp = @ - 1]

\* service_rp_filter: only for the IPv4 methods that own an address.  The
\* rp_filter sysctl is assumed to be writable: when
\* __connman_ipconfig_set_rp_filter fails on the second network, the code
\* returns before counting it, and that path is left out.
service_rp_filter(w, s, connected) ==
    IF Method4[s] = "off" THEN w
    ELSE IF connected
         THEN [w EXCEPT !.loose = IF w.rp = 1 THEN TRUE ELSE @,
                        !.rp = @ + 1]
         ELSE [w EXCEPT !.loose = IF w.rp = 2 THEN FALSE ELSE @,
                        !.rp = IF @ - 1 < 0 THEN 0 ELSE @ - 1]

__connman_service_get_order(w, s) ==
    IF w.svc[s].favorite /\ IndexOf(w.list, s) = 1 THEN 1 ELSE 0

__connman_service_set_favorite(w, s, favorite) ==
    IF w.svc[s].favorite = favorite THEN w
    ELSE LET w1 == Set(w, s, "favorite", favorite)
         IN  SortChanged(Set(w1, s, "order",
                             __connman_service_get_order(w1, s)), s)

set_idle(w, s) ==
    [w EXCEPT !.svc[s].state = "idle", !.svc[s].state4 = "idle",
              !.svc[s].state6 = "idle"]

apply_relevant_default_downgrade(w, s) ==
    LET d == get_default(w)
    IN IF d = s /\ w.svc[d].state = "online"
       THEN Set(w, d, "state", "ready") ELSE w

-----------------------------------------------------------------------------
(* The mutually recursive core: auto connect, connect, and the two state  *)
(* indications, exactly as they call each other in service.c.             *)

RECURSIVE AutoConnectFrom(_, _), __connman_service_connect(_, _),
          ConnectFailed(_, _, _), AutoConnectIfReconnect(_, _),
          __connman_service_ipconfig_indicate_state(_, _, _, _),
          service_indicate_state(_, _), IndicateIdle(_, _, _, _),
          IndicateEnter(_, _, _), IndicateFinish(_, _, _),
          service_complete(_, _), DowngradeFrom(_, _), DowngradeAfter(_, _),
          downgrade_state(_, _), DowngradeV6(_, _)

\* the loop of __connman_service_auto_connect, from position i on
AutoConnectFrom(w, i) ==
    IF i > Len(w.list) THEN w
    ELSE LET s == w.list[i] IN
         IF \/ w.svc[s].pending \/ is_connecting(w, s)
            \/ ~w.svc[s].favorite \/ is_connected(w, s)
         THEN w
         ELSE IF ~is_ignore(w, s) /\ w.svc[s].state = "idle"
              THEN __connman_service_connect(
                       Set(w, s, "userconnect", FALSE), s).w
              ELSE AutoConnectFrom(w, i + 1)

__connman_service_auto_connect(w) == AutoConnectFrom(w, 1)

\* service_connect: a PSK wifi service without passphrase cannot start;
\* otherwise __connman_network_connect starts the link (-EINPROGRESS)
service_connect(w, s) ==
    IF Type[s] = "wifi" /\ ~w.svc[s].passphrase
    THEN [w |-> w, err |-> "ENOKEY"]
    ELSE [w |-> [w EXCEPT !.net[s] = "connecting"], err |-> "EINPROGRESS"]

\* seeded bug: the agent is never asked although EINPROGRESS is returned
ConnectFailed_noagent(w, s, err) ==
    CASE ~w.svc[s].userconnect -> [w |-> w, err |-> err]
      [] err = "ENOKEY" /\ HasAgent -> [w |-> w, err |-> "EINPROGRESS"]
      [] OTHER -> [w |-> reply_pending(w, s), err |-> err]

\* the error path of __connman_service_connect, after both families were
\* put to failure and the network disconnected
ConnectFailed(w, s, err) ==
    CASE ~w.svc[s].userconnect -> [w |-> w, err |-> err]
      [] err = "ENOKEY" /\ HasAgent ->
            [w |-> AgentRequest(w, s, "input"), err |-> "EINPROGRESS"]
      [] OTHER -> [w |-> reply_pending(w, s), err |-> err]

__connman_service_connect(w, s) ==
    CASE is_connected(w, s) -> [w |-> w, err |-> "EISCONN"]
      [] is_connecting(w, s) -> [w |-> w, err |-> "EALREADY"]
      [] service_connect(w, s).err = "EINPROGRESS" ->
            [w |-> Set(service_connect(w, s).w, s, "timeout", TRUE),
             err |-> "EINPROGRESS"]
      [] OTHER ->
            ConnectFailed(
              __connman_network_disconnect(
                __connman_service_ipconfig_indicate_state(
                  __connman_service_ipconfig_indicate_state(
                    service_connect(w, s).w, s, "failure", "ipv4"),
                  s, "failure", "ipv6"), s),
              s, service_connect(w, s).err)

service_complete(w, s) ==
    LET w1 == reply_pending(w, s)
    IN IF w1.svc[s].userconnect THEN w1
       ELSE __connman_service_auto_connect(w1)

DowngradeV6(w, s) ==
    IF w.svc[s].state6 = "online"
    THEN __connman_service_ipconfig_indicate_state(w, s, "ready", "ipv6")
    ELSE w

downgrade_state(w, s) ==
    DowngradeV6(IF w.svc[s].state4 = "online"
                THEN __connman_service_ipconfig_indicate_state(
                         w, s, "ready", "ipv4")
                ELSE w, s)

\* downgrade_connected_services: the iterator follows the moved service
DowngradeAfter(w, u) == DowngradeFrom(w, IndexOf(w.list, u) + 1)

DowngradeFrom(w, i) ==
    IF i > Len(w.list) THEN w
    ELSE LET u == w.list[i] IN
         IF ~is_connected(w, u) THEN DowngradeFrom(w, i + 1)
         ELSE IF w.svc[u].state = "online" THEN w
         ELSE DowngradeAfter(downgrade_state(w, u), u)

AutoConnectIfReconnect(w, s) ==
    IF w.reconnect[Device[s]] THEN __connman_service_auto_connect(w) ELSE w

\* service_indicate_state, entering idle: other than from disconnect the
\* pending call is answered and the service disconnected; a service to
\* reconnect starts the auto connect
IndicateIdle(w, s, old, new) ==
    IF new # "idle" THEN w
    ELSE AutoConnectIfReconnect(
             IF old # "disconnect"
             THEN __connman_service_disconnect(reply_pending(w, s), s)
             ELSE w, s)

\* ready: reconnect on, favorite (re-sorted), reply, userconnect off;
\* disconnect: __connman_wispr_stop, downgrade_connected_services
IndicateEnter(w, s, new) ==
    CASE new = "ready" ->
            Set(reply_pending(__connman_service_set_favorite(
                    SetReconnect(w, s, TRUE), s, TRUE), s),
                s, "userconnect", FALSE)
      [] new = "disconnect" -> DowngradeFrom([w EXCEPT !.portal[s] = {}], 1)
      [] OTHER -> w

\* failure with the agent told returns before the re-sort
\* seeded bug: the g_sequence_sort_changed calls are left out
IndicateFinish_nosort(w, s, new) ==
    CASE new = "failure" /\ w.svc[s].userconnect /\ HasAgent ->
            AgentRequest(w, s, "report")
      [] new = "failure" -> service_complete(w, s)
      [] OTHER -> w

IndicateFinish(w, s, new) ==
    CASE new = "failure" /\ w.svc[s].userconnect /\ HasAgent ->
            AgentRequest(w, s, "report")
      [] new = "failure" -> SortChanged(service_complete(w, s), s)
      [] OTHER -> SortChanged(w, s)

\* seeded bug: no check that the default service is already online
service_indicate_state_noguard(w, s) ==
    LET old == w.svc[s].state
        new == combine_state(w.svc[s].state4, w.svc[s].state6)
    IN IF old = new THEN w
       ELSE IndicateFinish(
              IndicateEnter(
                IndicateIdle(Set(w, s, "state", new), s, old, new), s, new),
              s, new)

service_indicate_state(w, s) ==
    LET old == w.svc[s].state
        new == combine_state(w.svc[s].state4, w.svc[s].state6)
        def == get_default(w)
    IN CASE old = new -> w
         [] new = "online" /\ def \notin {NoService, s}
                           /\ w.svc[def].state = "online" -> w
         [] OTHER ->
              IndicateFinish(
                IndicateEnter(
                  IndicateIdle(Set(w, s, "state", new), s, old, new), s, new),
                s, new)

\* the effects on the network layer before the family state is recorded
IpconfigEnter(w, s, new, fam) ==
    CASE new = "ready" /\ fam = "ipv4" ->
            service_rp_filter(check_proxy_setup(w, s), s, TRUE)
      [] new = "ready" -> __connman_wispr_start(w, s, fam)
      [] new = "disconnect" /\ fam = "ipv4" -> service_rp_filter(w, s, FALSE)
      [] OTHER -> w

\* a family whose method is off is put back to idle at once
MethodOffIdle(w, s, fam) ==
    IF Method(s, fam) = "off"
    THEN service_indicate_state(SetFam(w, s, fam, "idle"), s)
    ELSE w

__connman_service_ipconfig_indicate_state(w, s, new, fam) ==
    CASE FamState(w, s, fam) = new -> w
      [] new \in {"unknown", "idle"} /\ w.svc[s].state = "failure" -> w
      [] new = "disconnect" /\ w.svc[s].state = "idle" -> w
      [] OTHER ->
           MethodOffIdle(service_indicate_state(
               SetFam(IpconfigEnter(w, s, new, fam), s, fam, new), s), s, fam)

__connman_service_indicate_error(w, s, error) ==
    __connman_service_ipconfig_indicate_state(
        __connman_service_ipconfig_indicate_state(
            IF error = "invalid-key" THEN Set(w, s, "passphrase", FALSE)
            ELSE w, s, "failure", "ipv4"),
        s, "failure", "ipv6")

\* idle for IPv4 only when it was left unknown or failed
ClearErrorV4(w, s) ==
    IF w.svc[s].state4 \notin {"unknown", "failure"} THEN w
    ELSE __connman_service_ipconfig_indicate_state(w, s, "idle", "ipv4")

\* __connman_service_clear_error: the families go to unknown, then idle
__connman_service_clear_error(w, s) ==
    ClearErrorV4(__connman_service_ipconfig_indicate_state(
        SetReconnect([w EXCEPT !.svc[s].state4 = "unknown",
                               !.svc[s].state6 = "unknown"],
                     s, w.reconnect[Device[s]] \/ w.svc[s].favorite),
        s, "idle", "ipv6"), s)

-----------------------------------------------------------------------------
(* Bounds: the counters the model lets grow are capped here.              *)


Bounded(w) ==
    /\ w.rp <= MaxRp
    /\ \A s \in Services : \A k \in {"input", "report"} : w.agent[s][k] <= MaxAgent

\* every action ends by writing a bounded world back; the world is bound
\* once with \E so that it is computed once, also under ENABLED
Step(w) == \E nw \in {w} : Bounded(nw) /\ Apply(nw)

-----------------------------------------------------------------------------
(* D-Bus methods of net.connman.Service.                                  *)

\* what connect_service replies: a synchronous error drops the pending
\* message
ConnectReply(r, s) ==
    IF r.err # "EINPROGRESS" /\ r.w.svc[s].pending
    THEN Set(r.w, s, "pending", FALSE) ELSE r.w

\* connect_service: refused while a reply is pending or a service of the
\* same type is connecting
connect_service(s) ==
    /\ ~svc[s].pending
    /\ ~\E t \in Services : Type[t] = Type[s] /\ is_connecting(World, t)
    /\ Step(ConnectReply(__connman_service_connect(
                SetReconnect([World EXCEPT !.svc[s].ignore = FALSE,
                                           !.svc[s].userconnect = TRUE,
                                           !.svc[s].pending = TRUE],
                             s, FALSE), s), s))

\* disconnect_service
disconnect_service(s) ==
    Step(__connman_service_disconnect(
             SetReconnect(Set(reply_pending(World, s), s, "ignore", TRUE),
                          s, FALSE), s))

\* remove_service (no reply_pending: the pending call and timer survive)
remove_service(s) ==
    /\ svc[s].favorite \/ svc[s].state = "failure"
    /\ LET w1 == __connman_service_disconnect(SetReconnect(World, s, FALSE), s)
       IN Step(__connman_service_set_favorite(
                   set_idle(Set(w1, s, "passphrase", FALSE), s), s, FALSE))

\* clear_property "Error": set_idle without re-sorting
clear_property_error(s) == Step(set_idle(World, s))

\* clear_property "Passphrase"
clear_property_passphrase(s) ==
    /\ svc[s].passphrase
    /\ Step(Set(World, s, "passphrase", FALSE))

\* set_property "AutoConnect", allowed on favorites only
set_property_autoconnect(s, v) ==
    /\ svc[s].favorite
    /\ svc[s].autoconnect # v
    /\ Step(Set(World, s, "autoconnect", v))

\* move_service's check of two ipconfig states
check_suitable_state(a, b) ==
    {a, b} = {"online", "ready"} \/ a = b

\* seeded bug: move_service without the ipconfig state checks
\* the four method-off checks of move_service
MoveAllowed(s, t) ==
    /\ Method4[t] = "off" /\ Method6[s] # "off"
       => check_suitable_state(svc[t].state6, svc[s].state6)
    /\ Method6[t] = "off" /\ Method4[s] # "off"
       => check_suitable_state(svc[t].state4, svc[s].state4)
    /\ Method4[s] = "off" /\ Method6[t] # "off"
       => check_suitable_state(svc[t].state6, svc[s].state6)
    /\ Method6[s] = "off" /\ Method4[t] # "off"
       => check_suitable_state(svc[t].state4, svc[s].state4)

\* move_service(before): MoveBefore moves s before t; MoveAfter moves t
\* before s; the one going down loses online, the one going up is downgraded
move_service(s, t, before) ==
    /\ svc[s].favorite /\ svc[t].favorite /\ s # t
    /\ MoveAllowed(s, t)
    /\ Step(IF before
            THEN downgrade_state(SequenceMove(
                     apply_relevant_default_downgrade(World, t), s, t), s)
            ELSE downgrade_state(SequenceMove(
                     apply_relevant_default_downgrade(World, s), t, s), t))

-----------------------------------------------------------------------------
(* Timer and agent callbacks.                                             *)

\* connect_timeout
\* a timeout of an auto connect (no pending call) goes on auto connecting
TimeoutAutoConnect(w, s, auto) ==
    IF auto /\ ~w.svc[s].userconnect
    THEN __connman_service_auto_connect(w) ELSE w

connect_timeout(s) ==
    /\ svc[s].timeout
    /\ Step(TimeoutAutoConnect(
             __connman_service_ipconfig_indicate_state(
                 __connman_service_ipconfig_indicate_state(
                     __connman_network_disconnect(
                         [World EXCEPT !.svc[s].timeout = FALSE,
                                       !.svc[s].pending = FALSE], s),
                     s, "failure", "ipv4"), s, "failure", "ipv6"),
             s, ~svc[s].pending))

\* request_input_cb: no credentials completes the service, a passphrase
\* is stored and the connect retried
request_input_cb(s, passphrase) ==
    /\ agent[s]["input"] > 0
    /\ LET w1 == [World EXCEPT !.agent[s]["input"] = @ - 1]
       IN Step(IF passphrase
               THEN __connman_service_connect(
                        Set(w1, s, "passphrase", TRUE), s).w
               ELSE service_complete(w1, s))

\* report_error_cb: retry connects again, otherwise the service completes
report_error_cb(s, retry) ==
    /\ agent[s]["report"] > 0
    /\ LET w1 == [World EXCEPT !.agent[s]["report"] = @ - 1]
       IN Step(IF retry THEN __connman_service_connect(w1, s).w
               ELSE service_complete(w1, s))

-----------------------------------------------------------------------------
(* Calls into service.c made by the network, DHCP, ipconfig, WISPr and    *)
(* device code.  Which call follows which is network.c's protocol.        *)

\* a step that changes something
StepIfChanged(w) == w # World /\ Step(w)

\* a scan finished (device.c) or a network appeared: auto connect
AutoConnect == StepIfChanged(__connman_service_auto_connect(World))

\* the driver associates: both families enter association
NetworkAssociating(s) ==
    /\ net[s] = "connecting"
    /\ Step(__connman_service_ipconfig_indicate_state(
                __connman_service_ipconfig_indicate_state(
                    [World EXCEPT !.net[s] = "up"], s, "association", "ipv4"),
                s, "association", "ipv6"))

\* the link is up: every family with a method starts configuring
NetworkConnected(s) ==
    /\ net[s] = "up" /\ svc[s].state = "association"
    /\ LET w1 == IF Method4[s] = "off" THEN World
                 ELSE __connman_service_ipconfig_indicate_state(
                          World, s, "configuration", "ipv4")
       IN Step(IF Method6[s] = "off" THEN w1
               ELSE __connman_service_ipconfig_indicate_state(
                        w1, s, "configuration", "ipv6"))

\* DHCP obtained a lease
DhcpSuccess(s) ==
    /\ net[s] = "up" /\ Method4[s] = "dhcp"
    /\ svc[s].state4 = "configuration"
    /\ Step(__connman_service_ipconfig_indicate_state(
                World, s, "ready", "ipv4"))

\* service_ip_bound: an IPv6 address with method auto
service_ip_bound(s) ==
    /\ net[s] = "up" /\ Method6[s] = "auto"
    /\ svc[s].state6 = "configuration"
    /\ Step(__connman_service_ipconfig_indicate_state(
                World, s, "ready", "ipv6"))

\* the link went down: disconnect then idle, IPv4 then IPv6
NetworkDisconnected(s) ==
    /\ net[s] # "idle"
    /\ LET ind(w, st, fam) ==
               __connman_service_ipconfig_indicate_state(w, s, st, fam)
           w1 == ind(ind([World EXCEPT !.net[s] = "idle"],
                         "disconnect", "ipv4"), "disconnect", "ipv6")
       IN Step(ind(ind(w1, "idle", "ipv4"), "idle", "ipv6"))

\* the network reports an error: a rejected key while it associates, a
\* DHCP failure while the DHCP client is still looking for a lease
NetworkError(s, error) ==
    /\ \/ error = "invalid-key" /\ net[s] = "connecting"
       \/ error = "dhcp-failed" /\ net[s] = "up"
                               /\ svc[s].state4 = "configuration"
    /\ Step(__connman_service_indicate_error(
                [World EXCEPT !.net[s] = "down"], s, error))

\* the network layer clears a failed service
ClearError(s) ==
    /\ svc[s].state = "failure"
    /\ Step(__connman_service_clear_error(World, s))

\* portal_manage_status: the status probe found no portal
portal_manage_status(s, fam) ==
    /\ fam \in portal[s]
    /\ Step(__connman_service_ipconfig_indicate_state(
                [World EXCEPT !.portal[s] = @ \ {fam}], s, "online", fam))

\* the probe ended otherwise (portal, login needed or request failed)
wispr_portal_error(s, fam) ==
    /\ fam \in portal[s]
    /\ portal' = [portal EXCEPT ![s] = @ \ {fam}]
    /\ UNCHANGED <<svc, list, net, reconnect, agent, rp, loose>>

-----------------------------------------------------------------------------
(* Services as created from their networks while the device was scanning *)
(* (so without the creation-time auto connect): idle, with the favorite,  *)
(* autoconnect and passphrase settings loaded from storage.               *)

InitSvc ==
    {[s \in Services |->
        [state |-> "idle", state4 |-> "idle", state6 |-> "idle",
         favorite |-> fav[s], autoconnect |-> auto[s], ignore |-> FALSE,
         userconnect |-> FALSE, pending |-> FALSE, timeout |-> FALSE,
         order |-> 0, passphrase |-> pass[s] /\ Type[s] = "wifi"]] :
        fav \in [Services -> BOOLEAN], auto \in [Services -> BOOLEAN],
        pass \in [Services -> BOOLEAN]}

Init ==
    /\ svc \in InitSvc
    /\ net = [s \in Services |-> "idle"]
    /\ reconnect = [d \in Devices |-> FALSE]
    /\ agent = [s \in Services |-> [k \in {"input", "report"} |-> 0]]
    /\ portal = [s \in Services |-> {}]
    /\ rp = 0
    /\ loose = FALSE
    /\ list \in {l \in SetToSeqs(Services) :
                   \A i \in 1..Len(l) - 1 :
                       service_compare([svc |-> svc, net |-> net],
                                       l[i], l[i + 1]) < 0}

Next ==
    \/ AutoConnect
    \/ \E s \in Services :
        \/ connect_service(s) \/ disconnect_service(s) \/ remove_service(s)
        \/ clear_property_error(s) \/ clear_property_passphrase(s)
        \/ \E v \in BOOLEAN : set_property_autoconnect(s, v)
        \/ \E t \in Services, b \in BOOLEAN : move_service(s, t, b)
        \/ connect_timeout(s)
        \/ \E b \in BOOLEAN : request_input_cb(s, b) \/ report_error_cb(s, b)
        \/ NetworkAssociating(s) \/ NetworkConnected(s) \/ DhcpSuccess(s)
        \/ service_ip_bound(s) \/ NetworkDisconnected(s) \/ ClearError(s)
        \/ \E e \in {"invalid-key", "dhcp-failed"} : NetworkError(s, e)
        \/ \E fam \in Families :
               portal_manage_status(s, fam) \/ wispr_portal_error(s, fam)

Spec == Init /\ [][Next]_vars

-----------------------------------------------------------------------------
TypeOK ==
    /\ svc \in [Services -> SvcRec]
    /\ list \in SetToSeqs(Services)
    /\ net \in [Services -> {"idle", "connecting", "up", "down"}]
    /\ reconnect \in [Devices -> BOOLEAN]
    /\ agent \in [Services -> [{"input", "report"} -> 0..MaxAgent]]
    /\ portal \in [Services -> SUBSET Families]
    /\ rp \in 0..MaxRp
    /\ loose \in BOOLEAN

-----------------------------------------------------------------------------
(* Properties.                                                            *)

ConnectedSet == {s \in Services : is_connected(World, s)}

\* get_default() (service.c) looks at the head of service_list only.  The
\* default service is meant to be the first connected service of the list
\* (its network carries the default route): whenever some service is
\* connected, the head is that service.
DefaultIsFirstConnected ==
    LET c == SelectInSeq(list, LAMBDA x : is_connected(World, x))
    IN  get_default(World) = IF c = 0 THEN NoService ELSE list[c]

\* service_indicate_state refuses ONLINE while another default service is
\* ONLINE, and a disconnect downgrades the others: at no time are two
\* services ONLINE.
AtMostOneOnline ==
    \A s, t \in Services :
        svc[s].state = "online" /\ svc[t].state = "online" => s = t

\* A Connect call held in service->pending always has something that will
\* answer it: the connect timeout is armed or an agent request is out.
PendingHasAnswerer ==
    \A s \in Services :
        svc[s].pending =>
            \/ svc[s].timeout
            \/ agent[s]["input"] + agent[s]["report"] > 0

\* Every Connect call held in service->pending is eventually answered.
PendingAnswered ==
    \A s \in Services : svc[s].pending ~> ~svc[s].pending


\* Spec section 8: at most one service holds a pending Connect reply
\* (connect_service, remove_service).
AtMostOnePending ==
    \A s, t \in Services : svc[s].pending /\ svc[t].pending => s = t


\* Spec 5: a transition into ONLINE is never observed before the one into
\* READY, and portal probes end when a service leaves READY: a service only
\* enters ONLINE from READY (portal_manage_status).
OnlineOnlyFromReady ==
    [][\A s \in Services :
           svc'[s].state = "online" /\ svc[s].state # "online" =>
               svc[s].state = "ready"]_vars
====
