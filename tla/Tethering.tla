----------------------------- MODULE Tethering -----------------------------
(***************************************************************************)
(* The tethering controller (src/tethering.c) and the two manager methods *)
(* that reach it (src/manager.c).                                          *)
(*                                                                         *)
(* Each technology that tethers calls __connman_tethering_set_enabled and *)
(* later __connman_tethering_set_disabled; a counter makes the first      *)
(* enable build the bridge "tether", add a DNS proxy listener on it,     *)
(* start the DHCP server and enable NAT on the default interface, and the *)
(* last disable undo it.  A private network is a TUN device handed to a  *)
(* D-Bus caller: the request registers a newlink watch, and the watch's   *)
(* callback, setup_tun_interface, configures the device, enables NAT and  *)
(* sends the method reply.  Removing a private network disables NAT.      *)
(*                                                                         *)
(* NAT is what the kernel's nat table holds after a commit: the set of    *)
(* interfaces with a MASQUERADE rule in POSTROUTING, and ip_forward.       *)
(* Each helper that can fail (socket, ioctl, netlink, /proc and /sys       *)
(* writes) is an outcome chosen by the step that calls it.                 *)
(***************************************************************************)
EXTENDS Integers, FiniteSets

CONSTANTS
    Ifaces,       \* upstream interfaces that can be the default
    Tuns,         \* TUN devices connman_inet_create_tunnel can create
    IpForward0,   \* ip_forward as the system had it before connman
    MaxEnabled,   \* bound on the tethering counter
    MaxReplies,   \* bound on the replies sent for one private network
    NULL

VARIABLES
    tethering_enabled,  \* the counter of set_enabled over set_disabled calls
    bridge,             \* "absent" or "up" (up with 192.168.218.1/24)
    dhcp,               \* NULL, or the running server's DNS option:
                        \*   "bridge" (BRIDGE_IP) or "public" (BRIDGE_DNS)
    listener,           \* the DNS proxy listens on the bridge
    ip_forward,
    postrouting,        \* interfaces masqueraded in nat POSTROUTING
    default_interface,
    pn,                 \* per TUN: its connman_private_network, if any
    running             \* FALSE once __connman_tethering_cleanup has run

vars == <<tethering_enabled, bridge, dhcp, listener, ip_forward, postrouting,
          default_interface, pn, running>>
nat == <<ip_forward, postrouting>>

(* A private network: "none" (no entry in pn_hash), "wait" (in pn_hash,   *)
(* no reply sent), "up" (reply sent), or "dangling" (freed on an error   *)
(* path that left its disconnect watch registered).  linkup: the device  *)
(* is up; reported: rtnl has reported the new link; replies: method     *)
(* replies sent for the request.                                          *)
NoPn == [st |-> "none", linkup |-> FALSE, reported |-> FALSE, replies |-> 0]

-----------------------------------------------------------------------------
(* NAT.                                                                    *)

\* seeded bug: the interface is not checked before the rule is added
enable_nat_nonull(iface, ok) ==
    IF ~ok THEN UNCHANGED nat
    ELSE ip_forward' = TRUE /\ postrouting' = {iface}

\* enable_nat: nothing without an interface; else ip_forward is written,
\* POSTROUTING flushed and a MASQUERADE rule for the interface appended
\* and committed.  ok = FALSE: /proc/sys/net/ipv4/ip_forward cannot be
\* opened and nothing is done; the caller sees an error.
enable_nat(iface, ok) ==
    IF iface = NULL \/ ~ok THEN UNCHANGED nat
    ELSE ip_forward' = TRUE /\ postrouting' = {iface}

\* disable_nat: ip_forward := 0 and POSTROUTING flushed
disable_nat == ip_forward' = FALSE /\ postrouting' = {}

-----------------------------------------------------------------------------
(* The tethering counter.                                                  *)

\* set_enabled: only the first user builds the bridge.  create_bridge or
\* enable_bridge may fail ("nobridge", "noenable": the bridge is removed
\* again); the DNS proxy may refuse the listener (the DHCP server then
\* hands out BRIDGE_DNS); dhcp_server_start may fail (the bridge is
\* disabled and removed, the listener stays).  enable_nat's result is
\* ignored.
BridgeOutcomes == {"nobridge", "noenable", "ok"}

__connman_tethering_set_enabled(bridge_out, listen_ok, dhcp_ok, nat_ok) ==
    /\ tethering_enabled' = tethering_enabled + 1
    /\ IF tethering_enabled # 0 \/ bridge_out # "ok"
       THEN UNCHANGED <<bridge, dhcp, listener, ip_forward, postrouting>>
       ELSE /\ listener' = listen_ok
            /\ IF ~dhcp_ok
               THEN /\ bridge' = "absent" /\ dhcp' = NULL
                    /\ UNCHANGED nat
               ELSE /\ bridge' = "up"
                    /\ dhcp' = IF listen_ok THEN "bridge" ELSE "public"
                    /\ enable_nat(default_interface, nat_ok)
    /\ UNCHANGED <<default_interface, pn, running>>

\* seeded bug: the last user's disable leaves NAT in place
__connman_tethering_set_disabled_keepnat ==
    /\ listener' = FALSE
    /\ tethering_enabled' = tethering_enabled - 1
    /\ IF tethering_enabled # 1
       THEN UNCHANGED <<bridge, dhcp, ip_forward, postrouting>>
       ELSE /\ dhcp' = NULL /\ bridge' = "absent"
            /\ UNCHANGED nat
    /\ UNCHANGED <<default_interface, pn, running>>

\* set_disabled: the listener is removed on every call, before the
\* counter is looked at; the last user tears everything down
__connman_tethering_set_disabled ==
    /\ listener' = FALSE
    /\ tethering_enabled' = tethering_enabled - 1
    /\ IF tethering_enabled # 1
       THEN UNCHANGED <<bridge, dhcp, ip_forward, postrouting>>
       ELSE /\ disable_nat
            /\ dhcp' = NULL /\ bridge' = "absent"
    /\ UNCHANGED <<default_interface, pn, running>>

\* update_interface: NULL disables NAT; an interface is recorded and, if
\* tethering is enabled, NAT is moved to it
__connman_tethering_update_interface(iface, nat_ok) ==
    /\ default_interface' = iface
    /\ IF iface = NULL THEN disable_nat
       ELSE IF tethering_enabled = 0 THEN UNCHANGED nat
       ELSE enable_nat(iface, nat_ok)
    /\ UNCHANGED <<tethering_enabled, bridge, dhcp, listener, pn, running>>
-----------------------------------------------------------------------------
(* Private networks.                                                       *)

Live(t) == pn[t].st \in {"wait", "up"}      \* in pn_hash

\* remove_private_network, pn_hash's value destructor: NAT is disabled
\* whatever else uses it, the watches are removed, the fd closed
remove_private_network(t) ==
    /\ disable_nat
    /\ pn' = [pn EXCEPT ![t] = NoPn]

\* __connman_private_network_request on the TUN device t the kernel
\* created.  "notun", "noindex", "nomem": an error is returned and the
\* caller answered at once, nothing is kept.  "noreply": the method
\* return cannot be allocated; pn is freed but its disconnect watch stays,
\* and err still holds connman_inet_set_mtu's result, 0, so no error is
\* returned either.  "ok": pn is in pn_hash, waiting for its link.
RequestOutcomes == {"notun", "noindex", "nomem", "noreply", "ok"}

__connman_private_network_request(t, outcome) ==
    /\ pn[t].st = "none"
    /\ pn' = CASE outcome = "ok"      -> [pn EXCEPT ![t].st = "wait"]
               [] outcome = "noreply" -> [pn EXCEPT ![t].st = "dangling"]
               [] OTHER               -> pn
    /\ UNCHANGED <<tethering_enabled, bridge, dhcp, listener, ip_forward,
                   postrouting, default_interface, running>>

\* manager's RequestPrivateNetwork: replies later, or with the error
request_private_network(t) ==
    \E outcome \in RequestOutcomes : __connman_private_network_request(t, outcome)

\* seeded bug: a NAT failure is logged but never answered
setup_tun_interface_noerr(t, addr_ok, nat_ok) ==
    /\ Live(t) /\ ~pn[t].reported
    /\ IF ~addr_ok
       THEN /\ pn' = [pn EXCEPT ![t].reported = TRUE]
            /\ UNCHANGED nat
       ELSE IF default_interface # NULL /\ ~nat_ok
       THEN /\ pn' = [pn EXCEPT ![t].reported = TRUE, ![t].linkup = TRUE]
            /\ UNCHANGED nat
       ELSE /\ enable_nat(default_interface, nat_ok)
            /\ pn' = [pn EXCEPT ![t] = [@ EXCEPT !.st = "up", !.reported = TRUE,
                                        !.linkup = TRUE, !.replies = @ + 1]]
    /\ UNCHANGED <<tethering_enabled, bridge, dhcp, listener,
                   default_interface, running>>

\* setup_tun_interface, the newlink callback, on a report of the device
\* without IFF_UP: the peer address may fail to be set (the callback
\* returns, and rtnl reports the link no more); otherwise the device is
\* brought up and NAT enabled on the default interface; a NAT failure
\* sends an error and removes pn, success sends pn->reply.  A report with
\* IFF_UP returns at once and is not a step.
setup_tun_interface(t, addr_ok, nat_ok) ==
    /\ Live(t) /\ ~pn[t].reported
    /\ IF ~addr_ok
       THEN /\ pn' = [pn EXCEPT ![t].reported = TRUE]
            /\ UNCHANGED nat
       ELSE IF default_interface # NULL /\ ~nat_ok
       THEN /\ remove_private_network(t)
       ELSE /\ enable_nat(default_interface, nat_ok)
            /\ pn' = [pn EXCEPT ![t] = [@ EXCEPT !.st = "up", !.reported = TRUE,
                                        !.linkup = TRUE, !.replies = @ + 1]]
    /\ UNCHANGED <<tethering_enabled, bridge, dhcp, listener,
                   default_interface, running>>

\* the requester (who holds the fd) takes the link down; rtnl will report
\* the device again without IFF_UP
LinkDown(t) ==
    /\ pn[t].st = "up" /\ pn[t].linkup /\ pn[t].replies < MaxReplies
    /\ pn' = [pn EXCEPT ![t].linkup = FALSE, ![t].reported = FALSE]
    /\ UNCHANGED <<tethering_enabled, bridge, dhcp, listener, ip_forward,
                   postrouting, default_interface, running>>

\* owner_disconnect: the requester left the bus.  For a dangling pn the
\* callback reads freed memory; the model takes the outcome in which the
\* hash lookup of the stale path finds nothing.
owner_disconnect(t) ==
    /\ pn[t].st # "none"
    /\ IF Live(t) THEN remove_private_network(t)
       ELSE /\ pn' = [pn EXCEPT ![t] = NoPn]
            /\ UNCHANGED nat
    /\ UNCHANGED <<tethering_enabled, bridge, dhcp, listener,
                   default_interface, running>>

\* __connman_private_network_release: the path's pn is removed from
\* pn_hash; a path not in it gets EACCES and nothing changes
__connman_private_network_release(t) ==
    /\ Live(t)
    /\ remove_private_network(t)
    /\ UNCHANGED <<tethering_enabled, bridge, dhcp, listener,
                   default_interface, running>>

\* manager's ReleasePrivateNetwork for the object path of t
release_private_network(t) == __connman_private_network_release(t)

-----------------------------------------------------------------------------
\* __connman_tethering_cleanup at shutdown: the bridge is removed only when
\* the counter is 0; destroying pn_hash removes every private network
__connman_tethering_cleanup ==
    /\ running' = FALSE
    /\ IF tethering_enabled = 0
       THEN dhcp' = NULL /\ bridge' = "absent"
       ELSE UNCHANGED <<dhcp, bridge>>
    /\ IF \E t \in Tuns : Live(t) THEN disable_nat ELSE UNCHANGED nat
    /\ pn' = [t \in Tuns |-> IF Live(t) THEN NoPn ELSE pn[t]]
    /\ UNCHANGED <<tethering_enabled, listener, default_interface>>

\* __connman_tethering_init
Init ==
    /\ tethering_enabled = 0 /\ bridge = "absent" /\ dhcp = NULL
    /\ listener = FALSE /\ ip_forward = IpForward0 /\ postrouting = {}
    /\ default_interface = NULL
    /\ pn = [t \in Tuns |-> NoPn]
    /\ running = TRUE

EnableCall ==
    \E b \in BridgeOutcomes, l, d, n \in BOOLEAN :
        /\ tethering_enabled < MaxEnabled
        /\ __connman_tethering_set_enabled(b, l, d, n)

UpdateCall ==
    \E i \in Ifaces \cup {NULL}, n \in BOOLEAN :
        __connman_tethering_update_interface(i, n)

LinkReport(t) == \E a, n \in BOOLEAN : setup_tun_interface(t, a, n)

\* once cleanup has run the daemon has exited and nothing more happens
Next ==
    \/ running /\ EnableCall
    \/ running /\ __connman_tethering_set_disabled
    \/ running /\ UpdateCall
    \/ running /\ \E t \in Tuns : request_private_network(t)
    \/ running /\ \E t \in Tuns : LinkReport(t)
    \/ running /\ \E t \in Tuns : LinkDown(t)
    \/ running /\ \E t \in Tuns : owner_disconnect(t)
    \/ running /\ \E t \in Tuns : release_private_network(t)
    \/ running /\ __connman_tethering_cleanup
    \/ ~running /\ UNCHANGED vars

\* rtnl reports a new link (rtnl.c delivers RTM_NEWLINK to the watch)
Fairness ==
    \A t \in Tuns : WF_vars(running /\ LinkReport(t))

Spec == Init /\ [][Next]_vars /\ Fairness
====
