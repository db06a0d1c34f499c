--------------------------- MODULE MC_Tethering ----------------------------
(***************************************************************************)
(* Model-checking instance of Tethering: two upstream interfaces, two TUN *)
(* devices (two private networks at once), two technologies tethering at  *)
(* once, and a link that may be taken down once after the reply.         *)
(***************************************************************************)
EXTENDS Tethering, TLC

CONSTANTS i1, i2, t1, t2,
          NatMayFail   \* whether enabling NAT may fail in the runs

MCIfaces == {i1, i2}
MCTuns == {t1, t2}

-----------------------------------------------------------------------------
(* The usage tethering.c is written for: every set_disabled matches an     *)
(* earlier set_enabled (technology.c pairs them), and the peer address of *)
(* a fresh TUN device can be set.  NAT may fail only where NatMayFail      *)
(* says so.                                                                *)
UsageEnable ==
    \E b \in BridgeOutcomes, l, d \in BOOLEAN, n \in {TRUE, ~NatMayFail} :
        /\ tethering_enabled < MaxEnabled
        /\ __connman_tethering_set_enabled(b, l, d, n)

UsageUpdate ==
    \E i \in Ifaces \cup {NULL}, n \in {TRUE, ~NatMayFail} :
        __connman_tethering_update_interface(i, n)

UsageReport(t) == \E n \in {TRUE, ~NatMayFail} : setup_tun_interface(t, TRUE, n)

UsageNext ==
    \/ running /\ UsageEnable
    \/ running /\ tethering_enabled > 0 /\ __connman_tethering_set_disabled
    \/ running /\ UsageUpdate
    \/ running /\ \E t \in Tuns : request_private_network(t)
    \/ running /\ \E t \in Tuns : UsageReport(t)
    \/ running /\ \E t \in Tuns : LinkDown(t)
    \/ running /\ \E t \in Tuns : owner_disconnect(t)
    \/ running /\ \E t \in Tuns : release_private_network(t)
    \/ running /\ __connman_tethering_cleanup
    \/ ~running /\ UNCHANGED vars

UsageSpec ==
    Init /\ [][UsageNext]_vars /\ \A t \in Tuns : WF_vars(running /\ UsageReport(t))

-----------------------------------------------------------------------------
TypeOK ==
    /\ tethering_enabled \in 0..MaxEnabled
    /\ bridge \in {"absent", "up"} /\ dhcp \in {NULL, "bridge", "public"}
    /\ listener \in BOOLEAN /\ ip_forward \in BOOLEAN
    /\ postrouting \in SUBSET Ifaces
    /\ default_interface \in Ifaces \cup {NULL}
    /\ pn \in [Tuns -> [st : {"none", "wait", "up", "dangling"},
                        linkup : BOOLEAN, reported : BOOLEAN,
                        replies : 0..MaxReplies]]
    /\ running \in BOOLEAN

(* Enabling tethering and disabling it again, in any interleaving with    *)
(* interface changes and private networks coming and going, leaves no     *)
(* bridge, no DHCP server, no DNS listener and no MASQUERADE rule once the *)
(* counter is back at 0 and no private network is left                   *)
(* (__connman_tethering_set_disabled, remove_private_network).            *)
RoundTrip ==
    (tethering_enabled = 0 /\ \A t \in Tuns : ~Live(t))
      => /\ bridge = "absent" /\ dhcp = NULL
         /\ ~listener /\ postrouting = {}

(* Every RequestPrivateNetwork that __connman_private_network_request     *)
(* accepted is answered (setup_tun_interface sends the reply or an error) *)
(* or its private network is removed: the caller does not wait forever.   *)
PrivateNetworkAnswered ==
    \A t \in Tuns : pn[t].st = "wait" ~> pn[t].st # "wait"

(* While tethering runs with its DHCP server, or a private network has     *)
(* been answered, forwarding is on and exactly the default interface is   *)
(* masqueraded: the NAT that enable_nat set up for one user is not taken  *)
(* away or left behind by another (disable_nat in remove_private_network, *)
(* __connman_tethering_update_interface).                                  *)
NatUsers ==
    \/ tethering_enabled > 0 /\ dhcp # NULL
    \/ \E t \in Tuns : pn[t].st = "up"

NatForUpstream ==
    NatUsers /\ default_interface # NULL
      => ip_forward /\ postrouting = {default_interface}
====
