------------------------------ MODULE MC_Ntp --------------------------------
(***************************************************************************)
(* Model-checking instance of Ntp.  Servers answer with poll exponents    *)
(* -1 (a delay of 0), 0, 4 and 10 (the client's minimum and maximum), 6,  *)
(* 32 (a delay cut to 0 by the guint) and 100 (an undefined shift).        *)
(***************************************************************************)
EXTENDS Ntp, TLC

MCPolls == {-1, 0, 4, 6, 10, 32, 100}

-----------------------------------------------------------------------------
(* The usage ntp.c is written for: a network that neither loses nor      *)
(* duplicates datagrams, starts and stops that alternate, and no start    *)
(* while a next_request timer of the stopped session is armed (starts     *)
(* further apart than the poll interval).                                 *)
UsageStart ==
    resolv # "alive" /\ timers = 0 /\ \E ok \in BOOLEAN : __connman_ntp_start(ok)

UsageStop == resolv = "alive" /\ __connman_ntp_stop

UsageNext ==
    \/ UsageStart
    \/ \E found, sock_ok \in BOOLEAN : resolv_result(found, sock_ok)
    \/ next_request
    \/ \E poll \in Polls, sync, small, sys_ok \in BOOLEAN :
          received_data(poll, sync, small, sys_ok)
    \/ ChannelError
    \/ UsageStop
    \/ ServerReply

UsageSpec == Init /\ [][UsageNext]_vars /\ Fairness

-----------------------------------------------------------------------------
TypeOK ==
    /\ resolv \in {"null", "alive", "freed"}
    /\ lookup \in BOOLEAN /\ channel_watch \in BOOLEAN
    /\ lookup => resolv = "alive"
    /\ timers \in 0..MaxInFlight /\ requests \in 0..MaxInFlight
    /\ replies \in 0..MaxInFlight
    /\ transmit_delay \in 0..(2^30)
    /\ clock \in {"untouched", "adjusted", "stepped", "set"}  \* "set": clock.c

(* While the socket's watch exists, exactly one step of the poll cycle is *)
(* outstanding: a request on its way, a reply on its way, or an armed     *)
(* next_request timer.  None means synchronisation has stopped for good   *)
(* (send_packet and next_request never retransmit); two mean a second     *)
(* request chain (received_data arms a timer for every datagram; a timer *)
(* left by __connman_ntp_stop sends on the next session's socket).        *)
PollCycle == channel_watch => Outstanding = 1
====
