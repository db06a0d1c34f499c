------------------------------- MODULE MC_Time -------------------------------
(***************************************************************************)
(* The time module of spec L: the SNTP client (Ntp, used as in MC_Ntp)    *)
(* and the clock facade (Clock) in one daemon.  Their callbacks           *)
(* interleave, and both set the system clock: decode_msg with adjtime or  *)
(* settimeofday, set_property "Time" with settimeofday.                   *)
(*                                                                         *)
(* Two zones; Timeservers arrays of plain names, an empty name before or  *)
(* after a name, and a name with a space; TimeUpdates and TimezoneUpdates *)
(* strings "manual", "auto" and one the code does not know.               *)
(***************************************************************************)
EXTENDS MC_Ntp, Sequences

CONSTANTS z1, z2, NoZone

VARIABLES time_updates_config, timezone_updates_config, timezone_config,
          timeservers_config, localtime, zone_changed, view

MCZones == {z1, z2}
NameA == <<"a">>
NameB == <<"b">>
MCServerInputs ==
    {<<>>, <<NameA>>, <<NameA, NameB>>, <<<<"a", " ", "b">>>>,
     <<<<>>, NameA>>, <<NameA, <<>>>>}
MCUpdateStrings == {"manual", "auto", "bogus"}

C == INSTANCE Clock WITH Zones <- MCZones, NULL <- NoZone,
                         ServerInputs <- MCServerInputs,
                         UpdateStrings <- MCUpdateStrings,
                         time_updates_config <- time_updates_config,
                         timezone_updates_config <- timezone_updates_config,
                         timezone_config <- timezone_config,
                         timeservers_config <- timeservers_config,
                         localtime <- localtime, zone_changed <- zone_changed,
                         clock <- clock, view <- view

ntpvars == <<resolv, lookup, channel_watch, timers, requests, replies,
             transmit_delay>>
clockvars == <<time_updates_config, timezone_updates_config, timezone_config,
               timeservers_config, localtime, zone_changed, view>>
allvars == <<vars, clockvars>>

-----------------------------------------------------------------------------
(* The SNTP client is used as in MC_Ntp; the zone lookup of timezone.c  *)
(* finds the zone it wrote.                                               *)
\* each step is one callback of one of the two parts
TimeNext ==
    \/ UsageStart /\ UNCHANGED clockvars
    \/ \E found, sock_ok \in BOOLEAN :
          resolv_result(found, sock_ok) /\ UNCHANGED clockvars
    \/ next_request /\ UNCHANGED clockvars
    \/ \E poll \in Polls, sync, small, sys_ok \in BOOLEAN :
          received_data(poll, sync, small, sys_ok) /\ UNCHANGED clockvars
    \/ ChannelError /\ UNCHANGED clockvars
    \/ UsageStop /\ UNCHANGED clockvars
    \/ ServerReply /\ UNCHANGED clockvars
    \/ \E ok \in BOOLEAN : C!SetTime(ok) /\ UNCHANGED ntpvars
    \/ \E v \in MCUpdateStrings : C!SetTimeUpdates(v) /\ UNCHANGED ntpvars
    \/ \E v \in MCUpdateStrings : C!SetTimezoneUpdates(v) /\ UNCHANGED ntpvars
    \/ \E z \in MCZones, ok \in BOOLEAN : C!SetTimezone(z, ok) /\ UNCHANGED ntpvars
    \/ \E l \in MCServerInputs : C!SetTimeservers(l) /\ UNCHANGED ntpvars
    \/ C!__connman_clock_update_timezone(TRUE) /\ UNCHANGED ntpvars

TimeSpec ==
    /\ C!Init /\ Init
    /\ [][TimeNext]_allvars
    /\ Fairness

-----------------------------------------------------------------------------
ClockTypeOK ==
    /\ time_updates_config \in C!UpdateModes
    /\ timezone_updates_config \in C!UpdateModes
    /\ timezone_config \in MCZones \cup {NoZone} /\ localtime \in MCZones
    /\ zone_changed \in BOOLEAN
    /\ timeservers_config \in Seq(Seq({"a", "b"}))

(* A client that read GetProperties once and then applies every          *)
(* PropertyChanged of net.connman.Clock has the properties GetProperties  *)
(* reports now, whatever the order of SetProperty calls and zone-file     *)
(* events (set_property, append_timeservers reading the stored array,    *)
(* __connman_clock_update_timezone).                                      *)
ClientView == view = C!GetProperties
====
