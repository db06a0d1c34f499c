------------------------------- MODULE Clock -------------------------------
(***************************************************************************)
(* The clock facade (src/clock.c): the Time, TimeUpdates, Timezone,       *)
(* TimezoneUpdates and Timeservers properties of net.connman.Clock.        *)
(*                                                                         *)
(* set_property checks the argument type and the update mode, changes one *)
(* setting and emits PropertyChanged; get_properties reads the settings.  *)
(* A D-Bus client that read GetProperties once and then follows the       *)
(* signals keeps its own copy of the properties, the variable view.       *)
(*                                                                         *)
(* Writing /etc/localtime and finding its zone again are done by          *)
(* timezone.c, which is not in this repository: __connman_timezone_change *)
(* may fail, and the zone file's watch later calls                        *)
(* __connman_clock_update_timezone, whose lookup may find no zone.         *)
(*                                                                         *)
(* A time server name is a sequence of characters, since Timeservers is   *)
(* stored by joining the names with spaces and splitting at spaces again. *)
(***************************************************************************)
EXTENDS Sequences
LOCAL INSTANCE SequencesExt

CONSTANTS
    Zones,          \* time zones /etc/localtime may name
    NULL,
    ServerInputs,   \* Timeservers arrays a client may set
    UpdateStrings   \* strings a client may set TimeUpdates and
                    \* TimezoneUpdates to

VARIABLES
    time_updates_config,      \* "manual" or "auto"
    timezone_updates_config,  \* "manual" or "auto"
    timezone_config,          \* the zone last looked up, or NULL
    timeservers_config,       \* the stored names (NULL is <<>>)
    localtime,                \* the zone /etc/localtime names
    zone_changed,             \* the zone file's watch is due to fire
    clock,                    \* the system clock, shared with ntp.c
    view                      \* the client's copy of the properties

cvars == <<time_updates_config, timezone_updates_config, timezone_config,
           timeservers_config, localtime, zone_changed, view>>

UpdateModes == {"manual", "auto"}

\* string2time_updates, string2timezone_updates: any other string is
\* UNKNOWN
String2Updates(value) == IF value \in UpdateModes THEN value ELSE "unknown"

\* what get_properties reports: Timezone is left out while
\* timezone_config is NULL, and a NULL Timeservers is an empty array
GetProperties ==
    [time_updates |-> time_updates_config,
     timezone |-> timezone_config,
     timezone_updates |-> timezone_updates_config,
     timeservers |-> timeservers_config]

\* The loop over the array's strings: each is appended to str, after a
\* space when str is not empty.
JoinServers(list) ==
    FoldLeft(LAMBDA str, val :
                 IF Len(str) > 0 THEN str \o <<" ">> \o val ELSE str \o val,
             <<>>, list)

\* g_strsplit_set(str, " ", 0): the fields between spaces, empty ones
\* included
RECURSIVE Fields(_, _)
Fields(str, field) ==
    IF str = <<>> THEN <<field>>
    ELSE IF Head(str) = " " THEN <<field>> \o Fields(Tail(str), <<>>)
    ELSE Fields(Tail(str), Append(field, Head(str)))

StoredServers(list) ==
    LET str == JoinServers(list) IN IF str = <<>> THEN <<>> ELSE Fields(str, <<>>)

-----------------------------------------------------------------------------
\* set_property "Time": refused unless TimeUpdates is manual; settimeofday
\* may fail.  The PropertyChanged carries the current time, which the
\* client's copy does not keep.
SetTime(sys_ok) ==
    /\ time_updates_config = "manual" /\ sys_ok
    /\ clock' = "set"
    /\ UNCHANGED cvars

\* set_property "TimeUpdates": an unknown string is refused, the current
\* value is answered without a signal
SetTimeUpdates(strval) ==
    /\ String2Updates(strval) # "unknown"
    /\ String2Updates(strval) # time_updates_config
    /\ time_updates_config' = String2Updates(strval)
    /\ view' = [view EXCEPT !.time_updates = strval]
    /\ UNCHANGED <<timezone_updates_config, timezone_config,
                   timeservers_config, localtime, zone_changed, clock>>

\* set_property "Timezone": refused unless TimezoneUpdates is manual;
\* __connman_timezone_change writes /etc/localtime or fails.  No signal:
\* timezone_config changes when the file's watch fires.
SetTimezone(strval, ok) ==
    /\ timezone_updates_config = "manual" /\ ok
    /\ localtime' = strval /\ zone_changed' = TRUE
    /\ UNCHANGED <<time_updates_config, timezone_updates_config,
                   timezone_config, timeservers_config, clock, view>>

\* seeded bug: UNKNOWN is not refused
SetTimezoneUpdates_nocheck(strval) ==
    /\ String2Updates(strval) # timezone_updates_config
    /\ timezone_updates_config' = String2Updates(strval)
    /\ view' = [view EXCEPT !.timezone_updates = strval]
    /\ UNCHANGED <<time_updates_config, timezone_config,
                   timeservers_config, localtime, zone_changed, clock>>

\* set_property "TimezoneUpdates", as "TimeUpdates"
SetTimezoneUpdates(strval) ==
    /\ String2Updates(strval) # "unknown"
    /\ String2Updates(strval) # timezone_updates_config
    /\ timezone_updates_config' = String2Updates(strval)
    /\ view' = [view EXCEPT !.timezone_updates = strval]
    /\ UNCHANGED <<time_updates_config, timezone_config,
                   timeservers_config, localtime, zone_changed, clock>>

\* seeded bug: the signal is built before the new array is stored
SetTimeservers_early_signal(list) ==
    /\ timeservers_config' = StoredServers(list)
    /\ view' = [view EXCEPT !.timeservers = timeservers_config]
    /\ UNCHANGED <<time_updates_config, timezone_updates_config,
                   timezone_config, localtime, zone_changed, clock>>

\* set_property "Timeservers": the strings are joined with spaces, the
\* old array freed, the string split at spaces and stored (NULL when
\* empty), and append_timeservers signals the stored array
SetTimeservers(list) ==
    /\ timeservers_config' = StoredServers(list)
    /\ view' = [view EXCEPT !.timeservers = timeservers_config']
    /\ UNCHANGED <<time_updates_config, timezone_updates_config,
                   timezone_config, localtime, zone_changed, clock>>

\* __connman_clock_update_timezone, called by the zone file's watch: the
\* old zone is freed and looked up again; when the lookup finds none,
\* timezone_config stays NULL and nothing is signalled
__connman_clock_update_timezone(found) ==
    /\ zone_changed /\ zone_changed' = FALSE
    /\ timezone_config' = IF found THEN localtime ELSE NULL
    /\ view' = IF found THEN [view EXCEPT !.timezone = localtime] ELSE view
    /\ UNCHANGED <<time_updates_config, timezone_updates_config,
                   timeservers_config, localtime, clock>>

-----------------------------------------------------------------------------
\* __connman_clock_init: both modes auto, the zone looked up once, no
\* time servers; the client starts from a GetProperties
Init ==
    /\ time_updates_config = "auto" /\ timezone_updates_config = "auto"
    /\ localtime \in Zones /\ timezone_config = localtime
    /\ timeservers_config = <<>> /\ zone_changed = FALSE
    /\ view = GetProperties

Next ==
    \/ \E ok \in BOOLEAN : SetTime(ok)
    \/ \E v \in UpdateStrings : SetTimeUpdates(v) \/ SetTimezoneUpdates(v)
    \/ \E z \in Zones, ok \in BOOLEAN : SetTimezone(z, ok)
    \/ \E l \in ServerInputs : SetTimeservers(l)
    \/ \E found \in BOOLEAN : __connman_clock_update_timezone(found)
====
