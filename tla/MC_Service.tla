----------------------------- MODULE MC_Service -----------------------------
(***************************************************************************)
(* Instances of Service for TLC: PSK wifi services w1 (stronger) and w2.  *)
(* The runs differ in the methods, whether an agent is registered, the    *)
(* initial settings and which callbacks the environment may make.         *)
(***************************************************************************)
EXTENDS Service

CONSTANTS w1, w2

Two == {w1, w2}
One == {w1}
MCType == [s \in Two |-> "wifi"]
MCStrength == [s \in Two |-> IF s = w1 THEN 60 ELSE 40]
\* both networks are seen by the one wifi device
MCDevice == [s \in Two |-> "wlan0"]
DHCP == [s \in Two |-> "dhcp"]
V6Off == [s \in Two |-> "off"]
V6Auto == [s \in Two |-> "auto"]

\* w1 is a stored favorite with its passphrase; w2 has a passphrase but
\* was never connected
MCInit ==
    /\ Init
    /\ svc[w1].favorite /\ svc[w1].passphrase /\ svc[w1].autoconnect
    /\ w2 \in Services =>
          ~svc[w2].favorite /\ svc[w2].passphrase /\ svc[w2].autoconnect

\* a single service whose passphrase was never stored
NoKeyInit ==
    /\ Init
    /\ ~svc[w1].favorite /\ ~svc[w1].passphrase /\ svc[w1].autoconnect

\* the connect life cycle: no settings edits, removal or reordering
LifecycleNext ==
    \/ AutoConnect
    \/ \E s \in Services :
        \/ connect_service(s) \/ disconnect_service(s) \/ connect_timeout(s)
        \/ \E b \in BOOLEAN : request_input_cb(s, b) \/ report_error_cb(s, b)
        \/ NetworkAssociating(s) \/ NetworkConnected(s) \/ DhcpSuccess(s)
        \/ service_ip_bound(s) \/ NetworkDisconnected(s) \/ ClearError(s)
        \/ \E e \in {"invalid-key", "dhcp-failed"} : NetworkError(s, e)
        \/ \E fam \in Families :
               portal_manage_status(s, fam) \/ wispr_portal_error(s, fam)

\* the connect life cycle together with reordering by the user
ServiceNext ==
    \/ LifecycleNext
    \/ \E s, t \in Services, b \in BOOLEAN : move_service(s, t, b)

\* the agent round trips of a connect, without captive-portal probes
AgentNext ==
    \/ AutoConnect
    \/ \E s \in Services :
        \/ connect_service(s) \/ disconnect_service(s) \/ connect_timeout(s)
        \/ \E b \in BOOLEAN : request_input_cb(s, b) \/ report_error_cb(s, b)
        \/ NetworkAssociating(s) \/ NetworkConnected(s) \/ DhcpSuccess(s)
        \/ service_ip_bound(s) \/ NetworkDisconnected(s)
        \/ \E e \in {"invalid-key", "dhcp-failed"} : NetworkError(s, e)

\* Weak fairness of the timer and of the agent's answers (a D-Bus call to
\* the agent is answered or times out).  ENABLED of these actions is
\* their guard (their effect is never cut by a bound), so each is written
\* as: if the guard holds from some point on, the step is taken.
WFTimeout(s) ==
    <>[](svc[s].timeout) => []<><<connect_timeout(s)>>_vars
WFInput(s) ==
    <>[](agent[s]["input"] > 0)
        => []<><<\E b \in BOOLEAN : request_input_cb(s, b)>>_vars
WFReport(s) ==
    <>[](agent[s]["report"] > 0)
        => []<><<\E b \in BOOLEAN : report_error_cb(s, b)>>_vars
Fair == \A s \in Services : WFTimeout(s) /\ WFInput(s) /\ WFReport(s)

\* Every pending Connect is answered, in every fair behaviour.
FairPendingAnswered == Fair => PendingAnswered

SingleSpec == MCInit /\ [][Next]_vars
AgentSpec == NoKeyInit /\ [][AgentNext]_vars
=============================================================================
