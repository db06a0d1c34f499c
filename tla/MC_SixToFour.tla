--------------------------- MODULE MC_SixToFour ----------------------------
(***************************************************************************)
(* Model-checking instance of SixToFour: one public and one private        *)
(* address, two GWebs (two probes that reach the HTTP check), and status   *)
(* server answers 200 or 404, plain or chunked, with a one-byte body or a  *)
(* sixteen-byte chunk whose size is the two hex digits "10".              *)
(***************************************************************************)
EXTENDS SixToFour, TLC

CONSTANTS w1, w2

MCAddrs == {"A", "P"}
MCPrivateAddrs == {"P"}
MCWebIds == {w1, w2}
MCResponses ==
    {Response(code, chunked, chunks) :
        code \in {200, 404}, chunked \in BOOLEAN,
        chunks \in {<<<<"x">>>>, <<[i \in 1..16 |-> "x"]>>}}

-----------------------------------------------------------------------------
(* The usage the controller is written for: the address is not taken away *)
(* and no new probe is made while a solicitation, an HTTP check or an     *)
(* unref_web timer of the previous probe is outstanding (calls further    *)
(* apart than a second and an HTTP exchange); no router answers;          *)
(* tunnel_create and                                                       *)
(* the resolver lookup start.  The runs that drop these assumptions show   *)
(* what goes wrong without them.                                          *)
Quiet ==
    /\ rs = NULL /\ timers = 0
    /\ \A w \in WebIds : Live(w) => Finished(S(w))

UsageNext ==
    \/ \E a \in Addrs : AddressUp(a)
    \/ Quiet /\ Probe
    \/ ProbeRefused
    \/ Quiet /\ __connman_6to4_remove
    \/ /\ rs # NULL /\ rs' = NULL /\ UNCHANGED <<addr, answered>>
       /\ \E outcome \in {"nosetup", "ok"}, w \in WebIds, resp \in Responses :
             init_6to4(rs, outcome, w, resp)
    \/ Web
    \/ unref_web

UsageSpec == Init /\ [][UsageNext]_vars /\ Fairness

-----------------------------------------------------------------------------
TypeOK ==
    /\ tunnel_created \in {0, 1} /\ tunnel_pending \in {0, 1}
    /\ tunnel_ip_address \in Addrs \cup {NULL}
    /\ web \in WebIds \cup {NULL} /\ web_request_id \in {0, 1}
    /\ \A w \in WebIds : webs[w].state \in {"unused", "alive", "freed"}
    /\ rs \in Addrs \cup {NULL} /\ timers \in 0..Cardinality(WebIds)
    /\ addr \in Addrs \cup {NULL} /\ answered \subseteq WebIds

(* Once a response has been read to its end and the client has seen the   *)
(* end of file, the result function (received_data, handle_body,          *)
(* decode_chunked) has been handed exactly the body the server sent, and  *)
(* result.status is the server's status code, however the response was    *)
(* split into reads.                                                      *)
BodyAsSent ==
    \A w \in WebIds :
        LET s == S(w) IN
        Live(w) /\ s.sent /\ ~s.watch /\ s.pos = Len(s.resp.bytes)
          => s.body = s.resp.body /\ s.status = s.resp.status

(* web_result keeps a tunnel (tunnel_created set, tunnel_pending cleared) *)
(* only on an answer that came through it: the current web, the one       *)
(* init_6to4 bound to the tunnel, is one whose result function has run.  *)
KeptOnOwnProbe ==
    tunnel_created = 1 /\ tunnel_pending = 0 => web \in answered

(* Every probe __connman_6to4_probe starts is eventually decided:          *)
(* tunnel_pending is cleared by web_result or tunnel_destroy, so that a   *)
(* later probe can run.                                                    *)
ProbeDecides == tunnel_pending = 1 ~> tunnel_pending = 0
====
