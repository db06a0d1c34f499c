# TLA+ models of connman

This directory holds TLA+ models of the connection manager under `src/`. The TLC
configurations here check them. `PROJECT.json` lists the components, the runs,
the seeded-bug mutants, the source lines every definition models, the findings
and the hazards.

## The system and its parts

connman is a single-threaded daemon. It runs one GLib main loop, and every D-Bus
method, timer, agent reply and kernel or supplicant event is handled by a
callback that runs to completion. Concurrency is therefore the *interleaving of
callbacks*: a D-Bus Connect, a DHCP result, a WISPr probe reply and a timer
expiry can arrive in any order. Each callback sees the state the earlier ones
left.

The parts in `src/` are:

| Part | Source | Role |
|---|---|---|
| Service model | `src/src/service.c` | One service per network. It keeps the combined state (from the IPv4 and IPv6 ipconfig states), the sorted service list, the default service, auto connect, the pending D-Bus reply, the connect timer, agent requests and the rp_filter counter. |
| WISPr | `src/src/wispr.c` | The captive-portal probe, started per family when it reaches READY. Success promotes the family to ONLINE. |
| Firewall | `src/src/iptables.c` | An in-memory mirror of an iptables table: chains, rules, offsets, hooks and jumps, committed with setsockopt. |
| HTTP client | `src/gweb/gweb.c` | GET and POST sessions: name resolution, the send watch, the receive watch that parses the status line, headers and a plain or chunked body, and the caller's result function. Used by WISPr and 6to4. |
| 6to4 | `src/src/6to4.c` | The 6-to-4 tunnel: a router solicitation, then, with no router, the tunnel and an HTTP check through it that decides whether to keep it. |
| Tethering | `src/src/tethering.c` | Bridge, DHCP server, NAT and private networks (TUN devices handed to D-Bus callers). |
| NTP | `src/src/ntp.c` | The SNTP client: resolve the server, send a request, decode the reply (adjtime or settimeofday), arm the next request. |
| Clock | `src/src/clock.c` | The Time, TimeUpdates, Timezone, TimezoneUpdates and Timeservers properties of net.connman.Clock. |
| Manager | `src/src/manager.c` | The D-Bus facade that dispatches to the parts above. |
| Logging | `src/src/log.c` | syslog and debug output. |
| Supplicant D-Bus | `src/gsupplicant/dbus.c` | Marshalling helpers. |
| Provider interface | `src/include/provider.h` | VPN provider declarations. |

Network, device, ipconfig and DHCP code (`network.c`, `device.c`, `ipconfig.c`,
`dhcp.c`) is not under `src/`. What these files do to a service is modelled from
`spec.md`, and those definitions are marked `spec_modelled` in the map.

## Modules

### `Service.tla`: the service model (service.c, parts of wispr.c)

**State.** The module's variables mirror the code as follows:

| Variable | Code |
|---|---|
| `svc[s]` | The fields of `struct connman_service` that the control flow reads: `state`, `state_ipv4`, `state_ipv6`, `favorite`, `autoconnect`, `ignore`, `userconnect`, `pending` (a D-Bus reply is stored), `timeout` (the connect timer is armed), `order` and `passphrase` (one is stored). |
| `list` | `service_list`, the GSequence ordered by `service_compare`. |
| `net[s]` | The network as `network.c` sees it: idle, connecting, or up. `network->connecting` is a sort key. |
| `reconnect[d]` | The per-device reconnect flag (`set_reconnect_state`/`get_reconnect_state`). |
| `agent[s]` | Outstanding agent passphrase requests and error reports. |
| `portal[s]` | The families with a WISPr probe in flight. |
| `rp` | `connected_networks_count`. |
| `loose` | The rp_filter loose mode. |

**Operators.** Every C function on the call tree is an operator from a world
record to a world record. A C function that calls another is the operator
applied to the other's result. The mutually recursive core is declared
`RECURSIVE`:

- auto connect, connect and connect failure (`__connman_service_connect` calls
  `ipconfig_indicate_state` calls `service_indicate_state`, which calls auto
  connect);
- `service_indicate_state`, split into its idle, enter-state and finish
  stages;
- `__connman_service_ipconfig_indicate_state`;
- the downgrade of the other services.

Each **action** is one whole callback, with all of these calls folded in:

- the D-Bus methods `connect_service`, `disconnect_service`, `remove_service`,
  ClearProperty `Error` and `Passphrase`, SetProperty `AutoConnect`, and
  MoveBefore/MoveAfter (`move_service`);
- the `connect_timeout` timer;
- the agent callbacks `request_input_cb` and `report_error_cb`;
- the calls other code makes into service.c: network associating, connected,
  DHCP success, `service_ip_bound`, network disconnected, errors, clear error;
- the WISPr outcomes `portal_manage_status` and `wispr_portal_error`;
- auto connect as its own step. Device and network code schedule it from idle
  callbacks (spec 4.G).

An action writes the resulting world back to the variables only if every
bounded counter stays within its bound (`Bounded`).

**Data abstractions:**

- Error codes are strings such as `"EINPROGRESS"` and `"ENOKEY"`.
- D-Bus messages are reduced to "a reply is stored".
- Strength is a number.
- The timer is a flag, because the model has no time.
- Properties, nameservers, proxies, statistics and storage beyond the loaded
  `favorite`, `autoconnect` and `passphrase` are left out.

### `MC_Service.tla`: instances for TLC

This module defines two PSK wifi services. `w1` is stronger and is a stored
favorite. `w2` has never been connected. Both are on one device.

It also defines:

- the initial-state variants `MCInit` and `NoKeyInit`;
- the sub-relations `LifecycleNext`, `ServiceNext` and `AgentNext`. They let each
  run explore its question within minutes;
- the fairness used for liveness.

## Runs

The passing runs are:

| Run | Bounds | Checks | Shows |
|---|---|---|---|
| `Service_lifecycle` | 2 services, IPv4 only, no agent | `TypeOK`, `DefaultIsFirstConnected`, `AtMostOneOnline`, `PendingHasAnswerer` | Every interleaving of connect, disconnect, auto connect, timeouts, link, DHCP, errors and portal results keeps the default first, at most one service ONLINE, and every pending Connect with a timer. |
| `Service_single` | 1 dual-stack service, all actions | `PendingHasAnswerer`, `FairPendingAnswered` | Settings, Remove and ClearProperty included, a pending Connect always has an answerer and is answered when the timer fires. |
| `Service_agent` | 1 dual-stack service without a passphrase, agent registered | `PendingHasAnswerer`, `FairPendingAnswered` | The agent round trips (input request, error report, retry) keep the pending Connect answerable, and it is answered. |

Each of the following runs checks one property, and TLC finds it violated by
what the code does. `PROJECT.json` records each as a finding:

| Run | Property | What the code does |
|---|---|---|
| `Service_two_pending` | `AtMostOnePending` | `remove_service` keeps the pending reply and timer, so a Connect to another service makes two pending calls. |
| `Service_online` | `OnlineOnlyFromReady` (action property) | The IPv6 portal probe is stopped only on DISCONNECT. After a DHCP failure its success takes the FAILURE service to ONLINE. |

Three further defects of service.c are kept as hazards in `PROJECT.json`, with
notes, and have no run of their own:

- The auto-connect walk returns at pending or connecting services only
  *before* its candidate (service.c 3025). So it starts w1 while the user's w2
  is connecting.
- `downgrade_state` re-enters READY, and `service_rp_filter(TRUE)` counts the
  same network a second time (4396). Loose mode then stays on with one network.
- A FAILURE reported to the agent returns before `g_sequence_sort_changed`
  (4165). The failed service stays first.
- `request_input_cb` ignores the result of its retried connect (3998). If the
  service became connected while the agent was asked, the EISCONN leaves the
  pending Connect with no answer and no timer. `PendingHasAnswerer` catches
  it; the passing runs check it.

**Mutants.** Every property of every passing run has a mutant in
`PROJECT.json`, and TLC finds the property violated once the mutant is in:

| Mutant | Breaks |
|---|---|
| no clamp of the rp counter | `TypeOK` |
| no re-sort on a state change | `DefaultIsFirstConnected` |
| no check that another service is already ONLINE | `AtMostOneOnline` |
| `reply_pending` that keeps the reply | `PendingHasAnswerer`, `FairPendingAnswered` |
| a connect failure that never asks the agent | the agent run's properties |

**Bounds.** The bounds were chosen as follows:

- Two services cover the checks that need two of them: ordering, the default,
  at most one ONLINE, the auto-connect walk and the downgrade of another
  service.
- Putting both on one device makes the per-device reconnect flag shared, as it
  is for two access points.
- `MaxRp` caps `connected_networks_count`. `Bounded` drops any step whose
  resulting count exceeds it, so no behaviour goes past that step.
  - The count is unbounded in the code: every downgrade from ONLINE to READY
    counts the network again (service.c 4396). Raising the bound from 2 to
    3 and 4 adds states each time.
  - `MaxRp = 3` in the two-service pass run keeps two connected networks
    plus one double count. The single-service runs use 2: one network plus
    one double count.
  - Steps past the bound are cut. These are further downgrades of a service
    already counted twice.
- `MaxAgent = 1` allows one outstanding request of each kind. A second request
  is dropped by `Bounded` and does not occur in the passing runs' reachable
  states.
- The two-service runs keep IPv6 off so that a run finishes in under a minute.
  Dual stack is covered by the one-service runs and by the violation runs that
  need it.

**Fairness.** The GLib timer fires, so `connect_timeout` is weakly fair. An
agent D-Bus call is answered or times out (the agent code sets a timeout on
the call), so the two agent callbacks are weakly fair. User actions are not
fair. Network events are not fair either: a link may never come up. Liveness
is therefore `Fair => PendingAnswered`: under these fairness conditions, a
pending Connect is eventually answered.

## The firewall engine

### `Iptables.tla`: the mirror of a kernel table (iptables.c)

`iptables.c` keeps one table in memory as a GList of entries. Each entry has:

- a byte offset;
- the hook it heads, or -1;
- the kernel-layout `ipt_entry` with its target.

It also keeps the per-hook `hook_entry` and `underflow` byte cursors. A jump
is a standard target whose verdict is the byte offset of the entry it
enters. Every edit therefore has to move offsets, cursors and jump verdicts
together. This is what the model checks.

- **State.** `mirror` is the table in `table_hash`, or `NoTable`. `kernel` is
  what the kernel holds.
- **Entries.** An entry is a record of its size, its target and its `ipt_ip`
  match, which is a member of `Addrs`. Byte sizes are kept: 112 for an entry,
  40 for a standard target, 64 for an error target and 72 for MASQUERADE.
  This lets offsets and jump verdicts be computed as in the code.
- **Helpers.** Each C helper is an operator of the same name:
  `find_chain_head`, `find_chain_tail`, `update_offsets`,
  `update_targets_reference`, `iptables_add_entry`, `remove_table_entry`,
  `update_hooks`, `prepare_rule_inclusion`, `is_same_rule`,
  `is_hook_entry`, `iptables_init` and `iptables_blob`.
- **Commands.** Each operation of `__connman_iptables_command` is one action:
  - `AddChain` (-N), `DeleteChain` (-X), `FlushChain` (-F) and
    `ChangePolicy` (-P);
  - `AppendRule` (-A), `InsertRule` (-I) and `DeleteRule` (-D).

  Each action works on `Current`: the mirror, or the kernel table loaded by
  `iptables_init` when there is no mirror. That is what
  `get_table`/`table_hash` does.
- **Commit.** `Commit` is `__connman_iptables_commit`. If the kernel accepts
  the blob it replaces the kernel table and drops the mirror. If the kernel
  refuses it, the mirror stays.
- **Use after free.** `iptables_delete_rule` reads `list->next` of a GList
  node it has just freed (line 854). The model takes the read value as a
  nondeterministic `next_intact`.

### `Firewall.tla`: what the engine promises (spec 4.E)

Chains are sequences of rules, user chains come and go, and built-in chains
have a policy. `committed` is the table the kernel last accepted. A command
on a chain or target that does not exist changes nothing.

### `MC_Iptables.tla` and `MC_IptablesRefines.tla`

`MC_Iptables` instantiates the filter table with:

- the INPUT and OUTPUT hooks, so that one chain's edits move a later chain's
  cursors;
- one user chain `c1` and one match `a`;
- three targets: a verdict, an extension target of a different size, and a
  jump;
- `MaxEntries = 6`.

These bounds allow a rule in each chain, a jump into `c1`, and a chain that
has rules both before and after it. The bound is small. After `-N c1`, 5
entries are taken, so one rule fits and no entry moves while a jump
exists, except the jump itself. The jump-moving cases of
`update_targets_reference`, `-F` and `-X` need 7 or more entries, and at 7
the refinement run does not finish within its time limit. They are
recorded as hazards and are not checked.

`MC_IptablesRefines` adds an auxiliary variable `view`. It holds the
abstract table of the current mirror and of the kernel, computed by
`TableOf`. `Firewall` is instantiated over `view`.

`UsageNext` leaves out four commands, because the runs below show that the
code gets them wrong:

- -I into a built-in chain;
- -P on a built-in chain that has rules;
- -F or -X of a chain while a jump exists;
- -D in a built-in chain, where the freed list node decides the outcome.

Every other command, including the ones that fail, takes its real effect.

### Firewall runs

| Run | Expect | Checks | Shows |
|---|---|---|---|
| `iptables_refines` | pass | `TypeOK`, `HeadsAtHookEntries`, `Refines` | For the commands the engine handles correctly, and within 6 entries, the mirror and the kernel table implement `Firewall`. Built-in heads stay at their hook entries and underflows stay on the chain's last entry. |

The hazards in `PROJECT.json` record further defects found while modelling,
with the properties that catch them:

- `-I` into an empty built-in chain inserts after the policy entry, because
  the head is the policy. The rule takes the built-in flag, and
  `update_hooks` moves the underflow onto it while `hook_entry` stays on the
  policy (iptables.c 699). `HeadsAtHookEntries` is violated under `Next`;
  the pass run keeps `-I` off built-in chains.
- `-I` into a non-empty built-in chain puts the rule second.
- `-P` sets the verdict of the chain's first rule, not of its policy.
- `-F` moves no jump verdicts.
- `-X` removes a chain a rule still jumps to (iptables.c 529). After
  `-N c1; -A INPUT -s a -j c1; -X c1`, the jump's verdict is the size of
  the table, the offset of no entry. The pass run deletes chains only
  while no jump exists, so no run reaches it.
- A second `-N` of the same name adds a second head.

**Mutants.** Three mutants break the properties of the passing run:

| Mutant | Breaks |
|---|---|
| `prepare_rule_inclusion` that keeps the built-in flag on the old head | `HeadsAtHookEntries` |
| `update_hooks` that moves only the chain's own underflow | `Refines` |
| `is_hook_entry` returning 0 for a non-hook offset | `TypeOK` |

**Fairness.** None is assumed. The engine is driven by callers, and
refinement is a safety property.

## The 6-to-4 controller and the HTTP client

When a service reaches READY, ipconfig calls `__connman_6to4_probe`. If the
IPv4 address is public, the probe marks itself pending and sends a router
solicitation. If no router answers within two seconds, `receive_rs_reply` runs
`init_6to4`. This creates `tun6to4`, sets it up, creates a new `GWeb` bound to
it and requests `STATUS_URL`. The request's result function `web_result`
decides:

- a 4xx status destroys the tunnel;
- anything else keeps it.

Either way, `web_result` clears the pending mark and arms `unref_web`, a
one-second timer that unrefs the global `web`. When the address goes,
`__connman_6to4_remove` destroys the tunnel.

### `GWeb.tla`: one HTTP session (gweb.c)

A session is a record with these fields:

- `resolving`: the resolver lookup has not called back;
- `watch`, `sending`: the receive and send watches;
- `sent`, `pos`;
- `cur`: `current_header`;
- `te`, `use_chunk`, `status`;
- `chunck_state`, `chunk_size`, `chunk_left`;
- `body`: what the result function was handed.

Each gweb handler is a pure operator from a session to a record with three
fields:

- `s`: the next session;
- `calls`: the statuses the result function was called with;
- `err`: the handler's error return.

The handlers are `resolv_result`, `send_data`, and `received_data` for a read
of k bytes, a HUP and an end of file. `received_data` uses `header_lines`,
`handle_body`, `decode_chunked` and `call_result_func`. The parsing loops are
`RECURSIVE` operators with the code's branches: the `memchr` for LF, the CR
check, `strtoul` over hex digits, and the four chunk states.

The response is a sequence of symbols. CR, LF, hex digits and body bytes are
each one symbol. So is the text of each header line, because splitting inside
a line's text only concatenates. `Response(code, chunked, chunks)` builds what
a server sends. Chunks are framed as `process_next_chunk` frames them, with
`ToHex` for `%zx`.

### `SixToFour.tla`: the controller composed with gweb (6to4.c)

The variables are the globals of 6to4.c:

- `tunnel_created`, `tunnel_pending`, `tunnel_ip_address`;
- `web`, `web_request_id`.

Alongside them are:

- `webs`: each GWeb is unused, alive or freed, with its one session;
- `rs`: the outstanding solicitation and its address;
- `timers`: the armed `unref_web` timers;
- `addr`: the service's IPv4 address;
- `answered`: an auxiliary set of the webs whose result function has run.

The actions are:

- `Probe` and `ProbeRefused` (its early returns);
- `receive_rs_reply`, with `init_6to4`'s outcomes: tunnel_create fails, a
  later step fails, the lookup does not start, or the request starts;
- `__connman_6to4_remove`, `AddressUp` and `unref_web`;
- `ResolvResult`, `SendData`, `ReceiveData`, `ReceiveEnd` and `ReceiveHup`.
  Each is one gweb handler followed, in the same step, by `web_result` folded
  over the calls that handler made. This is what the code does: the result
  function runs inside the handler.

`MC_SixToFour.tla` has these bounds:

- one public and one private address;
- two webs, that is two probes reaching the HTTP check;
- server answers of 200 or 404, plain or chunked, with a body of one byte or
  one sixteen-byte chunk.

The sixteen-byte chunk makes the size token two hex digits ("10"), so a read
can end inside it. Reads take any number of the remaining bytes. With two
probes, a web from an earlier probe can still be alive when the next one
starts.

| Run | Expect | Checks | Shows |
|---|---|---|---|
| `sixtofour` | pass | `TypeOK`, `BodyAsSent`, `KeptOnOwnProbe`, `ProbeDecides` | See below the table. |
| `gweb_split` | violation | `BodyAsSent` | A read ending after the CR of the blank line keeps "\r" in `current_header`. The next LF ends a non-empty "header", and the body is parsed as header text (gweb.c 842). `decode_chunked` has the same flaw for size lines (610). Spec 8 says a split token is reassembled. |

The `sixtofour` pass run shows three things:

- Every response reaches the result function whole, with its status, however
  it is split into reads that keep CR and LF together.
- A tunnel is kept only on its own web's answer.
- Every probe is eventually decided.

It uses `UsageNext`. Under it, a probe or remove happens only when the previous
probe is quiet: no solicitation, live HTTP check or armed timer remains. No
router answers, and `tunnel_create` and the lookup start. `Next` drops these
assumptions, and the hazards record what it reaches:

- An `unref_web` timer armed by a 4xx answer frees the next probe's web.
- A router reply leaves `tunnel_pending` set for good, and so do a failed
  `tunnel_create` and request id 0.
- A remove during a pending probe leaves the probe pending.
- Every GWeb numbers its requests from 1, and `web_result` checks only that
  `web_request_id` is non-zero (6to4.c 377). The answer of an earlier
  probe's web, arriving after a remove and a new probe, keeps the new tunnel
  before anything went through it: `KeptOnOwnProbe` fails under `Spec`.
- A solicitation sets up a tunnel for an address already removed.

**Mutants.**

| Mutant | Breaks |
|---|---|
| `decode_chunked` that does not reduce `chunk_left` for a partial chunk | `BodyAsSent` |
| `web_result` without its request-id guard | `TypeOK` (a timer per call) |
| `web_result` that keeps the tunnel but leaves it pending | `ProbeDecides` |
| `__connman_6to4_probe` that does not mark the probe pending | `KeptOnOwnProbe` |

**Fairness.** `Fairness` is `WF_vars` of:

- the solicitation callback: the kernel's timer or a reply always comes;
- each web's lookup result, send and receive events (data or end of file):
  the resolver and TCP time out;
- `unref_web`: the GLib timer fires.

Address changes and calls into the controller are not fair. Neither is a HUP:
a connection need not break.

## Tethering and private networks

### `Tethering.tla`: tethering.c and manager's private-network methods

tethering.c has two users of one NAT setup:
- **Tethering.** Each technology that tethers calls
  `__connman_tethering_set_enabled`, and later
  `__connman_tethering_set_disabled`. A counter makes the first call build
  the bridge `tether`, add a DNS proxy listener on it, start the DHCP server
  and enable NAT on the default interface. The last call undoes all of it.
- **Private networks.** manager's `RequestPrivateNetwork` hands a D-Bus
  caller a TUN device. The reply is sent later, by `setup_tun_interface`, the
  device's newlink callback. That callback sets the address, brings the
  device up and enables NAT.

Both users write the same `ip_forward` switch and the same nat POSTROUTING
chain.

| Variable | Code |
|---|---|
| `tethering_enabled` | the counter |
| `bridge` | the `tether` device: `"absent"` or `"up"` |
| `dhcp` | `tethering_dhcp_server`, as the DNS option it hands out (`"bridge"` = BRIDGE_IP, `"public"` = BRIDGE_DNS) |
| `listener` | the DNS proxy's listener on the bridge |
| `ip_forward`, `postrouting` | `/proc/sys/net/ipv4/ip_forward`, and the interfaces with a MASQUERADE rule after a commit |
| `default_interface` | `default_interface` |
| `pn[t]` | the `connman_private_network` of TUN device `t`: `"none"`, `"wait"` (in `pn_hash`, not answered), `"up"` (answered), or `"dangling"` (freed with its disconnect watch still registered); also whether the link is up, whether rtnl has reported it, and how many replies were sent |
| `running` | FALSE after `__connman_tethering_cleanup` |

Each function that changes state is one action or helper, named as in the
code:
- `__connman_tethering_set_enabled`, `__connman_tethering_set_disabled`
  and `__connman_tethering_update_interface`;
- `enable_nat` and `disable_nat`;
- `__connman_private_network_request`, with manager's
  `request_private_network`;
- `setup_tun_interface`, `owner_disconnect` and `remove_private_network`;
- `__connman_private_network_release`, with manager's
  `release_private_network`;
- `__connman_tethering_cleanup`.

Most kernel or library calls that can fail are a parameter of the step,
chosen from a small set:
- the socket and ioctl calls of `create_bridge` and `enable_bridge`;
- the DNS listener and `dhcp_server_start`;
- the ip_forward write;
- the address of the TUN device;
- the allocations of the request.

A failure that is ignored in the code changes nothing in the model. Two
groups of failures are abstracted instead:
- In `enable_nat`, the flush, append and commit after ip_forward is
  enabled (tethering.c 304-319) share one outcome: the rule is not added.
- In `disable_nat`, the flush and commit failures (330-334) are left out.
  The rule is always removed, and `RoundTrip`'s empty POSTROUTING rests on
  that.

rtnl.c is not in the tree. The newlink report (`LinkReport`) and the
requester taking the device down (`LinkDown`) are modelled from the spec.
The callback runs once on the first report, and again after each
`LinkDown`. A report with IFF_UP returns at once and is not a step.

### `MC_Tethering.tla` and the runs

Bounds:
- two upstream interfaces;
- two TUN devices, so two private networks at once;
- `MaxEnabled = 2` (two technologies tethering);
- `MaxReplies = 2`, so one link flap after the reply.

`UsageNext` is the usage tethering.c is written for:
- `set_disabled` only matches an earlier `set_enabled`; technology.c pairs
  them;
- the address of a fresh TUN device can be set;
- NAT failures happen only where `NatMayFail` is TRUE.

| Run | Expect | Checks | Shows |
|---|---|---|---|
| `tethering` | pass | `TypeOK`, `RoundTrip`, `PrivateNetworkAnswered` | Any interleaving of enables, disables, interface changes, requests, link flaps, releases, disconnects, NAT failures and shutdown leaves no bridge, DHCP server, listener or MASQUERADE rule once the counter is 0 and no private network is left. Every accepted request is answered, by a reply or an error. |
| `tethering_nat` | violation | `NatForUpstream` | `update_interface` moves NAT only while tethering is enabled (tethering.c 418). A private network answered before the default interface appeared is left with no NAT on it. |

**Hazards without a run.** These are recorded in `PROJECT.json`:
- The same NAT clash from the other side. `remove_private_network` calls
  `disable_nat` while tethering still runs (line 491).
- A failed address set leaves the request unanswered for good (445).
  `PrivateNetworkAnswered` fails under `Next`.
- A failed reply allocation leaves a dangling disconnect watch (563).
- A link flap sends the reply twice (434).
- `set_disabled` drops the DNS listener while another technology still
  tethers (384).
- `__connman_tethering_cleanup` cleans up only when nothing is enabled (622).
- `disable_nat` writes ip_forward 0, not its earlier value (327, spec 8).

**Mutants.**

| Mutant | Breaks |
|---|---|
| `enable_nat` without its NULL-interface check | `TypeOK` |
| the last `set_disabled` without `disable_nat` | `RoundTrip` |
| `setup_tun_interface` that logs a NAT failure and never answers | `PrivateNetworkAnswered` |

**Fairness.** Weak fairness of the newlink report for each device. rtnl
delivers RTM_NEWLINK for a device it watches. D-Bus callers, technologies
and interface changes are not fair.

## The SNTP client

### `Ntp.tla`: ntp.c

`__connman_ntp_start` makes a resolver and starts a lookup, and
`resolv_result` runs `start_ntp`. That opens a UDP socket with a receive
watch and sends the first request. `received_data` reads each reply,
decodes it and arms a one-shot `next_request` timer, and the timer sends
the next request. `__connman_ntp_stop` removes the watch, which closes the
socket, and unrefs the resolver.

Datagrams are counted, not named, because the code keeps no identity for a
request. The variables:
- `requests`, `replies`: datagrams on their way;
- `timers`: armed `next_request` timers;
- `channel_watch`: the watch, and with it the socket;
- `resolv` (`"null"`, `"alive"`, `"freed"`) and `lookup`: the resolver
  pointer, which stop leaves dangling, and its lookup.

`decode_msg` keeps two things:
- `transmit_delay`, computed by `LOGTOD` on the server's int8 poll exponent
  and stored in a guint. A negative poll truncates to 0, 32 to 63 lose the
  bit (0), and a shift of 64 or more is undefined (any of 0 or 1).
- Whether the clock was adjusted (offset within 0.128 s) or stepped. This
  happens only when the leap/mode byte is 0x24 and the system call succeeds.

Timestamps and the offset arithmetic are left out. The network actions
(`ServerReply`, `LoseRequest`, `LoseReply`, `DuplicateReply`) are the
environment.

**Fairness.** Weak fairness of `next_request`, `received_data`,
`ServerReply` and `resolv_result`. GLib fires an armed timer and dispatches
a readable socket or a finished lookup, and the server answers what reaches
it. Loss, duplication, channel errors, start and stop are not fair.

### `MC_Ntp.tla` and the runs

Bounds and inputs:
- `MaxInFlight = 2`: one extra request, reply or timer, so a second chain
  can appear;
- server polls -1, 0, 4, 6, 10, 32 and 100, covering the truncated,
  ordinary, cut-off and undefined cases of `LOGTOD`.

`UsageNext` is the usage ntp.c is written for. The network neither loses nor
duplicates datagrams. Start and stop alternate (their caller, timeserver.c,
is not under `src/`), and a start comes only when no timer of the stopped session is armed.

| Run | Expect | Checks | Shows |
|---|---|---|---|
| `time` | pass | `TypeOK`, `PollCycle` (and the Clock properties below) | Runs `MC_Time`, the client composed with the clock facade. While the socket is open, exactly one step of the poll cycle is outstanding: a request, a reply or an armed timer. `TypeOK` also says that a pending lookup belongs to a live resolver. |
| `ntp_lost` | violation | `PollCycle` | Under `Spec`, start, lookup and one lost request leave the open socket with nothing outstanding. Only a reply arms the next request (ntp.c 253), so synchronisation stops for good. |

`Spec` also reaches two further hazards, which `PollCycle` catches:
- A duplicated reply arms a second timer chain.
- A start before the stopped session's timer fires gets two chains. Stop
  removes no timer (ntp.c 376). A start without a stop leaks the resolver,
  and its lookup later reopens the socket.

A delay of 0 (`LOGTOD` on an out-of-range poll) makes the client poll back
to back. The code asks for no minimum interval, so no property states one.

**Mutants.**

| Mutant | Breaks |
|---|---|
| stop that leaves the lookup on the freed resolver | `TypeOK` |
| `next_request` returning TRUE (a repeating timer) | `PollCycle` |

A liveness property that the client keeps polling follows from `PollCycle`
and the fairness above, so no run states it separately.

## The clock facade, composed with the SNTP client

### `Clock.tla`: clock.c

net.connman.Clock has five properties. `set_property` handles them as
follows:
- `Time`: refused unless TimeUpdates is manual. It calls `settimeofday`,
  which sets the shared variable `clock` to `"set"`.
- `TimeUpdates` and `TimezoneUpdates`: an unknown string is refused. The
  current value is answered without a signal. Otherwise the value is stored
  and signalled.
- `Timezone`: refused unless TimezoneUpdates is manual.
  `__connman_timezone_change` writes /etc/localtime and sends no signal.
- `Timeservers`: the strings are joined with spaces (`JoinServers`, a
  `FoldLeft`), split at spaces again (`Fields`, a RECURSIVE operator for
  `g_strsplit_set`) and stored. The stored array is signalled.

`__connman_clock_update_timezone` runs when the zone file's watch fires. It
looks the zone up again and signals it; a failed lookup leaves
`timezone_config` NULL and signals nothing. The writing and lookup belong to
timezone.c, which is not in the repository: `localtime`, `zone_changed` and
the `found` outcome model them and are marked `spec_modelled`.

`view` is the copy kept by a D-Bus client that read `GetProperties` once
and then applies every PropertyChanged. Server names are character
sequences, because the join and split change them. An empty name before a
name is dropped, and a name with a space becomes two names.

### `MC_Time.tla`: the time module (spec L)

`MC_Time` composes the `MC_Ntp` usage of the client with `Clock`. It uses
`INSTANCE Clock`, and every step is one callback of one part. The shared
system clock is set by `decode_msg` and by `SetProperty Time`.

Bounds and inputs:
- two zones;
- six Timeservers arrays: empty, one name, two names, a name with a space,
  and an empty name before or after a name;
- the update strings `"manual"`, `"auto"` and an unknown one.

The zone lookup finds the zone that was written. A lookup that finds none
breaks `ClientView`: the client keeps the old zone while GetProperties
leaves Timezone out. No run checks that case.

**Fairness.** The client's fairness, above. No Clock property is a
liveness property.

The `time` run checks four properties:
- `TypeOK`, `PollCycle`: the SNTP client, above.
- `ClockTypeOK`: the modes are only ever manual or auto, and a stored
  server name never holds the separator.
- `ClientView`: the client's copy always equals GetProperties.

The run reaches 15,552 distinct states.

**Mutants.**

| Mutant | Breaks |
|---|---|
| `TimezoneUpdates` that stores UNKNOWN | `ClockTypeOK` |
| `Timeservers` signalled before the new array is stored | `ClientView` |

## Not modelled, and the plan

Still open within the components marked `partly` in `PROJECT.json`:

1. Within gweb.c: POST bodies through `input_func`, multi-line headers, and
   `g_web_parser` (the WISPr XML scanner). `g_web_cancel_request` is an empty
   function and needs no model.
2. Within iptables.c: `iptables_dump`, the multi-table wrappers, and the
   unmodelled match extensions.
3. Within service.c:
   - sessions and VPN providers;
   - ClearProperty(Error) on a connected service in a two-service run;
   - a run where the connect timer outlives its attempt.

Left out on purpose:

- `manager.c`, apart from its private-network methods (modelled in
  `Tethering`): a facade. Its ConnectService reaches the modelled
  `__connman_service_connect`.
- `log.c`: pure I/O.
- `gsupplicant/dbus.c`: marshalling.
- `include/provider.h`: declarations.
