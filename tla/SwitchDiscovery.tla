-------------------------- MODULE SwitchDiscovery ---------------------------
(***************************************************************************)
(* The active search for the console: switch_discovery_timer_cb sends one  *)
(* ARP probe per tick, over the Wi-Fi subnet, then over the overlay subnet *)
(* on Wi-Fi, then pauses.  switch_discovery_host is a uint8_t.             *)
(***************************************************************************)
EXTENDS Integers

CONSTANTS
    PAUSE_TICKS,        \* 600 ticks of 50 ms
    wifi_host,          \* last byte of wifi_ip
    Consoles            \* <<subnet, host>> at which a console may be

Hosts == 2 .. 254

\* Probes of a whole sweep: both subnets, or the overlay's if Wi-Fi has none.
Sweep(known) ==
    (IF known THEN {"wifi"} \X (Hosts \ {wifi_host}) ELSE {})
    \cup ({"zerotier"} \X Hosts)

ASSUME DiscoveryAssumption ==
    /\ PAUSE_TICKS \in Nat \ {0}
    /\ wifi_host \in 0 .. 255
    /\ Consoles \subseteq Sweep(TRUE)

VARIABLES
    wifi_subnet_known,
    host,           \* switch_discovery_host
    pause,          \* switch_discovery_pause_ticks
    wifi_phase,     \* switch_discovery_wifi_phase
    running,        \* the uv timer is active
    switch_seen,
    console,        \* where the console is
    pending,        \* the console's answer to a probe is on its way
    probed          \* probes of this sweep

discovery_vars == <<wifi_subnet_known, host, pause, wifi_phase, running, switch_seen,
          console, pending, probed>>

\* The counters stay in the ranges of their C types, the host counter in 8 bits.
DiscoveryTypeOK ==
    /\ wifi_subnet_known \in BOOLEAN
    /\ host \in 0 .. 255
    /\ pause \in 0 .. PAUSE_TICKS
    /\ wifi_phase \in BOOLEAN
    /\ running \in BOOLEAN
    /\ switch_seen \in BOOLEAN
    /\ console \in Consoles
    /\ pending \in BOOLEAN
    /\ probed \subseteq {"wifi", "zerotier"} \X (0 .. 255)

\* lan_play_init.  A console of the Wi-Fi subnet is out of reach of a relay
\* whose adapter has no address.
DiscoveryInit ==
    /\ wifi_subnet_known \in BOOLEAN
    /\ console \in Consoles /\ console \in Sweep(wifi_subnet_known)
    /\ host = 2
    /\ pause = 0
    /\ wifi_phase = wifi_subnet_known
    /\ running = TRUE
    /\ switch_seen = FALSE
    /\ pending = FALSE
    /\ probed = {}

Stop ==
    /\ running
    /\ switch_seen
    /\ running' = FALSE
    /\ UNCHANGED <<wifi_subnet_known, host, pause, wifi_phase, switch_seen,
                   console, pending, probed>>

Pause ==
    /\ running
    /\ ~ switch_seen
    /\ pause > 0
    /\ pause' = pause - 1
    /\ probed' = {}
    /\ UNCHANGED <<wifi_subnet_known, host, wifi_phase, running, switch_seen,
                   console, pending>>

\* A bug at the end of the sweep: the last host is left out.
AdvanceShort(h) == IF (h + 1) % 256 \in {0, 254} THEN 2 ELSE (h + 1) % 256

\* switch_discovery_host++, back to 2 after the last host.
Advance(h) == IF (h + 1) % 256 \in {0, 255} THEN 2 ELSE (h + 1) % 256

Phase == wifi_phase /\ wifi_subnet_known

Target == <<IF Phase THEN "wifi" ELSE "zerotier", host>>

Probes == IF Target = <<"wifi", wifi_host>> THEN {} ELSE {Target}

\* One probe, none for the relay's own address, and the step to the next.
Probe ==
    /\ running
    /\ ~ switch_seen
    /\ pause = 0
    /\ probed' = probed \cup Probes
    /\ pending' = (pending \/ console \in Probes)
    /\ host' = Advance(host)
    /\ IF Advance(host) # 2 THEN UNCHANGED <<wifi_phase, pause>>
       ELSE IF Phase
       THEN wifi_phase' = FALSE /\ UNCHANGED pause
       ELSE wifi_phase' = wifi_subnet_known /\ pause' = PAUSE_TICKS
    /\ UNCHANGED <<wifi_subnet_known, running, switch_seen, console>>

\* learn_local_switch, on the console's answer to a probe.
Answered ==
    /\ pending
    /\ pending' = FALSE
    /\ switch_seen' = TRUE
    /\ UNCHANGED <<wifi_subnet_known, host, pause, wifi_phase, running,
                   console, probed>>

\* The probe or its answer is lost on the air, or the console was asleep.
Lost ==
    /\ pending
    /\ pending' = FALSE
    /\ UNCHANGED <<wifi_subnet_known, host, pause, wifi_phase, running,
                   switch_seen, console, probed>>

\* learn_local_switch, on a frame the console sends unasked.
Overheard ==
    /\ ~ switch_seen
    /\ switch_seen' = TRUE
    /\ UNCHANGED <<wifi_subnet_known, host, pause, wifi_phase, running,
                   console, pending, probed>>

switch_discovery_timer_cb == Stop \/ Pause \/ Probe

DiscoveryNext ==
    \/ switch_discovery_timer_cb
    \/ Answered
    \/ Lost
    \/ Overheard

\* The timer is a repeating uv timer; a console that is probed again and again
\* answers in the end.
DiscoverySpec ==
    /\ DiscoveryInit /\ [][DiscoveryNext]_discovery_vars
    /\ WF_discovery_vars(switch_discovery_timer_cb)
    /\ SF_discovery_vars(Answered)

-----------------------------------------------------------------------------
\* A sweep reaches every host .2 to .254 of both subnets before it pauses: the
\* 8-bit host counter, the two phases and the skipped own address leave no gap.
SweepComplete == pause = PAUSE_TICKS => probed = Sweep(wifi_subnet_known)

\* No probe is sent beyond the two ranges, and none for the relay's own Wi-Fi
\* address, which would be answered by the relay's own host.
ProbesInRange == probed \subseteq Sweep(wifi_subnet_known)

\* Once the console is known, by an answer or by a frame overheard between two
\* ticks, no further probe is sent.
QuietOnceFound == [][switch_seen => probed' = probed]_discovery_vars

\* A console in one of the two ranges is found in the end, even if it sends
\* nothing by itself and ignores many probes, and the search then stops.
ConsoleFound == <>(switch_seen /\ ~ running)
=============================================================================
