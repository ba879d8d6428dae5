----------------------------- MODULE Lifecycle ------------------------------
(***************************************************************************)
(* Starting and stopping a relay: the desktop application's                *)
(* RelayController, the privileged supervisor it launches through pkexec   *)
(* or osascript, and the relay process with its instance lock; on Windows  *)
(* the application starts the relay itself.  Each Start is a session with  *)
(* its own processes, so that what is left of one can meet the next; one   *)
(* more relay may be started by hand in a terminal.                        *)
(***************************************************************************)
EXTENDS Integers, FiniteSets

CONSTANTS
    Platforms,      \* among "pkexec" (Linux), "osascript" (macOS), "windows"
    MaxStarts       \* bound on the sessions of one run of the application

ASSUME LifecycleAssumption ==
    /\ Platforms \subseteq {"pkexec", "osascript", "windows"}
    /\ MaxStarts \in Nat

Sess   == 1 .. MaxStarts
Manual == 0
Relays == Sess \cup {Manual}

VARIABLES
    platform,
    alive,      \* the application runs
    state,      \* RelayController::current
    sess,       \* the latest session
    socket,     \* the controller has accepted the supervisor
    listening,  \* its QLocalServer accepts connections
    closing,    \* Window::closing: quit when the relay has stopped
    auth,       \* the process `authorization' of each session
    sup,        \* the supervisor of each session
    ctl,        \* the control connection; "cut" when the supervisor gave up
    stopCmd,    \* "STOP" (or the Windows stop event) is on its way
    halt,       \* the supervisor's `interrupted', `stopping' and passed deadline
    line,       \* where "Relay started (PID" is
    relay,      \* each relay process
    sig         \* SIGINT waits for the relay's loop

guiVars == <<alive, state, sess, socket, listening, closing>>
supVars == <<sup, stopCmd, halt>>
vars == <<platform, alive, state, sess, socket, listening, closing, auth, sup,
          ctl, stopCmd, halt, line, relay, sig>>

Live   == {"forked", "boot", "scanned", "locked", "init", "up", "closing"}
Holder == {"locked", "init", "up", "closing"}

\* Every variable in its range.
TypeOK ==
    /\ platform \in Platforms
    /\ alive \in BOOLEAN /\ socket \in BOOLEAN /\ listening \in BOOLEAN
    /\ closing \in BOOLEAN
    /\ state \in {"Idle", "Authorizing", "Starting", "Running", "Stopping"}
    /\ sess \in 0 .. MaxStarts
    /\ auth \in [Sess -> {"none", "prompt", "running", "exited"}]
    /\ sup \in [Sess -> {"none", "starting", "run", "gone"}]
    /\ ctl \in [Sess -> {"none", "backlog", "open", "dropped", "cut"}]
    /\ stopCmd \in [Sess -> BOOLEAN]
    /\ halt \in [Sess -> {"no", "interrupted", "stopping", "late"}]
    /\ line \in [Sess -> {"none", "pipe", "socket", "read"}]
    /\ relay \in [Relays -> Live \cup {"none", "dead"}]
    /\ sig \in [Relays -> BOOLEAN]

Init ==
    /\ platform \in Platforms
    /\ alive = TRUE /\ state = "Idle" /\ sess = 0
    /\ socket = FALSE /\ listening = FALSE /\ closing = FALSE
    /\ auth = [s \in Sess |-> "none"]
    /\ sup = [s \in Sess |-> "none"]
    /\ ctl = [s \in Sess |-> "none"]
    /\ stopCmd = [s \in Sess |-> FALSE]
    /\ halt = [s \in Sess |-> "no"]
    /\ line = [s \in Sess |-> "none"]
    /\ relay = [r \in Relays |-> "none"]
    /\ sig = [r \in Relays |-> FALSE]
----------------------------------------------------------------------------
(* RelayController.                                                        *)

\* start(): the checks before the launch only refuse.
Start ==
    /\ alive /\ state = "Idle" /\ ~ closing /\ sess < MaxStarts
    /\ sess' = sess + 1
    /\ IF platform = "windows"
       THEN /\ state' = "Starting"
            /\ auth' = [auth EXCEPT ![sess + 1] = "running"]
            /\ relay' = [relay EXCEPT ![sess + 1] = "boot"]
            /\ UNCHANGED listening
       ELSE /\ state' = "Authorizing"
            /\ auth' = [auth EXCEPT ![sess + 1] = "prompt"]
            /\ listening' = TRUE
            /\ UNCHANGED relay
    /\ UNCHANGED <<platform, alive, socket, closing, supVars, ctl, line, sig>>

\* A bug in close: the connection that was not accepted yet is forgotten.
DroppedOpen(s) == [ctl EXCEPT ![s] = IF @ = "open" THEN "dropped" ELSE @]

\* The connections of session s that the application holds are gone.
Dropped(s) ==
    [ctl EXCEPT ![s] = IF @ = "none" THEN @ ELSE "dropped"]

\* The newConnection handler, which reads what has arrived already.
NewConnection(s) ==
    /\ alive /\ listening /\ s = sess /\ ctl[s] \in {"backlog", "cut"}
    /\ ~ socket
    /\ IF state = "Stopping"
       THEN ctl' = Dropped(s) /\ UNCHANGED <<socket, state, line>>
       ELSE /\ socket' = TRUE
            /\ state' = IF line[s] = "socket" THEN "Running" ELSE "Starting"
            /\ line' = [line EXCEPT ![s] = IF @ = "socket" THEN "read" ELSE @]
            /\ ctl' = [ctl EXCEPT ![s] = IF @ = "backlog" THEN "open" ELSE @]
    /\ UNCHANGED <<platform, alive, sess, listening, closing, auth, supVars,
                   relay, sig>>

\* A bug in receive(): the state is not tested.
ReceiveState == "Running"

\* receive(), for the line that announces the relay.
ReadyState == IF state = "Stopping" THEN "Stopping" ELSE "Running"

Receive ==
    /\ alive /\ sess # 0
    /\ socket \/ platform = "windows"
    /\ line[sess] = "socket"
    /\ line' = [line EXCEPT ![sess] = "read"]
    /\ state' = ReadyState
    /\ UNCHANGED <<platform, alive, sess, socket, listening, closing, auth,
                   supVars, ctl, relay, sig>>

\* terminate(): pkexec may be signalled until it has become root and the
\* supervisor; osascript always, but not what it has started.
Terminated ==
    IF auth[sess] = "prompt" \/ platform = "osascript"
    THEN [auth EXCEPT ![sess] = "exited"] ELSE auth

\* A bug in stop(): without a supervisor only the server is closed.
DoStopNoTerminate ==
    /\ state' = "Stopping"
    /\ IF socket \/ platform = "windows"
       THEN stopCmd' = [stopCmd EXCEPT ![sess] = TRUE] /\ UNCHANGED <<listening, ctl, auth>>
       ELSE listening' = FALSE /\ ctl' = Dropped(sess) /\ UNCHANGED <<stopCmd, auth>>

\* The body of stop().
DoStop ==
    /\ state' = "Stopping"
    /\ IF socket \/ platform = "windows"
       THEN stopCmd' = [stopCmd EXCEPT ![sess] = TRUE] /\ UNCHANGED <<listening, ctl, auth>>
       ELSE listening' = FALSE /\ ctl' = Dropped(sess) /\ auth' = Terminated /\ UNCHANGED stopCmd

CanStop == alive /\ state \in {"Authorizing", "Starting", "Running"}

\* The Stop button.
Stop ==
    /\ CanStop
    /\ DoStop
    /\ UNCHANGED <<platform, alive, sess, socket, closing, sup, halt, line, relay, sig>>

\* startupTimeout, armed while Starting.
StartupTimeout ==
    /\ CanStop /\ state = "Starting"
    /\ DoStop
    /\ UNCHANGED <<platform, alive, sess, socket, closing, sup, halt, line, relay, sig>>

\* A bug in closeEvent: the window closes at once.
CloseAtOnce ==
    /\ alive
    /\ alive' = FALSE
    /\ UNCHANGED <<platform, state, sess, socket, listening, closing, auth,
                   supVars, ctl, line, relay, sig>>

\* Window::closeEvent.
Close ==
    /\ alive
    /\ IF state = "Idle"
       THEN alive' = FALSE /\ UNCHANGED <<closing, state, stopCmd, listening, ctl, auth>>
       ELSE /\ ~ closing
            /\ closing' = TRUE /\ UNCHANGED alive
            /\ IF CanStop THEN DoStop
               ELSE UNCHANGED <<state, stopCmd, listening, ctl, auth>>
    /\ UNCHANGED <<platform, sess, socket, sup, halt, line,
                   relay, sig>>

\* finish(), which reads what is left; then Window closes itself if it waited
\* for this.
Finish ==
    /\ alive /\ state # "Idle" /\ auth[sess] = "exited"
    /\ state' = "Idle"
    /\ socket' = FALSE /\ listening' = FALSE
    /\ ctl' = Dropped(sess)
    /\ line' = [line EXCEPT ![sess] = IF @ = "pipe" THEN @ ELSE "none"]
    /\ alive' = ~ closing
    /\ closing' = FALSE
    /\ UNCHANGED <<platform, sess, auth, supVars, relay, sig>>

\* Windows: stopTimeout kills the relay five seconds after stop().
StopTimeout ==
    /\ platform = "windows" /\ alive /\ state = "Stopping"
    /\ relay[sess] \in Live
    /\ relay' = [relay EXCEPT ![sess] = "dead"]
    /\ UNCHANGED <<platform, guiVars, auth, supVars, ctl, line, sig>>

\* The application crashes, or quits with ~RelayController while a relay runs:
\* the kernel closes its end of the connection.  Nothing of its state is left.
Crash(destructor) ==
    /\ alive
    /\ alive' = FALSE /\ listening' = FALSE /\ socket' = FALSE
    /\ state' = "Idle" /\ closing' = FALSE
    /\ IF sess = 0 THEN UNCHANGED <<ctl, auth, stopCmd, relay>>
       ELSE /\ ctl' = Dropped(sess)
            /\ auth' = IF destructor /\ platform # "windows" /\ auth[sess] # "none"
                       THEN Terminated ELSE auth
            /\ stopCmd' = [stopCmd EXCEPT ![sess] = @ \/ (destructor /\ platform = "windows")]
            /\ relay' = [relay EXCEPT ![sess] =
                    IF destructor /\ platform = "windows" /\ @ \in Live THEN "dead" ELSE @]
    /\ UNCHANGED <<platform, sess, sup, halt, line, sig>>
----------------------------------------------------------------------------
(* The administrator prompt and the supervisor.                            *)

Approve(s) ==
    /\ auth[s] = "prompt"
    /\ auth' = [auth EXCEPT ![s] = "running"]
    /\ sup' = [sup EXCEPT ![s] = "starting"]
    /\ UNCHANGED <<platform, guiVars, ctl, stopCmd, halt, line,
                   relay, sig>>

Deny(s) ==
    /\ auth[s] = "prompt"
    /\ auth' = [auth EXCEPT ![s] = "exited"]
    /\ UNCHANGED <<platform, guiVars, supVars, ctl, line, relay, sig>>

\* main(): connect to the application's socket, or give up; fork the relay.
SupConnect(s) ==
    /\ sup[s] = "starting"
    /\ IF alive /\ listening /\ s = sess
       THEN /\ sup' = [sup EXCEPT ![s] = "run"]
            /\ ctl' = [ctl EXCEPT ![s] = "backlog"]
            /\ relay' = [relay EXCEPT ![s] = "forked"]
       ELSE /\ sup' = [sup EXCEPT ![s] = "gone"]
            /\ UNCHANGED <<ctl, relay>>
    /\ UNCHANGED <<platform, guiVars, auth, stopCmd, halt, line,
                   sig>>

\* A bug in the command loop: the end of the connection is ignored.
HearsOnlyStop(s) == stopCmd[s] /\ ctl[s] = "open"

\* What the loop reads as a request to stop.
HearsStop(s) == ctl[s] = "dropped" \/ (stopCmd[s] /\ ctl[s] = "open")

\* The command part of the loop.
SupRead(s) ==
    /\ sup[s] = "run" /\ halt[s] = "no"
    /\ HearsStop(s)
    /\ halt' = [halt EXCEPT ![s] = "interrupted"]
    /\ UNCHANGED <<platform, guiVars, auth, sup, ctl, stopCmd, line, relay, sig>>

\* SIGTERM or SIGINT of somebody else, or more than 4 MiB of output that the
\* application does not take: then the supervisor gives up the connection.
SupInterrupted(s, overflow) ==
    /\ sup[s] = "run" /\ halt[s] = "no"
    /\ halt' = [halt EXCEPT ![s] = "interrupted"]
    /\ ctl' = IF overflow /\ ctl[s] \in {"backlog", "open"}
              THEN [ctl EXCEPT ![s] = "cut"] ELSE ctl
    /\ UNCHANGED <<platform, guiVars, auth, sup, stopCmd, line, relay, sig>>

\* SIGINT for a relay: caught by the handler inherited from the supervisor
\* until the child resets it, deadly until uv_signal_start, then queued.
Signalled(r) ==
    \/ /\ relay[r] \in {"forked", "boot", "scanned", "locked"}
       /\ relay' = [relay EXCEPT ![r] = "dead"] /\ UNCHANGED sig
    \/ relay[r] \in {"forked", "closing", "dead"} /\ UNCHANGED <<relay, sig>>
    \/ /\ relay[r] \in {"init", "up"}
       /\ sig' = [sig EXCEPT ![r] = TRUE] /\ UNCHANGED relay

SupSignal(s) ==
    /\ sup[s] = "run" /\ halt[s] = "interrupted"
    /\ halt' = [halt EXCEPT ![s] = "stopping"]
    /\ Signalled(s)
    /\ UNCHANGED <<platform, guiVars, auth, sup, ctl, stopCmd, line>>

\* Five seconds pass.
Deadline(s) ==
    /\ sup[s] = "run" /\ halt[s] = "stopping"
    /\ halt' = [halt EXCEPT ![s] = "late"]
    /\ UNCHANGED <<platform, guiVars, auth, sup, ctl, stopCmd, line, relay, sig>>

\* SIGKILL.
SupKill(s) ==
    /\ sup[s] = "run" /\ halt[s] = "late"
    /\ relay[s] \in Live
    /\ relay' = [relay EXCEPT ![s] = "dead"]
    /\ sig' = [sig EXCEPT ![s] = FALSE]
    /\ UNCHANGED <<platform, guiVars, auth, supVars, ctl, line>>

\* The log part of the loop.
SupForward(s) ==
    /\ sup[s] = "run" /\ line[s] = "pipe" /\ ctl[s] \in {"backlog", "open"}
    /\ line' = [line EXCEPT ![s] = "socket"]
    /\ UNCHANGED <<platform, guiVars, auth, supVars, ctl, relay, sig>>

\* The supervisor ends: nothing of its own state is left.
SupEnds(s) ==
    /\ sup' = [sup EXCEPT ![s] = "gone"]
    /\ halt' = [halt EXCEPT ![s] = "no"]
    /\ stopCmd' = [stopCmd EXCEPT ![s] = FALSE]
    /\ line' = [line EXCEPT ![s] =
                    IF @ # "pipe" THEN @
                    ELSE IF ctl[s] \in {"backlog", "open"} THEN "socket" ELSE "none"]
    /\ UNCHANGED <<platform, guiVars, auth, ctl, relay, sig>>

\* waitpid returns the child: the rest of its output is sent, the loop ends.
SupReap(s) == sup[s] = "run" /\ relay[s] = "dead" /\ SupEnds(s)

\* The process the application started ends: with the supervisor it became or
\* waits for, on Windows with the relay.
AuthExits(s) ==
    /\ auth[s] = "running"
    /\ IF platform = "windows" THEN relay[s] = "dead" ELSE sup[s] = "gone"
    /\ auth' = [auth EXCEPT ![s] = "exited"]
    /\ UNCHANGED <<platform, guiVars, supVars, ctl, line, relay, sig>>
----------------------------------------------------------------------------
(* The relay process: main.c.                                              *)

Become(r, what) ==
    /\ relay' = [relay EXCEPT ![r] = what]
    /\ sig' = [sig EXCEPT ![r] = @ /\ what \notin {"closing", "dead"}]
    /\ UNCHANGED <<platform, guiVars, auth, supVars, ctl>>

StartManual ==
    /\ relay[Manual] = "none"
    /\ Become(Manual, "boot")
    /\ UNCHANGED line

\* Ctrl-C in the terminal.
StopManual ==
    /\ Signalled(Manual)
    /\ UNCHANGED <<platform, guiVars, auth, supVars, ctl, line>>

RelayExec(r) ==
    /\ relay[r] = "forked"
    /\ Become(r, "boot")
    /\ UNCHANGED line

Named(r) == {q \in Relays \ {r} : relay[q] \in Live \ {"forked"}}

Holders(r) == {q \in Relays \ {r} : relay[q] \in Holder}

\* report_running_relay: any other process of the relay's name.
RelayScan(r) ==
    /\ platform # "windows" /\ relay[r] = "boot"
    /\ Become(r, IF Named(r) = {} THEN "scanned" ELSE "dead")
    /\ UNCHANGED line

\* A bug in acquire_relay_instance: the lock is not tried.
LockResultAlways(r) == "locked"

LockResult(r) == IF Holders(r) = {} THEN "locked" ELSE "dead"

\* flock in acquire_relay_instance, CreateMutex on Windows.
RelayLock(r) ==
    /\ relay[r] = IF platform = "windows" THEN "boot" ELSE "scanned"
    /\ Become(r, LockResult(r))
    /\ UNCHANGED line

\* uv_signal_start; on Windows first OpenProcess on the application.
RelaySignals(r) ==
    /\ relay[r] = "locked"
    /\ Become(r, IF platform = "windows" /\ r \in Sess /\ ~ alive THEN "dead"
                 ELSE "init")
    /\ UNCHANGED line

\* lan_play_init, and the line that announces success.
RelayInit(r, ok) ==
    /\ relay[r] = "init"
    /\ Become(r, IF ok THEN "up" ELSE "dead")
    /\ line' = IF ok /\ r \in Sess
               THEN [line EXCEPT ![r] = IF platform = "windows" THEN "socket" ELSE "pipe"]
               ELSE line

\* lan_play_signal_cb, run by the loop for SIGINT, or by windows_control_cb.
RelayStops(r) ==
    /\ relay[r] = "up"
    /\ sig[r] \/ (platform = "windows" /\ r \in Sess /\ (stopCmd[r] \/ ~ alive))
    /\ Become(r, "closing")
    /\ UNCHANGED line

\* The loop has no handle left.
RelayExits(r) ==
    /\ relay[r] = "closing"
    /\ Become(r, "dead")
    /\ UNCHANGED line

RelayCrashes(r) ==
    /\ relay[r] \in Live
    /\ Become(r, "dead")
    /\ UNCHANGED line

RelayStep(r) ==
    \/ RelayExec(r) \/ RelayScan(r) \/ RelayLock(r) \/ RelaySignals(r)
    \/ \E ok \in BOOLEAN : RelayInit(r, ok)
    \/ RelayStops(r) \/ RelayExits(r)

Next ==
    \/ Start \/ Receive \/ Stop \/ StartupTimeout \/ Close \/ Finish \/ StopTimeout
    \/ \E destructor \in BOOLEAN : Crash(destructor)
    \/ \E s \in Sess :
        \/ NewConnection(s) \/ Approve(s) \/ Deny(s) \/ SupConnect(s) \/ SupRead(s)
        \/ \E overflow \in BOOLEAN : SupInterrupted(s, overflow)
        \/ SupSignal(s) \/ Deadline(s) \/ SupKill(s) \/ SupForward(s) \/ SupReap(s)
        \/ AuthExits(s)
    \/ StartManual \/ StopManual
    \/ \E r \in Relays : RelayStep(r) \/ RelayCrashes(r)

\* The supervisor's loop turns at least every 50 ms, time passes, the kernel
\* reports the end of a process, the application's event loop runs.  No relay
\* is assumed to stop by itself, except on Windows, where nobody outlives the
\* application to kill it.
Fairness ==
    /\ WF_vars(Finish) /\ WF_vars(StopTimeout)
    /\ \A s \in Sess :
        /\ WF_vars(SupConnect(s) \/ SupRead(s) \/ SupSignal(s)) /\ WF_vars(Deadline(s))
        /\ WF_vars(SupKill(s)) /\ WF_vars(SupReap(s)) /\ WF_vars(AuthExits(s))
        /\ WF_vars(platform = "windows" /\ RelayStep(s))

Spec == Init /\ [][Next]_vars /\ Fairness
----------------------------------------------------------------------------
(* Properties.                                                             *)

\* Never two relays beyond the instance lock, however sessions and a relay
\* started by hand overlap.
OneRelay == Cardinality({r \in Relays : relay[r] \in Holder}) <= 1

\* The supervisor outlives its relay: it ends only when the child is reaped.
RelayReaped == \A s \in Sess : sup[s] = "gone" => relay[s] \in {"none", "dead"}

\* A relay the application does not own any more (it is Idle, gone, or in a later
\* session) has lost its connection to it; with pkexec and on Windows there is
\* none while the application is Idle.
NoStrayRelay ==
    /\ \A s \in Sess : platform # "windows" /\ relay[s] \in Live
            /\ (~ alive \/ state = "Idle" \/ s # sess) => ctl[s] = "dropped"
    /\ platform # "osascript" /\ alive /\ state = "Idle" =>
            \A s \in Sess : relay[s] \notin Live

\* The application quits, except by force, only when its relay has ended.
QuitWaits ==
    [][(Close \/ Finish) /\ ~ alive' /\ platform # "osascript" =>
            \A s \in Sess : relay'[s] \notin Live]_vars

\* No relay of an earlier session is left to make a new one refuse to start;
\* with osascript, which ends before the supervisor it started, there can be.
OneSession ==
    platform # "osascript" => Cardinality({s \in Sess : relay[s] \in Live}) <= 1

\* "Running only after the relay's readiness message".
RunningWasReady ==
    state = "Running" => line[sess] = "read" /\ relay[sess] \in {"up", "closing", "dead"}

\* Once stopping, a session is not reported running any more: a late readiness
\* line does not undo Stop.
StopIsFinal ==
    [][state = "Stopping" => state' \in {"Stopping", "Idle"}]_vars

\* Stop ends in Idle, whether it meets the prompt, a supervisor that is just
\* connecting, or a relay that does not exit.
StopCompletes == state = "Stopping" ~> state = "Idle" \/ ~ alive

\* When the application is gone, so is, in the end, every relay it started.
OrphansStop == ~ alive ~> \A s \in Sess : relay[s] \notin Live

\* A session ends when it is asked to, and when nobody is left to ask.
RelaysEnd == StopCompletes /\ OrphansStop
=============================================================================
