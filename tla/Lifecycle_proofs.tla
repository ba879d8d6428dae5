-------------------------- MODULE Lifecycle_proofs --------------------------
(***************************************************************************)
(* Proofs about Lifecycle, for every set of platforms and any number of    *)
(* sessions of one run of the application.                                 *)
(***************************************************************************)
EXTENDS Lifecycle, FiniteSetTheorems, TLAPS

\* The controller: it is idle when it is gone and does not listen when idle, a
\* session that is not idle exists, and Running means that the line was read.
Gui ==
    /\ ~ alive => state = "Idle"
    /\ listening => state # "Idle"
    /\ state # "Idle" => sess # 0
    /\ state = "Running" => line[sess] = "read"

\* Sessions that do not exist yet have no processes, and those that are over
\* have no process `authorization'.
Order(s) ==
    /\ s > sess => /\ auth[s] = "none" /\ sup[s] = "none" /\ ctl[s] = "none"
                   /\ relay[s] = "none" /\ line[s] = "none"
    /\ s < sess \/ (alive /\ state = "Idle" /\ s = sess) => auth[s] = "exited"

\* How far `authorization' tells how far the supervisor and the relay are.
Chain(s) ==
    /\ auth[s] \in {"none", "prompt"} => sup[s] = "none"
    /\ platform = "pkexec" /\ auth[s] = "exited" => sup[s] \in {"none", "gone"}
    /\ platform = "windows" => /\ sup[s] = "none" /\ auth[s] # "prompt"
                               /\ auth[s] # "running" => relay[s] \notin Live
    /\ platform # "windows" /\ sup[s] # "run" => relay[s] \notin Live
    /\ platform # "windows" /\ sup[s] \in {"none", "starting"} => relay[s] = "none"

\* The connection of a supervisor that runs, and what the line proves.
Wire(s) ==
    /\ sup[s] = "run" => ctl[s] # "none"
    /\ state = "Idle" \/ s # sess => ctl[s] \in {"none", "dropped"}
    /\ line[s] # "none" => relay[s] \in {"up", "closing", "dead"}

\* At most one relay holds the instance lock.
Exclusive == \A q, r \in Relays : relay[q] \in Holder /\ relay[r] \in Holder => q = r

IInv ==
    /\ TypeOK
    /\ Gui
    /\ Exclusive
    /\ \A s \in Sess : Order(s) /\ Chain(s) /\ Wire(s)

\* The user presses Start.
LEMMA StartStep ==
    ASSUME IInv, Start
    PROVE  IInv'
<1> USE DEF Start, supVars
<1>0. /\ sess + 1 \in Sess /\ sess + 1 \in Relays /\ sess \in Nat
      /\ state = "Idle" /\ alive /\ sess' = sess + 1
  BY LifecycleAssumption DEF IInv, TypeOK, Sess, Relays
<1>1. CASE platform = "windows"
  <2>1. TypeOK'
    <3>1. relay' \in [Relays -> Live \cup {"none", "dead"}]
      BY <1>0, <1>1 DEF IInv, TypeOK, Live
    <3>2. auth' \in [Sess -> {"none", "prompt", "running", "exited"}]
      BY <1>0, <1>1 DEF IInv, TypeOK
    <3>3. sess' \in 0 .. MaxStarts
      BY <1>0 DEF Sess
    <3> QED  BY <1>1, <3>1, <3>2, <3>3 DEF IInv, TypeOK
  <2>2. Gui' /\ Exclusive'
    BY <1>0, <1>1 DEF IInv, TypeOK, Gui, Exclusive, Order, Holder
  <2>3. ASSUME NEW t \in Sess PROVE (Order(t) /\ Chain(t) /\ Wire(t))'
    <3>1. CASE t = sess + 1
      BY <1>0, <1>1, <3>1 DEF IInv, TypeOK, Gui, Order, Chain, Wire, Live
    <3>2. CASE t # sess + 1
      <4>0. t \in Relays
        BY DEF Relays
      <4>1. auth'[t] = auth[t] /\ relay'[t] = relay[t]
        BY <1>0, <1>1, <3>2, <4>0 DEF IInv, TypeOK
      <4>2. t > sess' <=> t > sess
        BY <3>2 DEF IInv, TypeOK, Sess
      <4>3. t < sess' => t < sess \/ t = sess
        BY <3>2 DEF IInv, TypeOK, Sess
      <4>4. Order(t)'
        BY <1>0, <1>1, <4>1, <4>2, <4>3 DEF IInv, Order
      <4>5. Chain(t)' /\ Wire(t)'
        BY <1>0, <1>1, <4>1, <4>3 DEF IInv, Chain, Wire
      <4> QED  BY <4>4, <4>5
    <3> QED  BY <3>1, <3>2
  <2> QED  BY <2>1, <2>2, <2>3 DEF IInv
<1>2. CASE platform # "windows"
  <2>1. TypeOK'
    BY <1>0, <1>2 DEF IInv, TypeOK, Sess
  <2>2. Gui' /\ Exclusive'
    BY <1>0, <1>2 DEF IInv, TypeOK, Gui, Exclusive, Order, Holder
  <2>3. ASSUME NEW t \in Sess PROVE (Order(t) /\ Chain(t) /\ Wire(t))'
    <3>1. CASE t = sess + 1
      BY <1>0, <1>2, <3>1 DEF IInv, TypeOK, Gui, Order, Chain, Wire, Live
    <3>2. CASE t # sess + 1
      <4>0. t \in Relays
        BY DEF Relays
      <4>1. auth'[t] = auth[t] /\ relay'[t] = relay[t]
        BY <1>0, <1>2, <3>2, <4>0 DEF IInv, TypeOK
      <4>2. t > sess' <=> t > sess
        BY <3>2 DEF IInv, TypeOK, Sess
      <4>3. t < sess' => t < sess \/ t = sess
        BY <3>2 DEF IInv, TypeOK, Sess
      <4>4. Order(t)'
        BY <1>0, <1>2, <4>1, <4>2, <4>3 DEF IInv, Order
      <4>5. Chain(t)' /\ Wire(t)'
        BY <1>0, <1>2, <4>1, <4>3 DEF IInv, Chain, Wire
      <4> QED  BY <4>4, <4>5
    <3> QED  BY <3>1, <3>2
  <2> QED  BY <2>1, <2>2, <2>3 DEF IInv
<1> QED  BY <1>1, <1>2

\* Receive keeps the invariant.
LEMMA ReceiveStep ==
    ASSUME IInv, Receive
    PROVE  IInv'
<1>1. TypeOK'
  BY LifecycleAssumption DEF IInv, TypeOK, Sess, Relays, Manual, Live, Receive, ReadyState, guiVars, supVars
<1>2. Gui'
  BY DEF IInv, TypeOK, Gui, Order, Chain, Wire, Sess, Relays, Manual, Receive, ReadyState, guiVars, supVars
<1>3. Exclusive'
  BY DEF IInv, TypeOK, Exclusive, Chain, Sess, Relays, Manual, Live, Holder, Receive, ReadyState, guiVars, supVars
<1>4. ASSUME NEW t \in Sess PROVE (Order(t) /\ Chain(t) /\ Wire(t))'
  <2>1. Order(t)'
    BY DEF IInv, TypeOK, Gui, Order, Sess, Relays, Manual, Receive, ReadyState, guiVars, supVars
  <2>2. Chain(t)'
    BY DEF IInv, TypeOK, Gui, Order, Chain, Sess, Relays, Manual, Live, Receive, ReadyState, guiVars, supVars
  <2>3. Wire(t)'
    BY DEF IInv, TypeOK, Gui, Order, Chain, Wire, Sess, Relays, Manual, Live, Receive, ReadyState, guiVars, supVars
  <2> QED  BY <2>1, <2>2, <2>3
<1> QED  BY <1>1, <1>2, <1>3, <1>4 DEF IInv

\* What stop() does: it asks the supervisor, or there is none and it takes away
\* the server, the connection and, if it can, the process.
LEMMA DoStopCases ==
    ASSUME DoStop
    PROVE  /\ state' = "Stopping"
           /\ \/ /\ stopCmd' = [stopCmd EXCEPT ![sess] = TRUE]
                 /\ UNCHANGED <<listening, ctl, auth>>
              \/ /\ listening' = FALSE /\ ctl' = Dropped(sess) /\ UNCHANGED stopCmd
                 /\ \/ auth' = auth
                    \/ /\ auth[sess] = "prompt" \/ platform = "osascript"
                       /\ auth' = [auth EXCEPT ![sess] = "exited"]
BY Zenon DEF DoStop, Terminated

\* stop(), whoever calls it.
LEMMA HaltStep ==
    ASSUME IInv, CanStop, DoStop, closing' \in BOOLEAN,
           UNCHANGED <<platform, alive, sess, socket, sup, halt, line, relay, sig>>
    PROVE  IInv'
<1>0. sess \in Sess /\ sess \in Nat /\ state # "Idle" /\ alive
  BY LifecycleAssumption DEF IInv, TypeOK, Gui, Sess, CanStop
<1>1. CASE /\ stopCmd' = [stopCmd EXCEPT ![sess] = TRUE]
           /\ UNCHANGED <<listening, ctl, auth>>
  <2>1. stopCmd' \in [Sess -> BOOLEAN]
    BY <1>1, Zenon DEF IInv, TypeOK
  <2>2. TypeOK'
    BY <1>1, <2>1, DoStopCases DEF IInv, TypeOK, Relays
  <2>3. Gui' /\ Exclusive'
    BY <1>0, <1>1, DoStopCases DEF IInv, TypeOK, Gui, Exclusive
  <2>4. ASSUME NEW t \in Sess PROVE (Order(t) /\ Chain(t) /\ Wire(t))'
    BY <1>0, <1>1, DoStopCases DEF IInv, Order, Chain, Wire
  <2> QED  BY <2>2, <2>3, <2>4 DEF IInv
<1>2. CASE /\ listening' = FALSE /\ ctl' = Dropped(sess) /\ UNCHANGED stopCmd
           /\ \/ auth' = auth
              \/ /\ auth[sess] = "prompt" \/ platform = "osascript"
                 /\ auth' = [auth EXCEPT ![sess] = "exited"]
  <2>1. TypeOK'
    BY <1>2, DoStopCases, ZenonT(60) DEF IInv, TypeOK, Relays, Dropped
  <2>2. Gui' /\ Exclusive'
    BY <1>0, <1>2, DoStopCases DEF IInv, TypeOK, Gui, Exclusive
  <2>3. ASSUME NEW t \in Sess PROVE (Order(t) /\ Chain(t) /\ Wire(t))'
    <3>1. ctl'[t] = ctl[t] \/ (ctl[t] # "none" /\ ctl'[t] = "dropped")
      BY <1>2 DEF IInv, TypeOK, Dropped
    <3>2. \/ auth'[t] = auth[t]
          \/ /\ t = sess /\ auth'[t] = "exited"
             /\ auth[t] = "prompt" \/ platform = "osascript"
      BY <1>2 DEF IInv, TypeOK
    <3>3. ctl[t] = "none" => ctl'[t] = "none"
      BY <1>2 DEF IInv, TypeOK, Dropped
    <3>4. Order(t)'
      BY <1>0, <3>2, <3>3, DoStopCases DEF IInv, Order, Sess
    <3>5. Chain(t)'
      BY <1>0, <3>2, DoStopCases DEF IInv, TypeOK, Chain, Live
    <3>6. Wire(t)'
      BY <1>0, <3>1, DoStopCases DEF IInv, Wire
    <3> QED  BY <3>4, <3>5, <3>6
  <2> QED  BY <2>1, <2>2, <2>3 DEF IInv
<1> QED  BY <1>1, <1>2, DoStopCases, Zenon

\* Stop keeps the invariant.
LEMMA StopStep ==
    ASSUME IInv, Stop \/ StartupTimeout
    PROVE  IInv'
<1>1. closing' \in BOOLEAN
  BY Zenon DEF IInv, TypeOK, Stop, StartupTimeout
<1> QED  BY <1>1, HaltStep, Zenon DEF Stop, StartupTimeout

\* Close keeps the invariant.
LEMMA CloseStep ==
    ASSUME IInv, Close
    PROVE  IInv'
<1>1. CASE state = "Idle"
  <2>1. alive' = FALSE /\ UNCHANGED <<platform, sess, socket, sup, halt, line, relay, sig,
                                     closing, state, stopCmd, listening, ctl, auth>>
    BY <1>1, Zenon DEF Close
  <2>2. TypeOK'
    BY <2>1, Zenon DEF IInv, TypeOK, Relays
  <2>3. Gui' /\ Exclusive'
    BY <1>1, <2>1 DEF IInv, Gui, Exclusive
  <2>4. ASSUME NEW t \in Sess PROVE (Order(t) /\ Chain(t) /\ Wire(t))'
    BY <1>1, <2>1 DEF IInv, Order, Chain, Wire
  <2> QED  BY <2>2, <2>3, <2>4 DEF IInv
<1>2. CASE state # "Idle"
  <2>1. closing' \in BOOLEAN /\ UNCHANGED <<platform, alive, sess, socket, sup, halt, line, relay, sig>>
    BY <1>2, Zenon DEF Close
  <2>2. CASE CanStop
    BY <1>2, <2>1, <2>2, HaltStep, Zenon DEF Close
  <2>3. CASE ~ CanStop
    <3>1. UNCHANGED <<state, stopCmd, listening, ctl, auth>>
      BY <1>2, <2>3, Zenon DEF Close
    <3>2. TypeOK' /\ Gui' /\ Exclusive'
      BY <2>1, <3>1 DEF IInv, TypeOK, Gui, Exclusive, Relays
    <3>3. ASSUME NEW t \in Sess PROVE (Order(t) /\ Chain(t) /\ Wire(t))'
      BY <2>1, <3>1 DEF IInv, Order, Chain, Wire
    <3> QED  BY <3>2, <3>3 DEF IInv
  <2> QED  BY <2>2, <2>3
<1> QED  BY <1>1, <1>2

\* Finish keeps the invariant.
LEMMA FinishStep ==
    ASSUME IInv, Finish
    PROVE  IInv'
<1>1. TypeOK'
  BY LifecycleAssumption, Zenon DEF IInv, TypeOK, Sess, Relays, Manual, Live, Finish, Dropped, guiVars, supVars
<1>2. Gui'
  BY DEF IInv, TypeOK, Gui, Order, Chain, Wire, Sess, Relays, Manual, Finish, Dropped, guiVars, supVars
<1>3. Exclusive'
  BY DEF IInv, TypeOK, Exclusive, Chain, Sess, Relays, Manual, Live, Holder, Finish, Dropped, guiVars, supVars
<1>4. ASSUME NEW t \in Sess PROVE (Order(t) /\ Chain(t) /\ Wire(t))'
  <2>1. Order(t)'
    BY DEF IInv, TypeOK, Gui, Order, Sess, Relays, Manual, Finish, Dropped, guiVars, supVars
  <2>2. Chain(t)'
    BY DEF IInv, TypeOK, Gui, Order, Chain, Sess, Relays, Manual, Live, Finish, Dropped, guiVars, supVars
  <2>3. Wire(t)'
    BY DEF IInv, TypeOK, Gui, Order, Chain, Wire, Sess, Relays, Manual, Live, Finish, Dropped, guiVars, supVars
  <2> QED  BY <2>1, <2>2, <2>3
<1> QED  BY <1>1, <1>2, <1>3, <1>4 DEF IInv

\* StopTimeout keeps the invariant.
LEMMA StopTimeoutStep ==
    ASSUME IInv, StopTimeout
    PROVE  IInv'
<1>1. TypeOK'
  BY LifecycleAssumption DEF IInv, TypeOK, Sess, Relays, Manual, Live, StopTimeout, guiVars, supVars
<1>2. Gui'
  BY DEF IInv, TypeOK, Gui, Order, Chain, Wire, Sess, Relays, Manual, StopTimeout, guiVars, supVars
<1>3. Exclusive'
  BY DEF IInv, TypeOK, Exclusive, Chain, Sess, Relays, Manual, Live, Holder, StopTimeout, guiVars, supVars
<1>4. ASSUME NEW t \in Sess PROVE (Order(t) /\ Chain(t) /\ Wire(t))'
  <2>1. Order(t)'
    BY DEF IInv, TypeOK, Gui, Order, Sess, Relays, Manual, StopTimeout, guiVars, supVars
  <2>2. Chain(t)'
    BY DEF IInv, TypeOK, Gui, Order, Chain, Sess, Relays, Manual, Live, StopTimeout, guiVars, supVars
  <2>3. Wire(t)'
    BY DEF IInv, TypeOK, Gui, Order, Chain, Wire, Sess, Relays, Manual, Live, StopTimeout, guiVars, supVars
  <2> QED  BY <2>1, <2>2, <2>3
<1> QED  BY <1>1, <1>2, <1>3, <1>4 DEF IInv

\* Crash keeps the invariant.
LEMMA CrashStep ==
    ASSUME IInv, NEW d \in BOOLEAN, Crash(d)
    PROVE  IInv'
<1>1. /\ alive' = FALSE /\ listening' = FALSE /\ socket' = FALSE
      /\ state' = "Idle" /\ closing' = FALSE
      /\ UNCHANGED <<platform, sess, sup, halt, line, sig>>
  BY Zenon DEF Crash
<1>2. CASE sess = 0
  <2>1. UNCHANGED <<ctl, auth, stopCmd, relay>>
    BY <1>2, Zenon DEF Crash
  <2>2. TypeOK' /\ Gui' /\ Exclusive'
    BY <1>1, <2>1, Zenon DEF IInv, TypeOK, Gui, Exclusive
  <2>3. ASSUME NEW t \in Sess PROVE (Order(t) /\ Chain(t) /\ Wire(t))'
    BY <1>1, <1>2, <2>1 DEF IInv, TypeOK, Order, Chain, Wire, Sess
  <2> QED  BY <2>2, <2>3 DEF IInv
<1>3. CASE sess # 0
  <2> DEFINE kills == d /\ platform = "windows" /\ relay[sess] \in Live
             ends == /\ d /\ platform # "windows" /\ auth[sess] # "none"
                     /\ auth[sess] = "prompt" \/ platform = "osascript"
  <2>0. sess \in Sess /\ sess \in Relays
    BY <1>3 DEF IInv, TypeOK, Sess, Relays
  <2>1. ctl' = Dropped(sess)
    BY <1>3, Zenon DEF Crash
  <2>2. /\ kills => relay' = [relay EXCEPT ![sess] = "dead"]
        /\ ~ kills => relay' = [relay EXCEPT ![sess] = relay[sess]]
    BY <1>3, Zenon DEF Crash
  <2>3. /\ ends => auth' = [auth EXCEPT ![sess] = "exited"]
        /\ ~ ends => auth' = auth
    BY <1>3, Zenon DEF Crash, Terminated
  <2>4. stopCmd' \in [Sess -> BOOLEAN]
    BY <1>3, ZenonT(60) DEF Crash, IInv, TypeOK
  <2>5. /\ kills => platform = "windows" /\ relay[sess] \in Live
        /\ ends => platform = "osascript" \/ (platform = "pkexec" /\ auth[sess] = "prompt")
    BY LifecycleAssumption, Zenon DEF IInv, TypeOK
  <2> HIDE DEF kills, ends
  <2>6. TypeOK'
    <3>1. relay' \in [Relays -> Live \cup {"none", "dead"}]
      BY <2>0, <2>2 DEF IInv, TypeOK, Live
    <3>2. auth' \in [Sess -> {"none", "prompt", "running", "exited"}]
      BY <2>0, <2>3 DEF IInv, TypeOK
    <3>3. ctl' \in [Sess -> {"none", "backlog", "open", "dropped", "cut"}]
      BY <2>0, <2>1 DEF IInv, TypeOK, Dropped
    <3> QED  BY <1>1, <2>4, <3>1, <3>2, <3>3, Zenon DEF IInv, TypeOK
  <2>7. \A r \in Relays : relay'[r] = relay[r] \/ (/\ r = sess /\ relay'[r] = "dead"
                                                  /\ relay[r] \in Live /\ platform = "windows")
    BY <2>0, <2>2, <2>5 DEF IInv, TypeOK
  <2>8. Gui' /\ Exclusive'
    BY <1>1, <2>7 DEF IInv, Gui, Exclusive, Holder
  <2>9. ASSUME NEW t \in Sess PROVE (Order(t) /\ Chain(t) /\ Wire(t))'
    <3>0. t \in Relays
      BY DEF Relays
    <3>1. ctl'[t] = ctl[t] \/ (t = sess /\ ctl[t] # "none" /\ ctl'[t] = "dropped")
      BY <2>1 DEF IInv, TypeOK, Dropped
    <3>2. t = sess => ctl'[t] \in {"none", "dropped"}
      BY <2>1 DEF IInv, TypeOK, Dropped
    <3>3. \/ auth'[t] = auth[t]
          \/ /\ t = sess /\ auth'[t] = "exited"
             /\ platform = "osascript" \/ (platform = "pkexec" /\ auth[t] = "prompt")
      BY <2>3, <2>5 DEF IInv, TypeOK
    <3>4. Order(t)'
      BY <1>1, <2>0, <2>7, <3>0, <3>1, <3>3, SMTT(30) DEF IInv, TypeOK, Order, Sess
    <3>5. Chain(t)'
      BY <1>1, <2>7, <3>0, <3>3, SMTT(30) DEF IInv, Chain, Live
    <3>6. Wire(t)'
      BY <1>1, <2>7, <3>0, <3>1, <3>2 DEF IInv, Wire
    <3> QED  BY <3>4, <3>5, <3>6
  <2> QED  BY <2>6, <2>8, <2>9 DEF IInv
<1> QED  BY <1>2, <1>3

\* NewConnection keeps the invariant.
LEMMA NewConnectionStep ==
    ASSUME IInv, NEW s \in Sess, NewConnection(s)
    PROVE  IInv'
<1>1. /\ listening /\ alive /\ s = sess /\ ctl[s] \in {"backlog", "cut"}
      /\ UNCHANGED <<platform, alive, sess, listening, closing, auth, sup, stopCmd, halt,
                     relay, sig>>
  BY Zenon DEF NewConnection, supVars
<1>2. state # "Idle"
  BY <1>1, Zenon DEF IInv, Gui
<1>3. \/ /\ state = "Stopping" /\ ctl' = [ctl EXCEPT ![s] = "dropped"]
         /\ UNCHANGED <<socket, state, line>>
      \/ /\ socket' = TRUE
         /\ \/ state' = "Running" /\ line[s] = "socket" /\ line' = [line EXCEPT ![s] = "read"]
            \/ state' = "Starting" /\ line' = [line EXCEPT ![s] = line[s]]
         /\ \/ ctl' = [ctl EXCEPT ![s] = "open"]
            \/ ctl' = [ctl EXCEPT ![s] = ctl[s]]
  BY <1>1 DEF NewConnection, Dropped
<1>4. TypeOK'
  <2>1. ctl' \in [Sess -> {"none", "backlog", "cut", "open", "dropped"}]
    BY <1>1, <1>3 DEF IInv, TypeOK
  <2>2. line' \in [Sess -> {"none", "pipe", "socket", "read"}]
    BY <1>1, <1>3 DEF IInv, TypeOK
  <2>3. socket' \in BOOLEAN /\ state' \in {"Idle", "Authorizing", "Starting", "Running", "Stopping"}
    BY <1>1, <1>3, Zenon DEF IInv, TypeOK
  <2> QED  BY <1>1, <2>1, <2>2, <2>3 DEF IInv, TypeOK
<1>5. Gui'
  BY <1>1, <1>3 DEF IInv, TypeOK, Gui
<1>6. Exclusive'
  BY <1>1 DEF IInv, Exclusive
<1>7. ASSUME NEW t \in Sess PROVE (Order(t) /\ Chain(t) /\ Wire(t))'
  <2>1. ctl'[t] = ctl[t] \/ (t = sess /\ ctl'[t] # "none")
    BY <1>1, <1>3 DEF IInv, TypeOK
  <2>2. line'[t] = line[t] \/ (t = sess /\ line[t] # "none")
    BY <1>1, <1>3 DEF IInv, TypeOK
  <2>3. state' # "Idle"
    BY <1>2, <1>3
  <2>4. Order(t)'
    BY <1>1, <1>2, <2>1, <2>2, <2>3, SMTT(30) DEF IInv, TypeOK, Order, Sess
  <2>5. Chain(t)'
    BY <1>1, SMTT(30) DEF IInv, Chain
  <2>6. Wire(t)'
    BY <1>1, <1>2, <2>1, <2>2, <2>3, SMTT(30) DEF IInv, Wire
  <2> QED  BY <2>4, <2>5, <2>6
<1> QED  BY <1>4, <1>5, <1>6, <1>7 DEF IInv

\* Approve keeps the invariant.
LEMMA ApproveStep ==
    ASSUME IInv, NEW s \in Sess, Approve(s)
    PROVE  IInv'
<1>1. TypeOK'
  BY LifecycleAssumption DEF IInv, TypeOK, Sess, Relays, Manual, Live, Approve, guiVars, supVars
<1>2. Gui'
  BY DEF IInv, TypeOK, Gui, Order, Chain, Wire, Sess, Relays, Manual, Approve, guiVars, supVars
<1>3. Exclusive'
  BY DEF IInv, TypeOK, Exclusive, Chain, Sess, Relays, Manual, Live, Holder, Approve, guiVars, supVars
<1>4. ASSUME NEW t \in Sess PROVE (Order(t) /\ Chain(t) /\ Wire(t))'
  <2>1. Order(t)'
    BY DEF IInv, TypeOK, Gui, Order, Sess, Relays, Manual, Approve, guiVars, supVars
  <2>2. Chain(t)'
    BY DEF IInv, TypeOK, Gui, Order, Chain, Sess, Relays, Manual, Live, Approve, guiVars, supVars
  <2>3. Wire(t)'
    BY DEF IInv, TypeOK, Gui, Order, Chain, Wire, Sess, Relays, Manual, Live, Approve, guiVars, supVars
  <2> QED  BY <2>1, <2>2, <2>3
<1> QED  BY <1>1, <1>2, <1>3, <1>4 DEF IInv

\* Deny keeps the invariant.
LEMMA DenyStep ==
    ASSUME IInv, NEW s \in Sess, Deny(s)
    PROVE  IInv'
<1>1. TypeOK'
  BY LifecycleAssumption DEF IInv, TypeOK, Sess, Relays, Manual, Live, Deny, guiVars, supVars
<1>2. Gui'
  BY DEF IInv, TypeOK, Gui, Order, Chain, Wire, Sess, Relays, Manual, Deny, guiVars, supVars
<1>3. Exclusive'
  BY DEF IInv, TypeOK, Exclusive, Chain, Sess, Relays, Manual, Live, Holder, Deny, guiVars, supVars
<1>4. ASSUME NEW t \in Sess PROVE (Order(t) /\ Chain(t) /\ Wire(t))'
  <2>1. Order(t)'
    BY DEF IInv, TypeOK, Gui, Order, Sess, Relays, Manual, Deny, guiVars, supVars
  <2>2. Chain(t)'
    BY DEF IInv, TypeOK, Gui, Order, Chain, Sess, Relays, Manual, Live, Deny, guiVars, supVars
  <2>3. Wire(t)'
    BY DEF IInv, TypeOK, Gui, Order, Chain, Wire, Sess, Relays, Manual, Live, Deny, guiVars, supVars
  <2> QED  BY <2>1, <2>2, <2>3
<1> QED  BY <1>1, <1>2, <1>3, <1>4 DEF IInv

\* SupConnect keeps the invariant.
LEMMA SupConnectStep ==
    ASSUME IInv, NEW s \in Sess, SupConnect(s)
    PROVE  IInv'
<1>1. /\ sup[s] = "starting"
      /\ UNCHANGED <<platform, alive, state, sess, socket, listening, closing, auth, stopCmd,
                     halt, line, sig>>
      /\ \/ /\ state # "Idle" /\ s = sess
            /\ sup' = [sup EXCEPT ![s] = "run"] /\ ctl' = [ctl EXCEPT ![s] = "backlog"]
            /\ relay' = [relay EXCEPT ![s] = "forked"]
         \/ sup' = [sup EXCEPT ![s] = "gone"] /\ UNCHANGED <<ctl, relay>>
  BY ZenonT(60) DEF IInv, Gui, SupConnect, guiVars
<1>2. platform # "windows" /\ relay[s] = "none" /\ line[s] = "none" /\ s \in Relays
  BY <1>1 DEF IInv, Chain, Wire, Relays
<1>3. TypeOK'
  BY <1>1, <1>2 DEF IInv, TypeOK, Live
<1>4. Gui' /\ Exclusive'
  BY <1>1, <1>2 DEF IInv, TypeOK, Gui, Exclusive, Holder
<1>5. ASSUME NEW t \in Sess PROVE (Order(t) /\ Chain(t) /\ Wire(t))'
  <2>0. t \in Relays
    BY SMTT(30) DEF Relays
  <2>1. CASE t = s
    <3>1. Order(t)'
      BY <1>1, <2>1, SMTT(30) DEF IInv, TypeOK, Order, Sess
    <3>2. Chain(t)'
      BY <1>1, <1>2, <2>1, SMTT(30) DEF IInv, TypeOK, Chain, Live
    <3>3. Wire(t)'
      BY <1>1, <1>2, <2>1, SMTT(30) DEF IInv, TypeOK, Wire
    <3> QED  BY <3>1, <3>2, <3>3
  <2>2. CASE t # s
    <3>1. sup'[t] = sup[t] /\ ctl'[t] = ctl[t] /\ relay'[t] = relay[t]
      BY <1>1, <2>0, <2>2, SMTT(30) DEF IInv, TypeOK
    <3> QED  BY <1>1, <3>1 DEF IInv, Order, Chain, Wire
  <2> QED  BY <2>1, <2>2
<1> QED  BY <1>3, <1>4, <1>5 DEF IInv

\* SupRead keeps the invariant.
LEMMA SupReadStep ==
    ASSUME IInv, NEW s \in Sess, SupRead(s)
    PROVE  IInv'
<1>1. TypeOK'
  BY LifecycleAssumption, SMTT(30) DEF IInv, TypeOK, Sess, Relays, Manual, Live, SupRead, guiVars, supVars
<1>2. Gui'
  BY DEF IInv, TypeOK, Gui, Order, Chain, Wire, Sess, Relays, Manual, SupRead, guiVars, supVars
<1>3. Exclusive'
  BY DEF IInv, TypeOK, Exclusive, Chain, Sess, Relays, Manual, Live, Holder, SupRead, guiVars, supVars
<1>4. ASSUME NEW t \in Sess PROVE (Order(t) /\ Chain(t) /\ Wire(t))'
  <2>1. Order(t)'
    BY SMTT(30) DEF IInv, TypeOK, Gui, Order, Sess, Relays, Manual, SupRead, guiVars, supVars
  <2>2. Chain(t)'
    BY SMTT(30) DEF IInv, TypeOK, Gui, Order, Chain, Sess, Relays, Manual, Live, SupRead, guiVars, supVars
  <2>3. Wire(t)'
    BY DEF IInv, TypeOK, Gui, Order, Chain, Wire, Sess, Relays, Manual, Live, SupRead, guiVars, supVars
  <2> QED  BY <2>1, <2>2, <2>3
<1> QED  BY <1>1, <1>2, <1>3, <1>4 DEF IInv

\* SupInterrupted keeps the invariant.
LEMMA SupInterruptedStep ==
    ASSUME IInv, NEW s \in Sess, NEW o \in BOOLEAN, SupInterrupted(s, o)
    PROVE  IInv'
<1>1. TypeOK'
  BY LifecycleAssumption, SMTT(30) DEF IInv, TypeOK, Sess, Relays, Manual, Live, SupInterrupted, guiVars, supVars
<1>2. Gui'
  BY SMTT(30) DEF IInv, TypeOK, Gui, Order, Chain, Wire, Sess, Relays, Manual, SupInterrupted, guiVars, supVars
<1>3. Exclusive'
  BY DEF IInv, TypeOK, Exclusive, Chain, Sess, Relays, Manual, Live, Holder, SupInterrupted, guiVars, supVars
<1>4. ASSUME NEW t \in Sess PROVE (Order(t) /\ Chain(t) /\ Wire(t))'
  <2>1. Order(t)'
    BY DEF IInv, TypeOK, Gui, Order, Sess, Relays, Manual, SupInterrupted, guiVars, supVars
  <2>2. Chain(t)'
    BY DEF IInv, TypeOK, Gui, Order, Chain, Sess, Relays, Manual, Live, SupInterrupted, guiVars, supVars
  <2>3. Wire(t)'
    BY SMTT(30) DEF IInv, TypeOK, Gui, Order, Chain, Wire, Sess, Relays, Manual, Live, SupInterrupted, guiVars, supVars
  <2> QED  BY <2>1, <2>2, <2>3, SMTT(30)
<1> QED  BY <1>1, <1>2, <1>3, <1>4, SMTT(30) DEF IInv

\* SupSignal keeps the invariant.
LEMMA SupSignalStep ==
    ASSUME IInv, NEW s \in Sess, SupSignal(s)
    PROVE  IInv'
<1>1. TypeOK'
  BY LifecycleAssumption, ZenonT(60) DEF IInv, TypeOK, Sess, Relays, Manual, Live, SupSignal, Signalled, guiVars, supVars
<1>2. Gui'
  BY DEF IInv, TypeOK, Gui, Order, Chain, Wire, Sess, Relays, Manual, SupSignal, Signalled, guiVars, supVars
<1>3. Exclusive'
  BY DEF IInv, TypeOK, Exclusive, Chain, Sess, Relays, Manual, Live, Holder, SupSignal, Signalled, guiVars, supVars
<1>4. ASSUME NEW t \in Sess PROVE (Order(t) /\ Chain(t) /\ Wire(t))'
  <2>1. Order(t)'
    BY DEF IInv, TypeOK, Gui, Order, Sess, Relays, Manual, SupSignal, Signalled, guiVars, supVars
  <2>2. Chain(t)'
    BY DEF IInv, TypeOK, Gui, Order, Chain, Sess, Relays, Manual, Live, SupSignal, Signalled, guiVars, supVars
  <2>3. Wire(t)'
    BY DEF IInv, TypeOK, Gui, Order, Chain, Wire, Sess, Relays, Manual, Live, SupSignal, Signalled, guiVars, supVars
  <2> QED  BY <2>1, <2>2, <2>3
<1> QED  BY <1>1, <1>2, <1>3, <1>4 DEF IInv

\* Deadline keeps the invariant.
LEMMA DeadlineStep ==
    ASSUME IInv, NEW s \in Sess, Deadline(s)
    PROVE  IInv'
<1>1. TypeOK'
  BY LifecycleAssumption DEF IInv, TypeOK, Sess, Relays, Manual, Live, Deadline, guiVars, supVars
<1>2. Gui'
  BY DEF IInv, TypeOK, Gui, Order, Chain, Wire, Sess, Relays, Manual, Deadline, guiVars, supVars
<1>3. Exclusive'
  BY DEF IInv, TypeOK, Exclusive, Chain, Sess, Relays, Manual, Live, Holder, Deadline, guiVars, supVars
<1>4. ASSUME NEW t \in Sess PROVE (Order(t) /\ Chain(t) /\ Wire(t))'
  <2>1. Order(t)'
    BY SMTT(30) DEF IInv, TypeOK, Gui, Order, Sess, Relays, Manual, Deadline, guiVars, supVars
  <2>2. Chain(t)'
    BY DEF IInv, TypeOK, Gui, Order, Chain, Sess, Relays, Manual, Live, Deadline, guiVars, supVars
  <2>3. Wire(t)'
    BY SMTT(30) DEF IInv, TypeOK, Gui, Order, Chain, Wire, Sess, Relays, Manual, Live, Deadline, guiVars, supVars
  <2> QED  BY <2>1, <2>2, <2>3
<1> QED  BY <1>1, <1>2, <1>3, <1>4 DEF IInv

\* SupKill keeps the invariant.
LEMMA SupKillStep ==
    ASSUME IInv, NEW s \in Sess, SupKill(s)
    PROVE  IInv'
<1>1. TypeOK'
  BY LifecycleAssumption, SMTT(30) DEF IInv, TypeOK, Sess, Relays, Manual, Live, SupKill, guiVars, supVars
<1>2. Gui'
  BY DEF IInv, TypeOK, Gui, Order, Chain, Wire, Sess, Relays, Manual, SupKill, guiVars, supVars
<1>3. Exclusive'
  BY SMTT(30) DEF IInv, TypeOK, Exclusive, Chain, Sess, Relays, Manual, Live, Holder, SupKill, guiVars, supVars
<1>4. ASSUME NEW t \in Sess PROVE (Order(t) /\ Chain(t) /\ Wire(t))'
  <2>1. Order(t)'
    BY SMTT(30) DEF IInv, TypeOK, Gui, Order, Sess, Relays, Manual, SupKill, guiVars, supVars
  <2>2. Chain(t)'
    BY SMTT(30) DEF IInv, TypeOK, Gui, Order, Chain, Sess, Relays, Manual, Live, SupKill, guiVars, supVars
  <2>3. Wire(t)'
    BY SMTT(30) DEF IInv, TypeOK, Gui, Order, Chain, Wire, Sess, Relays, Manual, Live, SupKill, guiVars, supVars
  <2> QED  BY <2>1, <2>2, <2>3
<1> QED  BY <1>1, <1>2, <1>3, <1>4 DEF IInv

\* SupForward keeps the invariant.
LEMMA SupForwardStep ==
    ASSUME IInv, NEW s \in Sess, SupForward(s)
    PROVE  IInv'
<1>1. TypeOK'
  BY LifecycleAssumption, SMTT(30) DEF IInv, TypeOK, Sess, Relays, Manual, Live, SupForward, guiVars, supVars
<1>2. Gui'
  BY SMTT(30) DEF IInv, TypeOK, Gui, Order, Chain, Wire, Sess, Relays, Manual, SupForward, guiVars, supVars
<1>3. Exclusive'
  BY SMTT(30) DEF IInv, TypeOK, Exclusive, Chain, Sess, Relays, Manual, Live, Holder, SupForward, guiVars, supVars
<1>4. ASSUME NEW t \in Sess PROVE (Order(t) /\ Chain(t) /\ Wire(t))'
  <2>1. Order(t)'
    BY SMTT(30) DEF IInv, TypeOK, Gui, Order, Sess, Relays, Manual, SupForward, guiVars, supVars
  <2>2. Chain(t)'
    BY SMTT(30) DEF IInv, TypeOK, Gui, Order, Chain, Sess, Relays, Manual, Live, SupForward, guiVars, supVars
  <2>3. Wire(t)'
    BY SMTT(30) DEF IInv, TypeOK, Gui, Order, Chain, Wire, Sess, Relays, Manual, Live, SupForward, guiVars, supVars
  <2> QED  BY <2>1, <2>2, <2>3
<1> QED  BY <1>1, <1>2, <1>3, <1>4 DEF IInv

\* SupReap keeps the invariant.
LEMMA SupReapStep ==
    ASSUME IInv, NEW s \in Sess, SupReap(s)
    PROVE  IInv'
<1>1. TypeOK'
  BY LifecycleAssumption, SMTT(30) DEF IInv, TypeOK, Sess, Relays, Manual, Live, SupReap, SupEnds, guiVars, supVars
<1>2. Gui'
  BY SMTT(30) DEF IInv, TypeOK, Gui, Order, Chain, Wire, Sess, Relays, Manual, SupReap, SupEnds, guiVars, supVars
<1>3. Exclusive'
  BY SMTT(30) DEF IInv, TypeOK, Exclusive, Chain, Sess, Relays, Manual, Live, Holder, SupReap, SupEnds, guiVars, supVars
<1>4. ASSUME NEW t \in Sess PROVE (Order(t) /\ Chain(t) /\ Wire(t))'
  <2>1. Order(t)'
    BY SMTT(30) DEF IInv, TypeOK, Gui, Order, Sess, Relays, Manual, SupReap, SupEnds, guiVars, supVars
  <2>2. Chain(t)'
    BY SMTT(30) DEF IInv, TypeOK, Gui, Order, Chain, Sess, Relays, Manual, Live, SupReap, SupEnds, guiVars, supVars
  <2>3. Wire(t)'
    BY SMTT(30) DEF IInv, TypeOK, Gui, Order, Chain, Wire, Sess, Relays, Manual, Live, SupReap, SupEnds, guiVars, supVars
  <2> QED  BY <2>1, <2>2, <2>3
<1> QED  BY <1>1, <1>2, <1>3, <1>4 DEF IInv

\* AuthExits keeps the invariant.
LEMMA AuthExitsStep ==
    ASSUME IInv, NEW s \in Sess, AuthExits(s)
    PROVE  IInv'
<1>1. TypeOK'
  BY LifecycleAssumption, SMTT(30) DEF IInv, TypeOK, Sess, Relays, Manual, Live, AuthExits, guiVars, supVars
<1>2. Gui'
  BY SMTT(30) DEF IInv, TypeOK, Gui, Order, Chain, Wire, Sess, Relays, Manual, AuthExits, guiVars, supVars
<1>3. Exclusive'
  BY SMTT(30) DEF IInv, TypeOK, Exclusive, Chain, Sess, Relays, Manual, Live, Holder, AuthExits, guiVars, supVars
<1>4. ASSUME NEW t \in Sess PROVE (Order(t) /\ Chain(t) /\ Wire(t))'
  <2>1. Order(t)'
    BY SMTT(30) DEF IInv, TypeOK, Gui, Order, Sess, Relays, Manual, AuthExits, guiVars, supVars
  <2>2. Chain(t)'
    BY DEF IInv, TypeOK, Gui, Order, Chain, Sess, Relays, Manual, Live, AuthExits, guiVars, supVars
  <2>3. Wire(t)'
    BY DEF IInv, TypeOK, Gui, Order, Chain, Wire, Sess, Relays, Manual, Live, AuthExits, guiVars, supVars
  <2> QED  BY <2>1, <2>2, <2>3
<1> QED  BY <1>1, <1>2, <1>3, <1>4 DEF IInv
\* A relay process becomes what.
LEMMA BecomeStep ==
    ASSUME IInv, NEW r \in Relays, NEW what \in Live \cup {"dead"}, Become(r, what),
           relay[r] \in Live \/ r = Manual,
           what \in Holder => relay[r] \in Holder \/ Holders(r) = {},
           relay[r] \in {"up", "closing", "dead"} => what \in {"up", "closing", "dead"},
           \/ line' = line
           \/ /\ r \in Sess /\ relay[r] \notin {"up", "closing", "dead"} /\ what = "up"
              /\ line' = [line EXCEPT ![r] = "socket"] \/ line' = [line EXCEPT ![r] = "pipe"]
    PROVE  IInv'
<1>1. /\ relay' = [relay EXCEPT ![r] = what]
      /\ UNCHANGED <<platform, alive, state, sess, socket, listening, closing, auth, sup,
                     stopCmd, halt, ctl>>
  BY Zenon DEF Become, guiVars, supVars
<1>2. sig' \in [Relays -> BOOLEAN]
  BY ZenonT(60) DEF Become, IInv, TypeOK
<1>3. TypeOK'
  <2>1. relay' \in [Relays -> Live \cup {"none", "dead"}]
    BY <1>1 DEF IInv, TypeOK
  <2>2. line' \in [Sess -> {"none", "pipe", "socket", "read"}]
    BY DEF IInv, TypeOK
  <2> QED  BY <1>1, <1>2, <2>1, <2>2, SMTT(30) DEF IInv, TypeOK
<1>4. \A q \in Relays : relay'[q] = IF q = r THEN what ELSE relay[q]
  BY <1>1, SMTT(30) DEF IInv, TypeOK
<1>5. Exclusive'
  BY <1>4, SMTT(30) DEF IInv, Exclusive, Holders
<1>6. \A t \in Sess : line[t] # "none" => relay[t] \in {"up", "closing", "dead"}
  BY SMTT(30) DEF IInv, Wire
<1>7. \A t \in Sess : line'[t] = line[t] \/ (t = r /\ what = "up" /\ line[t] = "none")
  BY <1>6, SMTT(30) DEF IInv, TypeOK
<1>8. Gui'
  <2>1. sess # 0 => sess \in Sess
    BY DEF IInv, TypeOK, Sess
  <2> QED  BY <1>1, <1>7, <2>1, SMTT(30) DEF IInv, Gui
<1>9. ASSUME NEW t \in Sess PROVE (Order(t) /\ Chain(t) /\ Wire(t))'
  <2>1. t \in Relays /\ t # Manual
    BY LifecycleAssumption DEF Relays, Sess, Manual
  <2>2. \/ relay'[t] = relay[t]
        \/ t = r /\ relay[t] \in Live /\ relay'[t] = what
    BY <1>4, <2>1, SMTT(30)
  <2>3. Order(t)'
    BY <1>1, <1>4, <1>7, <2>1, SMTT(30) DEF IInv, Order, Live
  <2>4. Chain(t)'
    BY <1>1, <2>2, SMTT(30) DEF IInv, Chain, Live
  <2>5. Wire(t)'
    BY <1>1, <1>6, <1>7, <2>1, <1>4, SMTT(30) DEF IInv, Wire
  <2> QED  BY <2>3, <2>4, <2>5
<1> QED  BY <1>3, <1>5, <1>8, <1>9 DEF IInv

\* The steps of a relay's start, work and end keep the invariant.
LEMMA RelaySteps ==
    ASSUME IInv, NEW r \in Relays, RelayStep(r) \/ RelayCrashes(r)
    PROVE  IInv'
<1>1. CASE RelayExec(r)
  BY <1>1, BecomeStep DEF RelayExec, Live, Holder
<1>2. CASE RelayScan(r)
  <2>1. \E what \in {"scanned", "dead"} : Become(r, what)
    BY <1>2 DEF RelayScan
  <2> QED  BY <1>2, <2>1, BecomeStep DEF RelayScan, Live, Holder
<1>3. CASE RelayLock(r)
  <2>1. \/ Become(r, "dead")
        \/ Become(r, "locked") /\ Holders(r) = {}
    BY <1>3 DEF RelayLock, LockResult
  <2>2. relay[r] \in {"boot", "scanned"} /\ line' = line
    BY <1>3 DEF RelayLock
  <2> QED  BY <2>1, <2>2, BecomeStep DEF Live, Holder
<1>4. CASE RelaySignals(r)
  <2>1. \E what \in {"init", "dead"} : Become(r, what)
    BY <1>4, ZenonT(60) DEF RelaySignals
  <2> QED  BY <1>4, <2>1, BecomeStep DEF RelaySignals, Live, Holder
<1>5. ASSUME NEW ok \in BOOLEAN, RelayInit(r, ok) PROVE IInv'
  <2>1. \/ Become(r, "dead") /\ line' = line
        \/ Become(r, "up") /\ line' = line
        \/ /\ Become(r, "up") /\ r \in Sess
           /\ line' = [line EXCEPT ![r] = "socket"] \/ line' = [line EXCEPT ![r] = "pipe"]
    BY <1>5, Zenon DEF RelayInit
  <2>2. relay[r] = "init"
    BY <1>5 DEF RelayInit
  <2> QED  BY <2>1, <2>2, BecomeStep DEF Live, Holder
<1>6. CASE RelayStops(r)
  <2>1. relay[r] = "up" /\ Become(r, "closing") /\ line' = line
    BY <1>6, ZenonT(60) DEF RelayStops
  <2> QED  BY <2>1, BecomeStep DEF Live, Holder
<1>7. CASE RelayExits(r)
  BY <1>7, BecomeStep DEF RelayExits, Live, Holder
<1>8. CASE RelayCrashes(r)
  BY <1>8, BecomeStep DEF RelayCrashes, Live, Holder
<1> QED  BY <1>1, <1>2, <1>3, <1>4, <1>5, <1>6, <1>7, <1>8, SMTT(30) DEF RelayStep

\* A relay started by hand keeps the invariant.
LEMMA ManualStep ==
    ASSUME IInv, StartManual \/ StopManual
    PROVE  IInv'
<1>0. Manual \in Relays /\ Manual \notin Sess
  BY LifecycleAssumption DEF Relays, Sess, Manual
<1>1. CASE StartManual
  BY <1>0, <1>1, BecomeStep DEF StartManual, Live, Holder
<1>2. CASE StopManual
  <2>1. /\ UNCHANGED <<platform, alive, state, sess, socket, listening, closing, auth, sup,
                       stopCmd, halt, ctl, line>>
        /\ relay' = relay \/ relay' = [relay EXCEPT ![Manual] = "dead"]
    BY <1>2, Zenon DEF StopManual, Signalled, guiVars, supVars
  <2>2. sig' \in [Relays -> BOOLEAN]
    BY <1>2, ZenonT(60) DEF StopManual, Signalled, IInv, TypeOK
  <2>3. \A q \in Relays : relay'[q] = relay[q] \/ (q = Manual /\ relay'[q] = "dead")
    BY <1>0, <2>1 DEF IInv, TypeOK
  <2>4. TypeOK'
    <3>1. relay' \in [Relays -> Live \cup {"none", "dead"}]
      BY <1>0, <2>1 DEF IInv, TypeOK
    <3> QED  BY <2>1, <2>2, <3>1, SMTT(30) DEF IInv, TypeOK
  <2>5. Gui' /\ Exclusive'
    BY <2>1, <2>3, SMTT(30) DEF IInv, Gui, Exclusive, Holder
  <2>6. ASSUME NEW t \in Sess PROVE (Order(t) /\ Chain(t) /\ Wire(t))'
    <3>1. relay'[t] = relay[t]
      BY <1>0, <2>3 DEF Relays
    <3> QED  BY <2>1, <3>1, SMTT(30) DEF IInv, Order, Chain, Wire
  <2> QED  BY <2>4, <2>5, <2>6 DEF IInv
<1> QED  BY <1>1, <1>2

\* Nothing runs at first.
LEMMA Starts == Init => IInv
<1> SUFFICES ASSUME Init PROVE IInv
  OBVIOUS
<1>1. TypeOK
  <2>1. /\ stopCmd \in [Sess -> BOOLEAN] /\ sig \in [Relays -> BOOLEAN]
        /\ alive \in BOOLEAN /\ socket \in BOOLEAN /\ listening \in BOOLEAN
        /\ closing \in BOOLEAN /\ platform \in Platforms
    BY Zenon DEF Init
  <2>2. sess \in 0 .. MaxStarts
    BY LifecycleAssumption DEF Init
  <2>3. relay \in [Relays -> Live \cup {"none", "dead"}]
    BY DEF Init
  <2>4. /\ auth \in [Sess -> {"none", "prompt", "running", "exited"}]
        /\ sup \in [Sess -> {"none", "starting", "run", "gone"}]
        /\ ctl \in [Sess -> {"none", "backlog", "open", "dropped", "cut"}]
    BY DEF Init
  <2>5. /\ halt \in [Sess -> {"no", "interrupted", "stopping", "late"}]
        /\ line \in [Sess -> {"none", "pipe", "socket", "read"}]
        /\ state \in {"Idle", "Authorizing", "Starting", "Running", "Stopping"}
    BY DEF Init
  <2> QED  BY <2>1, <2>2, <2>3, <2>4, <2>5, ZenonT(60) DEF TypeOK
<1>2. Gui /\ Exclusive
  BY DEF Init, Gui, Exclusive, Holder
<1>3. ASSUME NEW t \in Sess PROVE Order(t) /\ Chain(t) /\ Wire(t)
  <2>1. t \in Relays /\ t \in Nat /\ t > 0
    BY DEF Relays, Sess
  <2> QED  BY <2>1 DEF Init, Order, Chain, Wire, Live
<1> QED  BY <1>1, <1>2, <1>3 DEF IInv

\* A stuttering step keeps the invariant.
LEMMA Stutters == ASSUME IInv, UNCHANGED vars PROVE IInv'
<1>1. TypeOK' /\ Gui' /\ Exclusive'
  BY SMTT(30) DEF vars, IInv, TypeOK, Gui, Exclusive
<1>2. ASSUME NEW t \in Sess PROVE (Order(t) /\ Chain(t) /\ Wire(t))'
  BY DEF vars, IInv, Order, Chain, Wire
<1> QED  BY <1>1, <1>2, SMTT(30) DEF IInv

\* Every step of every process keeps the invariant.
LEMMA Inductive == IInv /\ [Next]_vars => IInv'
<1> SUFFICES ASSUME IInv, [Next]_vars PROVE IInv'
  OBVIOUS
<1>1. ASSUME NEW d \in BOOLEAN, Crash(d) PROVE IInv'
  BY <1>1, CrashStep
<1>2. CASE Start \/ Receive \/ Stop \/ StartupTimeout \/ Close \/ Finish \/ StopTimeout
  BY <1>2, StartStep, ReceiveStep, StopStep, CloseStep, FinishStep, StopTimeoutStep, SMTT(30)
<1>3. ASSUME NEW s \in Sess,
             \/ NewConnection(s) \/ Approve(s) \/ Deny(s) \/ SupConnect(s) \/ SupRead(s)
             \/ \E overflow \in BOOLEAN : SupInterrupted(s, overflow)
             \/ SupSignal(s) \/ Deadline(s) \/ SupKill(s) \/ SupForward(s) \/ SupReap(s)
             \/ AuthExits(s)
      PROVE  IInv'
  BY <1>3, NewConnectionStep, ApproveStep, DenyStep, SupConnectStep, SupReadStep,
     SupInterruptedStep, SupSignalStep, DeadlineStep, SupKillStep, SupForwardStep, SupReapStep,
     AuthExitsStep, SMTT(30)
<1>4. CASE StartManual \/ StopManual
  BY <1>4, ManualStep
<1>5. ASSUME NEW r \in Relays, RelayStep(r) \/ RelayCrashes(r) PROVE IInv'
  BY <1>5, RelaySteps
<1>6. CASE UNCHANGED vars
  BY <1>6, Stutters
<1> QED  BY <1>1, <1>2, <1>3, <1>4, <1>5, <1>6 DEF Next

(***************************************************************************)
(* The theorems.                                                           *)
(***************************************************************************)
\* IInv holds in every reachable state.
THEOREM Invariant == Spec => []IInv
BY Starts, Inductive, PTL DEF Spec

\* The variables keep their ranges (all of them, the processes' and
\* connections' states and the controller's).
THEOREM TypeCorrect == Spec => []TypeOK
<1>1. IInv => TypeOK
  BY DEF IInv
<1> QED  BY <1>1, Invariant, PTL

\* acquire_relay_instance: there are never two relays beyond the lock, for any
\* number of sessions and a relay started by hand.
THEOREM LockExclusive == Spec => []OneRelay
<1>1. ASSUME IInv PROVE OneRelay
  <2> DEFINE H == {r \in Relays : relay[r] \in Holder}
  <2>1. CASE H = {}
    <3>1. Cardinality({}) = 0
      BY FS_EmptySet
    <3> QED  BY <2>1, <3>1 DEF OneRelay
  <2>2. CASE H # {}
    <3>1. PICK r \in Relays : relay[r] \in Holder
      BY <2>2
    <3>2. H = {r}
      BY <1>1, <3>1 DEF IInv, Exclusive
    <3>3. Cardinality({r}) = 1
      BY FS_Singleton, SMTT(30)
    <3> QED  BY <3>2, <3>3 DEF OneRelay
  <2> QED  BY <2>1, <2>2
<1> QED  BY <1>1, Invariant, PTL

\* The supervisor's loop ends only with its child: no supervisor is outlived by
\* its relay.
THEOREM SupervisorLast == Spec => []RelayReaped
<1>1. ASSUME IInv PROVE RelayReaped
  <2> SUFFICES ASSUME NEW s \in Sess, sup[s] = "gone" PROVE relay[s] \in {"none", "dead"}
    BY DEF RelayReaped
  <2>1. relay[s] \notin Live /\ s \in Relays
    BY <1>1 DEF IInv, Chain, Relays
  <2> QED  BY <1>1, <2>1 DEF IInv, TypeOK
<1> QED  BY <1>1, Invariant, PTL

\* With pkexec and on Windows only the process `authorization' of the latest
\* session has a live relay behind it.
LEMMA LiveIsLatest ==
    ASSUME IInv, platform # "osascript", NEW s \in Sess, relay[s] \in Live
    PROVE  s = sess /\ auth[s] = "running"
<1>1. platform \in {"pkexec", "windows"} /\ sess \in Nat /\ s \in Nat
  BY LifecycleAssumption DEF IInv, TypeOK, Sess
<1>2. auth[s] \in {"none", "prompt", "running", "exited"}
  BY DEF IInv, TypeOK
<1>3. auth[s] = "running"
  BY <1>1, <1>2 DEF IInv, Chain
<1>4. ~ (s > sess) /\ ~ (s < sess)
  BY <1>3, SMTT(30) DEF IInv, Order
<1> QED  BY <1>1, <1>3, <1>4, SMTT(30)

\* No relay lives on unnoticed: one that the application does not own any more
\* has lost its connection, and with pkexec and on Windows Idle means that
\* there is none.
THEOREM NoneStray == Spec => []NoStrayRelay
<1>1. ASSUME IInv PROVE NoStrayRelay
  <2>1. ASSUME NEW s \in Sess, platform # "windows", relay[s] \in Live,
               ~ alive \/ state = "Idle" \/ s # sess
        PROVE  ctl[s] = "dropped"
    BY <1>1, <2>1 DEF IInv, Gui, Chain, Wire
  <2>2. ASSUME platform # "osascript", alive, state = "Idle", NEW s \in Sess, relay[s] \in Live
        PROVE  FALSE
    <3>1. s = sess /\ auth[s] = "running"
      BY <1>1, <2>2, LiveIsLatest, SMTT(30)
    <3> QED  BY <1>1, <2>2, <3>1 DEF IInv, Order
  <2> QED  BY <2>1, <2>2, SMTT(30) DEF NoStrayRelay
<1> QED  BY <1>1, Invariant, PTL

\* With pkexec and on Windows the relay of at most one session is alive.
THEOREM SessionsApart == Spec => []OneSession
<1>1. ASSUME IInv PROVE OneSession
  <2> SUFFICES ASSUME platform # "osascript"
               PROVE  Cardinality({s \in Sess : relay[s] \in Live}) <= 1
    BY DEF OneSession
  <2> DEFINE L == {s \in Sess : relay[s] \in Live}
  <2>1. L \subseteq {sess}
    BY <1>1, LiveIsLatest
  <2>2. L = {} \/ L = {sess}
    BY <2>1
  <2>3. Cardinality({}) = 0 /\ Cardinality({sess}) = 1
    BY FS_EmptySet, FS_Singleton, Zenon
  <2> QED  BY <2>2, <2>3
<1> QED  BY <1>1, Invariant, PTL

\* Running is shown only after the relay has announced itself.
THEOREM ReadyFirst == Spec => []RunningWasReady
<1>1. ASSUME IInv PROVE RunningWasReady
  <2>1. state = "Running" => sess \in Sess /\ line[sess] = "read"
    BY <1>1 DEF IInv, TypeOK, Gui, Sess
  <2> QED  BY <1>1, <2>1 DEF IInv, Wire, RunningWasReady
<1> QED  BY <1>1, Invariant, PTL

\* The window closes by itself only when no relay of the application runs.
THEOREM QuitIsSafe == Spec => QuitWaits
<1>1. ASSUME IInv, IInv', Close \/ Finish, ~ alive', platform # "osascript"
      PROVE  \A s \in Sess : relay'[s] \notin Live
  <2>1. UNCHANGED <<platform, sess, relay>> /\ ((state = "Idle" /\ alive) \/ auth[sess] = "exited")
    BY <1>1, Zenon DEF Close, Finish, CanStop
  <2> SUFFICES ASSUME NEW s \in Sess, relay[s] \in Live PROVE FALSE
    BY <2>1
  <2>2. s = sess /\ auth[s] = "running"
    BY <1>1, LiveIsLatest
  <2> QED  BY <1>1, <2>1, <2>2 DEF IInv, Order
<1>2. ASSUME IInv, IInv' PROVE
      (Close \/ Finish) /\ ~ alive' /\ platform # "osascript" =>
            \A s \in Sess : relay'[s] \notin Live
  BY <1>1, <1>2
<1> QED  BY <1>2, Invariant, PTL DEF QuitWaits

\* Once Stop is chosen nothing makes the session appear to run again.
THEOREM StopSticks == Spec => StopIsFinal
<1>1. ASSUME state = "Stopping", [Next]_vars PROVE state' \in {"Stopping", "Idle"}
  <2>1. CASE Start \/ Receive \/ Stop \/ StartupTimeout \/ Close \/ Finish \/ StopTimeout
    BY <1>1, <2>1, Zenon DEF Start, Receive, ReadyState, Stop, StartupTimeout, DoStop, CanStop,
       Close, Finish, StopTimeout, guiVars
  <2>2. ASSUME NEW d \in BOOLEAN, Crash(d) PROVE state' = "Idle"
    BY <2>2, Zenon DEF Crash
  <2>3. ASSUME NEW s \in Sess, NewConnection(s) PROVE state' = "Stopping"
    BY <1>1, <2>3, Zenon DEF NewConnection
  <2>4. ASSUME NEW s \in Sess,
               \/ Approve(s) \/ Deny(s) \/ SupConnect(s) \/ SupRead(s)
               \/ \E overflow \in BOOLEAN : SupInterrupted(s, overflow)
               \/ SupSignal(s) \/ Deadline(s) \/ SupKill(s) \/ SupForward(s) \/ SupReap(s)
               \/ AuthExits(s)
        PROVE  UNCHANGED guiVars
    BY <2>4, Zenon DEF Approve, Deny, SupConnect, SupRead, SupInterrupted, SupSignal, Deadline,
       SupKill, SupForward, SupReap, SupEnds, AuthExits
  <2>5. CASE StartManual \/ StopManual
    BY <1>1, <2>5, Zenon DEF StartManual, StopManual, Become, guiVars
  <2>6. ASSUME NEW r \in Relays, RelayStep(r) \/ RelayCrashes(r) PROVE UNCHANGED guiVars
    BY <2>6, Zenon DEF RelayStep, RelayCrashes, RelayExec, RelayScan, RelayLock, RelaySignals,
       RelayInit, RelayStops, RelayExits, Become
  <2>7. CASE UNCHANGED vars
    BY <1>1, <2>7, Zenon DEF vars
  <2> QED  BY <1>1, <2>1, <2>2, <2>3, <2>4, <2>5, <2>6, <2>7, ZenonT(60) DEF Next, guiVars
<1> QED  BY <1>1, PTL DEF Spec, StopIsFinal
=============================================================================
