------------------------- MODULE DockerStartProofs -------------------------
(***************************************************************************)
(* start-docker and stop-docker, for any number of VPNs and of starts, any *)
(* timeout and any length of a round.                                      *)
(***************************************************************************)
EXTENDS DockerStart, TLAPS

---------------------------------------------------------------------------
(* The inductive invariant.                                                *)

\* What start() has when it begins to write, after one file and after two.
Stages == {{}, {"docker-compose.yml"}, {"docker-compose.yml", ".env"}}

\* The files this start() has written are for its own number of VPNs, and it
\* passes on to compose when it has written all of them.
Written ==
    /\ pc = "check" => files = {}
    /\ pc = "write" => files \in Stages /\ \A f \in files : disk[f] = vpns
    /\ SameGeneration

\* The VPN whose status is asked for is one of the configured ones.
InRound == pc \in {"status", "prepare"} => next \in Vpns

\* A VPN that counts as connected was so when its status was asked for.
Seen ==
    /\ pc = "prepare" => next \in askedUp
    /\ \A v \in Vpns : states[v] = "Connected" => v \in askedUp
    /\ pc = "ready" /\ ~noWait => Connected # {}

\* A restart that succeeded is the end of the wait, and has made the proxy read
\* the tunnels of this start().
TunnelsRead ==
    /\ restarted => pc \in Over
    /\ restarted /\ pc = "ready" /\ proxy = "running" => proxyTunnels = Vpns

DockerInv ==
    /\ TypeOK /\ Written /\ InRound /\ Seen /\ TunnelsRead
    /\ NotGivenUpEarly

---------------------------------------------------------------------------

LEMMA InitInv == Init => DockerInv
<1> SUFFICES ASSUME Init PROVE DockerInv
  OBVIOUS
<1> USE DockerAssumption DEF DockerAssumption, Init
<1>1. TypeOK
  <2>1. vpns \in Nat /\ states \in [1..vpns -> {"Connected", "Failed", "Waiting"}]
    BY DEF Vpns
  <2>2. container \in [1..MaxVpns -> {"absent", "starting", "connected", "exited"}]
    BY DEF Containers
  <2>3. disk \in [AllFiles -> 0..MaxVpns]
    OBVIOUS
  <2>4. restarted \in BOOLEAN /\ tokenSet \in BOOLEAN /\ noWait \in BOOLEAN
    BY Zenon
  <2>5. files \subseteq AllFiles /\ socks \subseteq Containers /\ proxyTunnels \subseteq Containers
    OBVIOUS
  <2> QED
    BY <2>1, <2>2, <2>3, <2>4, <2>5 DEF TypeOK, Containers, Vpns, Resolved, Over
<1>2. Written /\ InRound /\ TunnelsRead
  BY DEF Written, SameGeneration, InRound, TunnelsRead
<1>3. Seen /\ NotGivenUpEarly
  BY DEF Seen, NotGivenUpEarly, Vpns
<1> QED
  BY <1>1, <1>2, <1>3 DEF DockerInv

\* Every step keeps the types.
LEMMA TypeStep ==
    ASSUME TypeOK, InRound, [Next]_vars
    PROVE  TypeOK'
<1> USE DockerAssumption DEF DockerAssumption, TypeOK, Vpns, Containers, Resolved, Over, Goto
<1>1. CASE Check
  BY <1>1 DEF Check, config, pollVars, world, proxyVars, history
<1>2. CASE Write
  <2>1. FileAfter \in AllFiles
    BY DEF FileAfter, AllFiles
  <2>2. disk' \in [AllFiles -> 0..MaxVpns] /\ files' \subseteq AllFiles
    BY <1>2, <2>1 DEF Write, WriteError
  <2>3. pc' \in {"up", "write", "failed"}
    BY <1>2 DEF Write, WriteError, NextWrite
  <2> QED
    BY <1>2, <2>2, <2>3 DEF Write, proxyVars, config, pollVars, history
<1>3. CASE ComposeUp
  <2>1. FileTunnels \subseteq Containers /\ Services \subseteq Containers
    BY DEF FileTunnels, Services, AllFiles
  <2> QED
    BY <1>3, <2>1 DEF ComposeUp, ProxyReads, proxyVars, config, pollVars, history
<1>4. CASE Skip
  BY <1>4 DEF Skip, config, world, proxyVars, history
<1>5. CASE InspectDown
  BY <1>5 DEF InspectDown, config, world, proxyVars
<1>6. CASE InspectRunning
  BY <1>6 DEF InspectRunning, config, pollVars, world, proxyVars, history
<1>7. CASE StatusWaiting
  BY <1>7 DEF StatusWaiting, NotConnectedYet, Asked, InRound, config, world, proxyVars
<1>8. CASE StatusConnected
  BY <1>8 DEF StatusConnected, Asked, InRound, config, pollVars, world, proxyVars
<1>9. CASE Prepare
  <2>1. socks' \subseteq Containers
    <3>1. socks' \subseteq socks \cup {next}
      BY <1>9 DEF Prepare
    <3>2. next \in Containers
      BY <1>9 DEF Prepare, InRound
    <3> QED
      BY <3>1, <3>2
  <2>2. next' \in 1..(vpns' + 1) /\ states' \in [1..vpns' -> {"Connected", "Failed", "Waiting"}]
    BY <1>9 DEF Prepare, InRound, config
  <2> QED
    BY <1>9, <2>1, <2>2 DEF Prepare, proxyVars, config, history
<1>10. CASE Proceed
  <2>1. FileTunnels \subseteq Containers
    BY DEF FileTunnels, AllFiles
  <2>2. /\ proxy' \in {"absent", "exited", "running"} /\ proxyTunnels' \subseteq Containers
        /\ pc' \in {"ready", "failed"}
    BY <1>10, <2>1 DEF Proceed, Restart, ProxyReads, proxyVars
  <2>3. restarted' \in BOOLEAN
    BY <1>10, Zenon DEF Proceed, Restart
  <2> QED
    BY <1>10, <2>2, <2>3 DEF Proceed, config
<1>11. CASE Sleep
  BY <1>11 DEF Sleep, AtMost, TimeUp, config, world, proxyVars, history
<1>12. CASE ContainerStep
  BY <1>12 DEF ContainerStep, VpnConnects, VpnDrops, ContainerExits, ProxyExits, Running,
                proxyVars, config, pollVars, history
<1>13. CASE Stop
  BY <1>13 DEF Stop, proxyVars, config, pollVars, history
<1>14. CASE StartAgain
  <2>1. vpns' \in Nat /\ states' \in [1..vpns' -> {"Connected", "Failed", "Waiting"}]
    BY <1>14 DEF StartAgain
  <2>2. starts' \in 1..MaxStarts
    BY <1>14 DEF StartAgain
  <2>3. vpns' \in MinVpns..MaxVpns /\ tokenSet' \in BOOLEAN /\ noWait' \in BOOLEAN
    BY <1>14 DEF StartAgain
  <2>4. restarted' \in BOOLEAN
    BY <1>14, Zenon DEF StartAgain
  <2>5. pc' = "check" /\ next' = 1 /\ elapsed' = 0 /\ files' = {} /\ sawDown' = {}
        /\ askedUp' = {}
    BY <1>14 DEF StartAgain
  <2>6. UNCHANGED <<disk, container, socks, proxy, proxyTunnels>>
    BY <1>14 DEF StartAgain, world, proxyVars
  <2>7. next' \in 1..(vpns' + 1)
    <3>1. vpns' \in Nat /\ next' = 1
      BY <2>1, <2>5
    <3>2. \A n \in Nat : 1 \in 1..(n + 1)
      OBVIOUS
    <3> QED
      BY <3>1, <3>2, Zenon
  <2>8. /\ pc' \in {"check", "write", "up", "inspect", "status", "prepare"} \cup Over
        /\ elapsed' \in 0..(Timeout + 1)
    BY <2>5
  <2>9. states' \in [Vpns' -> Resolved \cup {"Waiting"}]
    BY <2>1
  <2>10. files' \subseteq AllFiles /\ sawDown' \subseteq Vpns' /\ askedUp' \subseteq Vpns'
    BY <2>5
  <2>11. /\ disk' \in [AllFiles -> 0..MaxVpns]
         /\ container' \in [Containers -> {"absent", "starting", "connected", "exited"}]
         /\ socks' \subseteq Containers /\ proxyTunnels' \subseteq Containers
         /\ proxy' \in {"absent", "exited", "running"}
    BY <2>6
  <2> HIDE DEF Vpns, Containers, Resolved, Over
  <2> QED
    BY <2>2, <2>3, <2>4, <2>7, <2>8, <2>9, <2>10, <2>11, Zenon
<1>15. CASE UNCHANGED vars
  BY <1>15 DEF vars, config, pollVars, world, proxyVars, history
<1> QED
  BY <1>1, <1>2, <1>3, <1>4, <1>5, <1>6, <1>7, <1>8, <1>9, <1>10, <1>11, <1>12,
     <1>13, <1>14, <1>15 DEF Next, StartStep

\* A start() that goes on to compose has written all three files itself, after
\* an earlier one with another number of VPNs too.
LEMMA WrittenStep ==
    ASSUME TypeOK, Written, [Next]_vars
    PROVE  Written'
<1> USE DEF Written, SameGeneration, Goto
<1>1. CASE Check
  BY <1>1 DEF Check, Stages, config, world, proxyVars
<1>2. CASE Write
  <2>1. files \in Stages /\ \A f \in files : disk[f] = vpns
    BY <1>2 DEF Write
  <2>2. vpns' = vpns
    BY <1>2 DEF Write, config
  <2>3. CASE /\ files' = files \cup {FileAfter}
             /\ disk' = [f \in AllFiles |-> IF f = FileAfter THEN vpns ELSE disk[f]]
             /\ NextWrite(files')
    <3>1. CASE files = {}
      BY <2>1, <2>2, <2>3, <3>1 DEF FileAfter, NextWrite, AllFiles, Stages
    <3>2. CASE files = {"docker-compose.yml"}
      BY <2>1, <2>2, <2>3, <3>2 DEF FileAfter, NextWrite, AllFiles, Stages
    <3>3. CASE files = {"docker-compose.yml", ".env"}
      <4>1. FileAfter = "tunnels.docker.toml"
        BY <3>3 DEF FileAfter
      <4>2. files' = AllFiles
        BY <2>3, <3>3, <4>1 DEF AllFiles
      <4>3. pc' = "up"
        BY <2>3, <4>2 DEF NextWrite
      <4>4. \A f \in AllFiles : disk'[f] = vpns
        BY <2>1, <2>3, <3>3, <4>1 DEF AllFiles
      <4> QED
        BY <4>3, <4>4, <2>2
    <3> QED
      BY <2>1, <3>1, <3>2, <3>3 DEF Stages
  <2>4. CASE WriteError
    BY <2>4 DEF WriteError
  <2> QED
    BY <1>2, <2>3, <2>4 DEF Write
<1>3. CASE ComposeUp
  BY <1>3 DEF ComposeUp, config
<1>4. CASE Skip \/ InspectDown \/ InspectRunning
  BY <1>4 DEF Skip, InspectDown, InspectRunning, config, pollVars, world, proxyVars
<1>5. CASE StatusWaiting \/ StatusConnected \/ Prepare
  BY <1>5 DEF StatusWaiting, StatusConnected, Prepare, config, pollVars, world, proxyVars
<1>6. CASE Proceed \/ Sleep
  BY <1>6 DEF Proceed, Sleep, RoundOver, config, world, proxyVars
<1>7. CASE ContainerStep \/ Stop
  BY <1>7 DEF ContainerStep, Stop, config
<1>8. CASE StartAgain
  BY <1>8 DEF StartAgain
<1>9. CASE UNCHANGED vars
  BY <1>9 DEF vars, config, world, proxyVars
<1> QED
  BY <1>1, <1>2, <1>3, <1>4, <1>5, <1>6, <1>7, <1>8, <1>9 DEF Next, StartStep

\* The poll loop asks for the status of the VPN it has just inspected.
LEMMA InRoundStep ==
    ASSUME TypeOK, InRound, [Next]_vars
    PROVE  InRound'
<1> USE DEF InRound, Goto, Vpns
<1>1. CASE Check \/ Write \/ ComposeUp
  BY <1>1 DEF Check, Write, NextWrite, WriteError, ComposeUp
<1>2. CASE Skip \/ InspectDown \/ InspectRunning
  BY <1>2 DEF Skip, InspectDown, InspectRunning, config, pollVars
<1>3. CASE StatusWaiting \/ StatusConnected \/ Prepare
  BY <1>3 DEF StatusWaiting, StatusConnected, Prepare, config, pollVars
<1>4. CASE Proceed \/ Sleep
  BY <1>4 DEF Proceed, Sleep, RoundOver
<1>5. CASE ContainerStep \/ Stop
  BY <1>5 DEF ContainerStep, Stop, config, pollVars
<1>6. CASE StartAgain
  BY <1>6 DEF StartAgain
<1>7. CASE UNCHANGED vars
  BY <1>7 DEF vars, config, pollVars
<1> QED
  BY <1>1, <1>2, <1>3, <1>4, <1>5, <1>6, <1>7 DEF Next, StartStep

\* A VPN counts as connected only when its container was, at the moment the
\* status was asked for, and the wait ends well only with such a VPN.
LEMMA SeenStep ==
    ASSUME TypeOK, InRound, Seen, [Next]_vars
    PROVE  Seen'
<1> USE DEF Seen, Goto, Vpns, Connected
<1>1. CASE Check \/ Write
  BY <1>1 DEF Check, Write, NextWrite, WriteError, config, pollVars, history
<1>2. CASE ComposeUp
  BY <1>2 DEF ComposeUp, config, pollVars, history
<1>3. CASE Skip \/ InspectDown \/ InspectRunning
  BY <1>3 DEF Skip, InspectDown, InspectRunning, TypeOK, config, pollVars, history
<1>4. CASE StatusWaiting
  BY <1>4 DEF StatusWaiting, NotConnectedYet, Asked, TypeOK, InRound, config
<1>5. CASE StatusConnected
  BY <1>5 DEF StatusConnected, Asked, config, pollVars
<1>6. CASE Prepare
  BY <1>6 DEF Prepare, TypeOK, InRound, config, history
<1>7. CASE Proceed
  <2>1. UNCHANGED <<vpns, askedUp>> /\ pc' \in {"ready", "failed"}
    BY <1>7 DEF Proceed, config
  <2>2. \A v \in Vpns : states'[v] = "Connected" <=> states[v] = "Connected"
    BY <1>7 DEF Proceed
  <2>3. pc' = "ready" => Connected # {}
    BY <1>7 DEF Proceed, Usable
  <2> QED
    BY <2>1, <2>2, <2>3
<1>8. CASE Sleep
  BY <1>8 DEF Sleep, RoundOver, config, history
<1>9. CASE ContainerStep \/ Stop
  BY <1>9 DEF ContainerStep, Stop, config, pollVars, history
<1>10. CASE StartAgain
  BY <1>10 DEF StartAgain
<1>11. CASE UNCHANGED vars
  BY <1>11 DEF vars, config, pollVars, history
<1> QED
  BY <1>1, <1>2, <1>3, <1>4, <1>5, <1>6, <1>7, <1>8, <1>9, <1>10, <1>11
  DEF Next, StartStep

\* The proxy container reads the file of this start() when it is restarted.
LEMMA TunnelsReadStep ==
    ASSUME TypeOK, Written, TunnelsRead, [Next]_vars
    PROVE  TunnelsRead'
<1> USE DEF TunnelsRead, Goto, Vpns, Over
<1>1. CASE Check \/ Write \/ ComposeUp
  BY <1>1 DEF Check, Write, NextWrite, WriteError, ComposeUp, history
<1>2. CASE Skip \/ InspectDown \/ InspectRunning
  BY <1>2 DEF Skip, InspectDown, InspectRunning, config, history
<1>3. CASE StatusWaiting \/ StatusConnected \/ Prepare
  BY <1>3 DEF StatusWaiting, StatusConnected, Prepare, config, history
<1>4. CASE Proceed
  <2>1. pc = "inspect" /\ ~restarted /\ pc' \in Over
    BY <1>4 DEF Proceed, RoundOver
  <2>2. FileTunnels = 1..vpns /\ vpns' = vpns
    BY <1>4, <2>1 DEF Proceed, FileTunnels, Written, SameGeneration, AllFiles, config
  <2>3. restarted' => proxyTunnels' = FileTunnels
    BY <1>4, <2>1 DEF Proceed, Restart, ProxyReads
  <2> QED
    BY <2>1, <2>2, <2>3
<1>5. CASE Sleep
  BY <1>5 DEF Sleep, RoundOver, history
<1>6. CASE ContainerStep
  BY <1>6 DEF ContainerStep, VpnConnects, VpnDrops, ContainerExits, ProxyExits, proxyVars,
              config, history
<1>7. CASE Stop \/ StartAgain
  BY <1>7 DEF Stop, StartAgain, proxyVars, config, history
<1>8. CASE UNCHANGED vars
  BY <1>8 DEF vars, config, world, proxyVars, history
<1> QED
  BY <1>1, <1>2, <1>3, <1>4, <1>5, <1>6, <1>7, <1>8 DEF Next, StartStep

\* Only an inspect and the end of the time make a VPN fail.
LEMMA NotGivenUpStep ==
    ASSUME TypeOK, InRound, NotGivenUpEarly, [Next]_vars
    PROVE  NotGivenUpEarly'
<1> USE DEF NotGivenUpEarly, TimeUp, Vpns
<1>1. CASE Check \/ Write \/ ComposeUp
  BY <1>1 DEF Check, Write, ComposeUp, config, pollVars, history
<1>2. CASE Skip \/ InspectDown \/ InspectRunning
  BY <1>2 DEF Skip, InspectDown, InspectRunning, TypeOK, config, pollVars, history
<1>3. CASE StatusWaiting
  BY <1>3 DEF StatusWaiting, NotConnectedYet, InRound, TypeOK, config, history
<1>4. CASE StatusConnected
  BY <1>4 DEF StatusConnected, config, pollVars, history
<1>5. CASE Prepare
  BY <1>5 DEF Prepare, InRound, TypeOK, config, history
<1>6. CASE Proceed
  BY <1>6 DEF Proceed, AllResolved, Resolved, config, history
<1>7. CASE Sleep
  BY <1>7 DEF Sleep, config, history
<1>8. CASE ContainerStep \/ Stop
  BY <1>8 DEF ContainerStep, Stop, config, pollVars, history
<1>9. CASE StartAgain
  BY <1>9 DEF StartAgain
<1>10. CASE UNCHANGED vars
  BY <1>10 DEF vars, config, pollVars, history
<1> QED
  BY <1>1, <1>2, <1>3, <1>4, <1>5, <1>6, <1>7, <1>8, <1>9, <1>10 DEF Next, StartStep

---------------------------------------------------------------------------

LEMMA Invariance == Spec => []DockerInv
<1>1. DockerInv /\ [Next]_vars => DockerInv'
  BY TypeStep, WrittenStep, InRoundStep, SeenStep, TunnelsReadStep,
     NotGivenUpStep DEF DockerInv
<1> QED
  BY InitInv, <1>1, PTL DEF Spec

\* Types; the poll loop's index stays within the VPNs, and start() writes the
\* three files it names and no other.
THEOREM DockerTypeCorrect == Spec => []TypeOK
<1>1. DockerInv => TypeOK
  BY DEF DockerInv
<1> QED
  BY Invariance, <1>1, PTL

\* When start() runs compose, and from then on, all three files on disk are its
\* own, whatever an earlier start() left and whichever write failed.
THEOREM FilesOfOneStart == Spec => []SameGeneration
<1>1. DockerInv => SameGeneration
  BY DEF DockerInv, Written
<1> QED
  BY Invariance, <1>1, PTL

\* wait_for_healthy gives a VPN up only when an inspect found its container
\* down or the time is up.
THEOREM NoVpnGivenUpEarly == Spec => []NotGivenUpEarly
<1>1. DockerInv => NotGivenUpEarly
  BY DEF DockerInv
<1> QED
  BY Invariance, <1>1, PTL

\* A start() that waited and succeeded has found a VPN connected when it asked,
\* and the proxy, if its restart succeeded and it runs, has that VPN's tunnel.
THEOREM SuccessHasTunnel == Spec => []ReadyHasTunnel
<1>1. DockerInv => ReadyHasTunnel
  <2> SUFFICES ASSUME DockerInv, pc = "ready", ~noWait
               PROVE  /\ Connected \cap askedUp # {}
                      /\ restarted /\ proxy = "running" =>
                            Connected \cap askedUp \cap proxyTunnels # {}
    BY DEF ReadyHasTunnel
  <2>1. PICK v \in Vpns : v \in Connected /\ v \in askedUp
    BY DEF DockerInv, Seen, Connected
  <2>2. restarted /\ proxy = "running" => v \in proxyTunnels
    BY <2>1 DEF DockerInv, TunnelsRead
  <2> QED
    BY <2>1, <2>2
<1> QED
  BY Invariance, <1>1, PTL
============================================================================
