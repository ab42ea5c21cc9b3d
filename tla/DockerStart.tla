---------------------------- MODULE DockerStart ----------------------------
(***************************************************************************)
(* src/docker.rs: `houdinny start-docker` and its stop.  start() checks    *)
(* its arguments, writes three files, brings the compose stack up and      *)
(* polls the VPN containers (wait_for_healthy) until each is connected or  *)
(* failed or the time is up.  Between two docker commands a container may  *)
(* connect, lose its VPN or exit, and the user may run stop().  A start    *)
(* finds what earlier ones left: files, and containers that still run.     *)
(***************************************************************************)
EXTENDS Naturals, Sequences, FiniteSets

CONSTANTS
    MaxVpns,        \* bound on the number of [[docker.vpn]] entries
    MinVpns,        \* the fewest a run considers
    Timeout,        \* 180 s, in poll intervals of 5 s
    MaxDelay,       \* bound on the poll intervals one round may take
    MaxStarts       \* bound on the runs of start()

ASSUME DockerAssumption ==
    /\ MinVpns \in Nat /\ MaxVpns \in Nat /\ MinVpns <= MaxVpns
    /\ Timeout \in Nat
    /\ MaxDelay \in Nat \ {0}
    /\ MaxStarts \in Nat \ {0}

VARIABLES
    vpns,           \* number of VPN entries configured
    tokenSet,       \* a NordVPN token was resolved
    noWait,         \* --no-wait
    pc,             \* where start() is
    next,           \* the VPN the poll loop looks at next
    states,         \* VpnState of each VPN
    elapsed,        \* start.elapsed()
    files,          \* the files this start() has written
    \* files and containers
    disk,           \* how many VPNs each file on disk is for; 0: no such file
    container,      \* what each VPN container is really doing
    socks,          \* the VPNs in which microsocks was started
    proxy,          \* the houdinny container
    proxyTunnels,   \* the tunnels its process has read; {} when none runs
    \* history
    starts,         \* runs of start() so far
    askedUp,        \* VPNs that were connected when their status was last asked for
    sawDown,        \* VPNs whose inspect reported no running container
    restarted       \* docker restart houdinny succeeded in this start()

config  == <<vpns, tokenSet, noWait>>
pollVars == <<next, states, elapsed>>
proxyVars == <<proxy, proxyTunnels>>
world   == <<disk, container, socks, proxyVars>>
history == <<starts, askedUp, sawDown, restarted>>
vars == <<config, pc, pollVars, files, world, history>>

Vpns == 1..vpns
Containers == 1..MaxVpns
AllFiles == {"docker-compose.yml", ".env", "tunnels.docker.toml"}
Resolved == {"Connected", "Failed"}
Over == {"ready", "failed"}

\* The loop index of wait_for_healthy stays within the VPNs (and one past the
\* last), and start() writes the three files it names and no other.
TypeOK ==
    /\ vpns \in MinVpns..MaxVpns /\ tokenSet \in BOOLEAN /\ noWait \in BOOLEAN
    /\ pc \in {"check", "write", "up", "inspect", "status", "prepare"}
             \cup Over
    /\ next \in 1..(vpns + 1)
    /\ states \in [Vpns -> Resolved \cup {"Waiting"}]
    /\ elapsed \in 0..(Timeout + 1)
    /\ files \subseteq AllFiles
    /\ disk \in [AllFiles -> 0..MaxVpns]
    /\ container \in [Containers -> {"absent", "starting", "connected", "exited"}]
    /\ socks \subseteq Containers
    /\ proxy \in {"absent", "exited", "running"} /\ proxyTunnels \subseteq Containers
    /\ starts \in 1..MaxStarts /\ askedUp \subseteq Vpns /\ sawDown \subseteq Vpns
    /\ restarted \in BOOLEAN

Init ==
    /\ vpns \in MinVpns..MaxVpns /\ tokenSet \in BOOLEAN /\ noWait \in BOOLEAN
    /\ pc = "check" /\ next = 1 /\ elapsed = 0
    /\ states = [v \in Vpns |-> "Waiting"]
    /\ files = {}
    /\ disk = [f \in AllFiles |-> 0]
    /\ container = [v \in Containers |-> "absent"]
    /\ socks = {} /\ proxy = "absent" /\ proxyTunnels = {}
    /\ starts = 1 /\ askedUp = {} /\ sawDown = {} /\ restarted = FALSE

---------------------------------------------------------------------------
(* start().                                                                *)

\* generate_docker_compose: last octet of the static address of each
\* container on the houdinny-net bridge.
VpnAddress(v) == 10 + v
ProxyAddress == 20
Addresses == [c \in 0..vpns |-> IF c = 0 THEN ProxyAddress ELSE VpnAddress(c)]

Goto(label) == pc' = label

\* No VPN entries, no token, no docker binary: bail before anything is written.
Check ==
    /\ pc = "check"
    /\ \/ vpns > 0 /\ tokenSet /\ Goto("write")
       \/ Goto("failed")
    /\ UNCHANGED <<config, pollVars, files, world, history>>

\* The files are written one after the other; a write may fail.
FileAfter == IF files = {} THEN "docker-compose.yml"
             ELSE IF files = {"docker-compose.yml"} THEN ".env"
             ELSE "tunnels.docker.toml"

NextWrite(fs) == Goto(IF fs = AllFiles THEN "up" ELSE "write")

\* A mutation: an error of the write is dropped.
WriteErrorIgnored ==
    /\ files' = files \cup {FileAfter}
    /\ NextWrite(files')

WriteError == Goto("failed") /\ UNCHANGED files

\* tokio::fs::write replaces the file of an earlier start(); a write that
\* fails leaves that one or cuts it short.
Write ==
    /\ pc = "write"
    /\ \/ /\ files' = files \cup {FileAfter}
          /\ disk' = [f \in AllFiles |-> IF f = FileAfter THEN vpns ELSE disk[f]]
          /\ NextWrite(files')
       \/ /\ WriteError
          /\ disk' \in {disk, [f \in AllFiles |-> IF f = FileAfter THEN 0 ELSE disk[f]]}
    /\ UNCHANGED <<config, pollVars, container, socks, proxyVars, history>>

Running(v) == container[v] \in {"starting", "connected"}

\* The services and tunnels of the files on disk.
Services == 1..disk["docker-compose.yml"]
FileTunnels == 1..disk["tunnels.docker.toml"]

\* The houdinny process starts anew and reads the mounted file.
ProxyReads == proxy' = "running" /\ proxyTunnels' = FileTunnels

\* docker compose up -d --build.  Docker refuses two containers with one
\* address.  Containers that run with the same settings stay as they are, the
\* houdinny one with its old tunnels (the settings do not name them) unless
\* something else about it has changed; those of an earlier start() that the
\* file no longer names stay too.  A failure may leave some of it done.
ComposeUp ==
    /\ pc = "up"
    /\ \E begun \in SUBSET Services :
          /\ container' = [v \in Containers |->
                             IF v \in begun THEN "starting" ELSE container[v]]
          /\ socks' = socks \ begun
          /\ \/ /\ \A c, d \in 0..vpns : c # d => Addresses[c] # Addresses[d]
                /\ \A v \in Services \ begun : Running(v)
                /\ ProxyReads \/ (proxy = "running" /\ UNCHANGED proxyVars)
                /\ Goto(IF noWait THEN "ready" ELSE "inspect")
             \/ /\ ProxyReads \/ UNCHANGED proxyVars
                /\ Goto("failed")
    /\ UNCHANGED <<config, pollVars, files, disk, history>>

---------------------------------------------------------------------------
(* wait_for_healthy: one round looks at every unresolved VPN.              *)

Skip ==
    /\ pc = "inspect" /\ next \in Vpns /\ states[next] \in Resolved
    /\ next' = next + 1
    /\ UNCHANGED <<config, pc, states, elapsed, files, world, history>>

\* docker inspect says the container is not running, or fails to run.
InspectDown ==
    /\ pc = "inspect" /\ next \in Vpns /\ states[next] = "Waiting"
    /\ states' = [states EXCEPT ![next] = "Failed"]
    /\ sawDown' = sawDown \cup {next}
    /\ next' = next + 1
    /\ UNCHANGED <<config, pc, elapsed, files, world, starts, askedUp, restarted>>

InspectRunning ==
    /\ pc = "inspect" /\ next \in Vpns /\ states[next] = "Waiting"
    /\ Running(next)
    /\ Goto("status")
    /\ UNCHANGED <<config, pollVars, files, world, history>>

\* A mutation: a VPN that is not connected yet counts as failed.
GivenUp == "Failed"

\* nordvpn status: not connected (or the command failed) leaves it Waiting.
NotConnectedYet == "Waiting"

\* Asking for the status, whatever comes back.
Asked ==
    askedUp' = IF container[next] = "connected" THEN askedUp \cup {next}
               ELSE askedUp \ {next}

StatusWaiting ==
    /\ pc = "status"
    /\ Asked
    /\ states' = [states EXCEPT ![next] = NotConnectedYet]
    /\ next' = next + 1
    /\ Goto("inspect")
    /\ UNCHANGED <<config, elapsed, files, world, starts, sawDown, restarted>>

StatusConnected ==
    /\ pc = "status" /\ container[next] = "connected"
    /\ Asked
    /\ Goto("prepare")
    /\ UNCHANGED <<config, pollVars, files, world, starts, sawDown, restarted>>

\* Whitelisting and starting microsocks; whether they succeed is not looked at.
Prepare ==
    /\ pc = "prepare"
    /\ \/ Running(next) /\ socks' = socks \cup {next}
       \/ UNCHANGED socks
    /\ states' = [states EXCEPT ![next] = "Connected"]
    /\ next' = next + 1
    /\ Goto("inspect")
    /\ UNCHANGED <<config, elapsed, files, disk, container, proxyVars, history>>

RoundOver == pc = "inspect" /\ next > vpns

Connected == {v \in Vpns : states[v] = "Connected"}
AllResolved == \A v \in Vpns : states[v] \in Resolved

\* A mutation: only resolved VPNs end the wait.
TimeNeverUp == FALSE

TimeUp == elapsed > Timeout

\* A mutation: start() proceeds with no connected VPN.
AlwaysUsable == TRUE

\* connected_count != 0.
Usable == Connected # {}

\* docker restart houdinny, whose result is not looked at: it fails when there
\* is no such container, and may fail otherwise, with the process as it was or
\* ended.
Restart ==
    \/ proxy # "absent" /\ ProxyReads /\ restarted' = TRUE
    \/ proxy # "absent" /\ proxy' = "exited" /\ proxyTunnels' = {} /\ UNCHANGED restarted
    \/ UNCHANGED <<proxyVars, restarted>>

\* The end of the wait: VPNs still waiting have timed out; without any
\* connected one start() bails, otherwise it restarts the proxy container and
\* prints the banner.
Proceed ==
    /\ RoundOver
    /\ AllResolved \/ TimeUp
    /\ states' = [v \in Vpns |->
                    IF states[v] = "Waiting" THEN "Failed" ELSE states[v]]
    /\ \/ Usable /\ Restart /\ Goto("ready")
       \/ ~Usable /\ UNCHANGED <<proxyVars, restarted>> /\ Goto("failed")
    /\ UNCHANGED <<config, next, elapsed, files, disk, container, socks,
                   starts, askedUp, sawDown>>

\* All times beyond the timeout are alike.
AtMost(n, m) == IF n <= m THEN n ELSE m

Sleep ==
    /\ RoundOver
    /\ ~(AllResolved \/ TimeUp)
    /\ \E d \in 1..MaxDelay : elapsed' = AtMost(elapsed + d, Timeout + 1)
    /\ next' = 1
    /\ UNCHANGED <<config, pc, states, files, world, history>>

StartStep ==
    \/ Check \/ Write \/ ComposeUp
    \/ Skip \/ InspectDown \/ InspectRunning
    \/ StatusWaiting \/ StatusConnected \/ Prepare
    \/ Proceed \/ Sleep

---------------------------------------------------------------------------
(* The containers.                                                         *)

VpnConnects(v) ==
    /\ container[v] = "starting"
    /\ container' = [container EXCEPT ![v] = "connected"]
    /\ UNCHANGED <<socks, proxyVars>>

VpnDrops(v) ==
    /\ container[v] = "connected"
    /\ container' = [container EXCEPT ![v] = "starting"]
    /\ UNCHANGED <<socks, proxyVars>>

ContainerExits(v) ==
    /\ Running(v)
    /\ container' = [container EXCEPT ![v] = "exited"]
    /\ UNCHANGED <<socks, proxyVars>>

ProxyExits ==
    /\ proxy = "running"
    /\ proxy' = "exited" /\ proxyTunnels' = {}
    /\ UNCHANGED <<container, socks>>

ContainerStep ==
    /\ \/ \E v \in Containers : VpnConnects(v) \/ VpnDrops(v) \/ ContainerExits(v)
       \/ ProxyExits
    /\ UNCHANGED <<config, pc, pollVars, files, disk, history>>

---------------------------------------------------------------------------
(* The user.                                                               *)

\* stop(): docker compose down of whatever compose file is on disk, which may
\* fail after some of it.
Stop ==
    /\ Services # {}
    /\ \E gone \in SUBSET Services :
          /\ container' = [v \in Containers |->
                             IF v \in gone THEN "absent" ELSE container[v]]
          /\ socks' = socks \ gone
    /\ \/ UNCHANGED proxyVars
       \/ proxy' = "absent" /\ proxyTunnels' = {}
    /\ UNCHANGED <<config, pc, pollVars, files, disk, history>>

\* start() once more, with the same or another number of VPNs.
StartAgain ==
    /\ pc \in Over /\ starts < MaxStarts
    /\ starts' = starts + 1
    /\ vpns' \in MinVpns..MaxVpns /\ tokenSet' \in BOOLEAN /\ noWait' \in BOOLEAN
    /\ pc' = "check" /\ next' = 1 /\ elapsed' = 0
    /\ states' = [v \in 1..vpns' |-> "Waiting"]
    /\ files' = {} /\ askedUp' = {} /\ sawDown' = {} /\ restarted' = FALSE
    /\ UNCHANGED world

Next == StartStep \/ ContainerStep \/ Stop \/ StartAgain

Spec == Init /\ [][Next]_vars

\* Every docker command returns and every sleep ends.
FairSpec == Spec /\ WF_vars(StartStep)

---------------------------------------------------------------------------
(* Properties.                                                             *)

\* A start() that waited reports success only when some VPN was really
\* connected at the moment it was asked for its status, although VPNs drop, and
\* stop() runs, between any two docker commands; and if its restart of the
\* proxy succeeded, the proxy has that VPN among its tunnels for as long as it
\* runs, whatever list an earlier start() had left it with.  (A restart that
\* fails is not noticed: then the old list may stay.)
ReadyHasTunnel ==
    pc = "ready" /\ ~noWait =>
        /\ Connected \cap askedUp # {}
        /\ restarted /\ proxy = "running" => Connected \cap askedUp \cap proxyTunnels # {}

\* Compose never runs on a mixture of files: when a start() gets that far, all
\* three are its own, although an earlier one with another number of VPNs left
\* its files and a write may fail half way.
SameGeneration ==
    pc \in {"up", "inspect", "status", "prepare", "ready"} =>
        \A f \in AllFiles : disk[f] = vpns

\* A VPN whose container is never seen down is not given up before the time
\* is up: a status that is not "connected" yet only means another round.
NotGivenUpEarly ==
    \A v \in Vpns : states[v] = "Failed" => v \in sawDown \/ TimeUp

\* start() comes to an end, also when a VPN never connects and never exits.
StartEnds == pc = "check" ~> pc \in Over
===========================================================================
