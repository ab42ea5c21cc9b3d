------------------------------ MODULE Startup ------------------------------
(***************************************************************************)
(* src/main.rs, `houdinny` without a subcommand: from the command line and *)
(* the config files to a serving proxy.  The configuration comes from -t   *)
(* or from a file (src/config/mod.rs), the flags override it, each tunnel  *)
(* entry is built into transports or skipped, and the pool, the router and *)
(* the listener are made of what was built.                                *)
(***************************************************************************)
EXTENDS Naturals, Sequences, FiniteSets, SequencesExt

CONSTANTS
    Features,       \* the cargo features of the build
    Urls,           \* what -t may list: a scheme ("" for none) and the rest
    FileEntries,    \* what a [[tunnel]] table of a file may hold
    MaxEntries      \* bound on the length of either list

ASSUME StartupAssumption ==
    /\ Features \subseteq {"socks5", "wireguard", "tor"}
    /\ \A e \in FileEntries : e.circuits \in Seq(Nat)
    /\ MaxEntries \in Nat

VARIABLES
    \* command line and files
    tunnels,        \* cli.tunnels: <<>> stands for None
    strategyFlag,   \* -s, "" when it is not given
    primary,        \* the file cli.config names
    fallback,       \* tunnels.toml
    \* main()
    phase,
    config,         \* its strategy and its tunnel entries
    next,           \* the entry build_transports looks at
    transports      \* what it has built

env  == <<tunnels, strategyFlag, primary, fallback>>
vars == <<env, phase, config, next, transports>>

Strategies == {"random", "round-robin"}
Configs(E) == [strategy : Strategies, tunnel : SeqOf(E, MaxEntries)]

NoConfig == [strategy |-> "random", tunnel |-> <<>>]

\* An address: host:port, or a URL (scheme http or https) whose part before
\* an @, if there is one, is cred.
Address(scheme, cred, host) == [scheme |-> scheme, cred |-> cred, host |-> host]
HostPort == Address("", "", "host:port")
NoAddress == Address("none", "", "")

\* A file is absent, not a valid configuration, or one.
File(state, c) == [state |-> state, config |-> c]
Absent == File("absent", NoConfig)
Invalid == File("invalid", NoConfig)

Init ==
    /\ tunnels \in SeqOf(Urls, MaxEntries)
    /\ strategyFlag \in {"", "random", "rr", "fastest"}
    \* a file that is not looked at may as well be absent
    /\ IF tunnels = <<>>
       THEN primary \in {Absent, Invalid} \cup
                       {File("valid", c) : c \in Configs(FileEntries)}
       ELSE primary = Absent
    /\ IF tunnels = <<>> /\ primary = Absent
       THEN fallback \in {Absent, Invalid} \cup
                        {File("valid", c) : c \in Configs(FileEntries)}
       ELSE fallback = Absent
    /\ phase = "load" /\ config = NoConfig /\ next = 1 /\ transports = <<>>

---------------------------------------------------------------------------
(* Configuration.                                                          *)

\* parse_tunnel_url: a URL without a scheme is a SOCKS5 address.
Protocol(url) == IF url.scheme = "" THEN "socks5" ELSE url.scheme

CliLabel(i) == <<"cli", i>>

\* Config::from_tunnel_urls: only protocol, label and address are set.
FromUrl(url, i) ==
    [protocol |-> Protocol(url), label |-> CliLabel(i), address |-> url.rest,
     fields |-> {}, circuits |-> <<>>]

FromTunnelUrls(us) ==
    [strategy |-> "random", tunnel |-> [i \in DOMAIN us |-> FromUrl(us[i], i - 1)]]

\* A missing cli.config falls back to tunnels.toml, if that exists.
EffectiveFile == IF primary = Absent THEN fallback ELSE primary

Fail == phase' = "failed" /\ UNCHANGED <<env, config, next, transports>>

LoadUrls ==
    /\ phase = "load" /\ tunnels # <<>>
    /\ config' = FromTunnelUrls(tunnels)
    /\ phase' = "override"
    /\ UNCHANGED <<env, next, transports>>

LoadFile ==
    /\ phase = "load" /\ tunnels = <<>>
    /\ EffectiveFile.state = "valid"
    /\ config' = EffectiveFile.config
    /\ phase' = "override"
    /\ UNCHANGED <<env, next, transports>>

LoadFails ==
    /\ phase = "load" /\ tunnels = <<>>
    /\ EffectiveFile.state # "valid"
    /\ Fail

\* clap's default for -s, and Strategy::from_name on the flag's value.
FlagValue == IF strategyFlag = "" THEN "random" ELSE strategyFlag

Named == {<<"random", "random">>, <<"round-robin", "round-robin">>,
          <<"roundrobin", "round-robin">>, <<"rr", "round-robin">>}

Override ==
    /\ phase = "override"
    /\ \E s \in Strategies :
          /\ <<FlagValue, s>> \in Named
          /\ config' = [config EXCEPT !.strategy = s]
    /\ phase' = "build"
    /\ UNCHANGED <<env, next, transports>>

BadStrategy ==
    /\ phase = "override"
    /\ \A s \in Strategies : <<FlagValue, s>> \notin Named
    /\ Fail

---------------------------------------------------------------------------
(* build_transports: one iteration of the loop per entry.                  *)

Entry == config.tunnel[next]

\* The label of an entry without one.
Label(e) == IF e.label = <<>> THEN <<"(unlabelled)">> ELSE e.label

\* tunnel.circuits.unwrap_or(3).
Circuits(e) == IF e.circuits = <<>> THEN 3 ELSE e.circuits[1]

Supported(e) ==
    \/ e.protocol \in Features
    \/ e.protocol \in {"http-proxy", "sentinel"}

\* HttpProxyTransport::from_url.
UrlParses(a) == a.host # "" /\ a.cred \in {"", "user:pass"}

\* The fields without which the entry is skipped.  An http-proxy address that
\* is a URL must also parse.
HasFields(e) ==
    CASE e.protocol = "socks5"     -> e.address # NoAddress
      [] e.protocol = "http-proxy" ->
            /\ e.address # NoAddress
            /\ e.address.scheme \in {"http", "https"} => UrlParses(e.address)
      [] e.protocol = "wireguard"  -> "interface" \in e.fields
      [] e.protocol = "sentinel"   -> {"node", "deposit", "wallet_key"} \subseteq e.fields
      [] OTHER                     -> TRUE

\* The constructors: wireguard and sentinel start unhealthy.
HealthyAtBirth(protocol) == protocol \in {"socks5", "http-proxy", "tor"}

Transport(e, c) ==
    [protocol |-> e.protocol, label |-> Label(e), circuit |-> c, from |-> next,
     healthy |-> HealthyAtBirth(e.protocol)]

\* tor: one transport per circuit, numbered from 0; otherwise a single one.
Built(e) ==
    IF e.protocol = "tor"
    THEN [c \in 1..Circuits(e) |-> Transport(e, c - 1)]
    ELSE <<Transport(e, 0)>>

InLoop == phase = "build" /\ next <= Len(config.tunnel)

BuildEntry ==
    /\ InLoop
    /\ Supported(Entry) /\ HasFields(Entry)
    /\ transports' = transports \o Built(Entry)
    /\ next' = next + 1
    /\ UNCHANGED <<env, phase, config>>

\* A mutation: a bad entry ends the loop.
AfterLast == Len(config.tunnel) + 1

AfterSkip == next + 1

\* Unknown protocol, missing feature, missing field, bad URL; the Tor client
\* may also fail to be created.
SkipEntry ==
    /\ InLoop
    /\ ~(Supported(Entry) /\ HasFields(Entry)) \/ Entry.protocol = "tor"
    /\ next' = AfterSkip
    /\ UNCHANGED <<env, phase, config, transports>>

---------------------------------------------------------------------------
(* Serving.                                                                *)

LoopOver == phase = "build" /\ next > Len(config.tunnel)

NoneUsable == transports = <<>>

BailEmpty == LoopOver /\ NoneUsable /\ Fail

\* Pool::new, build_router, listen address parsed, listener bound.
Listen ==
    /\ LoopOver /\ ~NoneUsable
    /\ phase' = "serving"
    /\ UNCHANGED <<env, config, next, transports>>

\* The listen address does not parse or cannot be bound.
ListenFails == LoopOver /\ ~NoneUsable /\ Fail

\* An error of accept() ends the server, and with it the process.
AcceptFails == phase = "serving" /\ Fail

CtrlC ==
    /\ phase = "serving"
    /\ phase' = "stopped"
    /\ UNCHANGED <<env, config, next, transports>>

Next ==
    \/ LoadUrls \/ LoadFile \/ LoadFails
    \/ Override \/ BadStrategy
    \/ BuildEntry \/ SkipEntry
    \/ BailEmpty \/ Listen \/ ListenFails
    \/ AcceptFails \/ CtrlC

Spec == Init /\ [][Next]_vars

---------------------------------------------------------------------------
(* Properties.                                                             *)

Serving == phase = "serving"
From(i) == {k \in DOMAIN transports : transports[k].from = i}
IsUsable(e) == Supported(e) /\ HasFields(e)

\* The loop over the entries stays in bounds, and each transport comes from
\* an entry the loop is done with.
TypeOK ==
    /\ phase \in {"import", "load", "override", "build", "serving", "stopped", "failed"}
    /\ config.strategy \in Strategies
    /\ next \in 1..(Len(config.tunnel) + 1)
    /\ \A k \in DOMAIN transports : transports[k].from \in 1..(next - 1)

\* An entry that is skipped costs only itself: every usable entry that does
\* not depend on the Tor client has its transport when the proxy serves, and
\* one that can be picked if it is a proxy (a wireguard or sentinel transport
\* starts unhealthy, and nothing provisions it).
EveryUsableServed ==
    Serving => \A i \in DOMAIN config.tunnel :
        LET e == config.tunnel[i]
        IN  IsUsable(e) /\ e.protocol # "tor" =>
              \E k \in From(i) :
                 e.protocol \in {"socks5", "http-proxy"} => transports[k].healthy
===========================================================================
