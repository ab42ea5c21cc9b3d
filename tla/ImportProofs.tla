--------------------------- MODULE ImportProofs ---------------------------
(***************************************************************************)
(* Startup and the imports, for every command line, every file and every   *)
(* answer of the recommendations API: what an import leaves in a file,     *)
(* and that the next start serves it.                                      *)
(***************************************************************************)
EXTENDS Import, TLAPS

---------------------------------------------------------------------------
(* The inductive invariant.                                                *)

IsFile(f) == f = File(f.state, f.config) /\ Parsed(f.config)
IsSeq(q)  == q \in Seq(Range(q))
IsTables(ts) == IsSeq(ts) /\ \A i \in DOMAIN ts : ts[i].circuits \in Seq(Nat)

Phases == {"import", "load", "override", "build", "serving", "stopped", "failed"}
Stages == {"none", "credentials", "servers", "ports", "write"}

Types ==
    /\ tunnels \in Seq(Urls)
    /\ IsFile(primary) /\ IsFile(fallback) /\ Parsed(config)
    /\ next \in Nat /\ next >= 1 /\ next <= Len(config.tunnel) + 1
    /\ IsSeq(transports)
    /\ at \in Nat /\ at >= 1 /\ fetched \in Seq(NordServers)
    /\ DOMAIN written = Outputs
    /\ phase \in Phases /\ stage \in Stages

\* An import runs before the proxy does, with a command of its provider, and
\* has something to write when it comes to that.
Working ==
    /\ stage # "none" => phase = "import"
    /\ stage = "none" => Idle
    /\ stage \in {"credentials", "servers"} =>
          command \in {Nord(c, o) : c \in NordCommands, o \in Outputs}
    /\ stage = "ports" => command \in {Ssh(c, o) : c \in SshCommands, o \in Outputs}
    /\ stage \in {"credentials", "ports"} => fetched = <<>>
    /\ stage = "credentials" => at = 1
    /\ stage = "write" =>
          \/ /\ command \in {Nord(c, o) : c \in NordCommands, o \in Outputs}
             /\ Truncated # <<>>
          \/ /\ command \in {Ssh(c, o) : c \in SshCommands, o \in Outputs}
             /\ command.ports # <<>>

\* What the requests so far may have brought.
Shared ==
    command.provider = "nord" =>
        IF Codes = <<>>
        THEN /\ at = 1 => fetched = <<>>
             /\ Len(fetched) <= command.count
        ELSE /\ at <= Len(Codes) + 1
             /\ Len(fetched) <= (at - 1) * PerCountry(command.count, Len(Codes))

\* The ports the loop over the ports is done with.
Started ==
    /\ launched \subseteq reported
    /\ command.provider = "ssh" /\ command.start =>
          \A j \in DOMAIN command.ports :
              j < at \/ stage = "write" => <<imports, j>> \in reported

\* The entry e has a transport of its own.
Served(i, e) ==
    \E k \in From(i) :
        /\ e.protocol \in {"socks5", "http-proxy"} => transports[k].healthy
        /\ transports[k].label = Label(e)

Loop ==
    /\ phase \in {"import", "load", "override"} => next = 1 /\ transports = <<>>
    /\ phase = "serving" => next > Len(config.tunnel)
    /\ \A k \in DOMAIN transports : transports[k].from \in 1..(next - 1)
    /\ \A i \in DOMAIN config.tunnel :
          i < next /\ IsUsable(config.tunnel[i]) /\ config.tunnel[i].protocol # "tor" =>
              Served(i, config.tunnel[i])

\* A file that is still valid holds what was written to it, where it was
\* written, and the socks5 entries among that can be built.
Holds(f, W) ==
    f # Invalid => \A w \in W : /\ w.place \in DOMAIN f.config.tunnel
                               /\ f.config.tunnel[w.place] = w.entry

IsBuildable(e) == e.protocol = "socks5" => e.address = HostPort /\ e.label # <<>>
Buildable(W)   == \A w \in W : IsBuildable(w.entry)

Kept == \A o \in Outputs : Holds(FileOf(o), written[o]) /\ Buildable(written[o])

\* main() works on what the file held when it was read.
Loaded ==
    phase \in {"override", "build", "serving"} /\ tunnels = <<>> =>
        EffectiveFile.state = "valid" /\ config.tunnel = EffectiveFile.config.tunnel

ImportInv == Types /\ Working /\ Shared /\ Started /\ Loop /\ Kept /\ Loaded

---------------------------------------------------------------------------
(* Types of what the actions put together.                                 *)

\* Sequences, whatever they are of.
LEMMA SeqFacts ==
    ASSUME NEW q, IsSeq(q)
    PROVE  Len(q) \in Nat /\ DOMAIN q = 1..Len(q) /\ \A i \in 1..Len(q) : q[i] \in Range(q)
BY DEF IsSeq, Range

LEMMA SeqIsSeq ==
    ASSUME NEW S, NEW q \in Seq(S)
    PROVE  IsSeq(q)
<1>1. Len(q) \in Nat /\ q \in [1..Len(q) -> S] /\ DOMAIN q = 1..Len(q)
  OBVIOUS
<1>2. q \in [1..Len(q) -> Range(q)]
  BY <1>1 DEF Range
<1> QED
  BY <1>1, <1>2 DEF IsSeq

\* A function on an initial segment is a sequence.
LEMMA Segment ==
    ASSUME NEW n \in Nat, NEW f, f = [i \in 1..n |-> f[i]]
    PROVE  IsSeq(f) /\ Len(f) = n /\ DOMAIN f = 1..n
<1>1. DOMAIN f = 1..n /\ f \in [1..n -> Range(f)]
  BY DEF Range
<1> QED
  BY <1>1 DEF IsSeq

LEMMA ConcatSeq ==
    ASSUME NEW q, NEW r, IsSeq(q), IsSeq(r)
    PROVE  /\ IsSeq(q \o r) /\ Len(q \o r) = Len(q) + Len(r)
           /\ \A i \in 1..Len(q) : (q \o r)[i] = q[i]
           /\ \A i \in 1..Len(r) : (q \o r)[Len(q) + i] = r[i]
           /\ \A i \in 1..Len(q \o r) : \/ i \in 1..Len(q) /\ (q \o r)[i] = q[i]
                                        \/ /\ i - Len(q) \in 1..Len(r)
                                           /\ (q \o r)[i] = r[i - Len(q)]
<1> DEFINE S == Range(q) \cup Range(r)
<1>1. Len(q) \in Nat /\ Len(r) \in Nat
  BY SeqFacts
<1>2. q \in Seq(S) /\ r \in Seq(S)
  BY SeqFacts DEF IsSeq
<1> HIDE DEF S
<1>3. q \o r \in Seq(S) /\ Len(q \o r) = Len(q) + Len(r)
  BY <1>2
<1>4. \A i \in 1..Len(q) : (q \o r)[i] = q[i]
  BY <1>2
<1>5. \A i \in 1..Len(r) : (q \o r)[Len(q) + i] = r[i]
  BY <1>1, <1>2
<1>6. IsSeq(q \o r)
  BY <1>3, SeqIsSeq
<1>7. \A i \in 1..(Len(q) + Len(r)) : \/ i \in 1..Len(q)
                                      \/ /\ i - Len(q) \in 1..Len(r)
                                         /\ i = Len(q) + (i - Len(q))
  BY <1>1
<1>8. ASSUME NEW i \in 1..(Len(q) + Len(r)), i - Len(q) \in 1..Len(r)
      PROVE  (q \o r)[i] = r[i - Len(q)]
  <2>1. PICK m \in 1..Len(r) : m = i - Len(q)
    BY <1>8
  <2>2. i = Len(q) + m
    BY <1>1, <2>1
  <2> QED
    BY <1>5, <2>1, <2>2
<1> QED
  BY <1>3, <1>4, <1>5, <1>6, <1>7, <1>8

LEMMA Bounded ==
    ASSUME NEW S, NEW n \in Nat, NEW q \in SeqOf(S, n)
    PROVE  q \in Seq(S) /\ Len(q) \in Nat /\ Len(q) <= n
<1>1. PICK m \in 0..n : q \in [1..m -> S]
  BY DEF SeqOf
<1> QED
  BY <1>1

\* Tables, configurations and files.
LEMMA ConcatTables ==
    ASSUME NEW q, NEW r, IsTables(q), IsTables(r)
    PROVE  IsTables(q \o r)
<1>1. IsSeq(q) /\ IsSeq(r)
  BY DEF IsTables
<1>2. IsSeq(q \o r) /\ DOMAIN (q \o r) = 1..Len(q \o r)
  BY <1>1, ConcatSeq, SeqFacts
<1>3. ASSUME NEW i \in 1..Len(q \o r) PROVE (q \o r)[i].circuits \in Seq(Nat)
  <2>1. \/ i \in 1..Len(q) /\ (q \o r)[i] = q[i]
        \/ i - Len(q) \in 1..Len(r) /\ (q \o r)[i] = r[i - Len(q)]
    BY <1>1, ConcatSeq
  <2>2. DOMAIN q = 1..Len(q) /\ DOMAIN r = 1..Len(r)
    BY <1>1, SeqFacts
  <2> QED
    BY <2>1, <2>2 DEF IsTables
<1> QED
  BY <1>2, <1>3 DEF IsTables

LEMMA Configurations ==
    /\ Parsed(NoConfig) /\ NoConfig.tunnel = <<>>
    /\ \A c : Parsed(c) => /\ IsTables(c.tunnel) /\ Len(c.tunnel) \in Nat
                           /\ DOMAIN c.tunnel = 1..Len(c.tunnel)
    /\ \A s, ts : s \in Strategies /\ IsTables(ts) =>
          Parsed([strategy |-> s, tunnel |-> ts])
<1>1. NoConfig.tunnel = <<>> /\ NoConfig.strategy = "random"
      /\ NoConfig = [strategy |-> NoConfig.strategy, tunnel |-> NoConfig.tunnel]
  BY DEF NoConfig
<1>2. <<>> \in Seq(Range(<<>>)) /\ DOMAIN <<>> = {}
  OBVIOUS
<1>3. Parsed(NoConfig)
  BY <1>1, <1>2 DEF Parsed, Strategies
<1>4. ASSUME NEW c, Parsed(c)
      PROVE  /\ IsTables(c.tunnel) /\ Len(c.tunnel) \in Nat
             /\ DOMAIN c.tunnel = 1..Len(c.tunnel)
  <2>1. IsTables(c.tunnel)
    BY <1>4 DEF Parsed, IsTables, IsSeq
  <2> QED
    BY <2>1, SeqFacts DEF IsTables
<1>5. ASSUME NEW s, NEW ts, s \in Strategies, IsTables(ts)
      PROVE  Parsed([strategy |-> s, tunnel |-> ts])
  BY <1>5 DEF Parsed, IsTables, IsSeq
<1> QED
  BY <1>1, <1>3, <1>4, <1>5

LEMMA Files ==
    /\ IsFile(Absent) /\ IsFile(Invalid) /\ Absent # Invalid
    /\ Absent.state = "absent" /\ Invalid.state = "invalid"
    /\ Absent.config = NoConfig
    /\ \A st, c : File(st, c).state = st /\ File(st, c).config = c
    /\ \A st, c : Parsed(c) => IsFile(File(st, c))
    /\ \A f : IsFile(f) => Parsed(f.config)
<1>1. \A st, c : File(st, c).state = st /\ File(st, c).config = c
  BY DEF File
<1>2. \A st, c : Parsed(c) => IsFile(File(st, c))
  BY <1>1 DEF IsFile
<1>3. /\ Absent.state = "absent" /\ Invalid.state = "invalid"
      /\ Absent.config = NoConfig
  BY <1>1 DEF Absent, Invalid
<1>4. Absent # Invalid
  BY <1>3
<1>5. IsFile(Absent) /\ IsFile(Invalid)
  BY <1>2, Configurations DEF Absent, Invalid
<1> QED
  BY <1>1, <1>2, <1>3, <1>4, <1>5 DEF IsFile

LEMMA UrlConfig ==
    ASSUME NEW us \in Seq(Urls)
    PROVE  Parsed(FromTunnelUrls(us))
<1> DEFINE ts == [i \in DOMAIN us |-> FromUrl(us[i], i - 1)]
<1>1. Len(us) \in Nat /\ DOMAIN us = 1..Len(us)
  OBVIOUS
<1>2. ts = [i \in 1..Len(us) |-> ts[i]] /\ DOMAIN ts = 1..Len(us)
  BY <1>1
<1>3. \A i \in DOMAIN ts : ts[i].circuits = <<>>
  BY DEF FromUrl
<1>4. FromTunnelUrls(us) = [strategy |-> "random", tunnel |-> ts] /\ "random" \in Strategies
  BY DEF FromTunnelUrls, Strategies
<1> HIDE DEF ts
<1>5. IsSeq(ts)
  BY <1>1, <1>2, Segment
<1>6. IsTables(ts)
  <2>1. <<>> \in Seq(Nat)
    OBVIOUS
  <2> QED
    BY <1>3, <1>5, <2>1 DEF IsTables
<1> QED
  BY <1>4, <1>6, Configurations

\* What one iteration of build_transports builds.
LEMMA BuiltFacts ==
    ASSUME NEW e, e.circuits \in Seq(Nat)
    PROVE  /\ IsSeq(Built(e))
           /\ \A k \in 1..Len(Built(e)) : Built(e)[k].from = next
           /\ e.protocol # "tor" =>
                 /\ Len(Built(e)) = 1
                 /\ Built(e)[1].label = Label(e)
                 /\ e.protocol \in {"socks5", "http-proxy"} => Built(e)[1].healthy
<1>1. Circuits(e) \in Nat
  BY DEF Circuits
<1>2. \A c : /\ Transport(e, c).from = next /\ Transport(e, c).label = Label(e)
             /\ Transport(e, c).healthy = HealthyAtBirth(e.protocol)
  BY DEF Transport
<1>3. CASE e.protocol = "tor"
  <2>1. Built(e) = [c \in 1..Circuits(e) |-> Transport(e, c - 1)]
    BY <1>3 DEF Built
  <2>2. Built(e) = [c \in 1..Circuits(e) |-> Built(e)[c]]
    BY <2>1
  <2>3. IsSeq(Built(e)) /\ Len(Built(e)) = Circuits(e)
    BY <1>1, <2>2, Segment
  <2>4. \A k \in 1..Len(Built(e)) : Built(e)[k].from = next
    BY <1>1, <1>2, <2>1, <2>3
  <2> QED
    BY <1>3, <2>3, <2>4
<1>4. CASE e.protocol # "tor"
  <2>1. Built(e) = <<Transport(e, 0)>>
    BY <1>4 DEF Built
  <2>2. Built(e) \in Seq({Transport(e, 0)}) /\ Len(Built(e)) = 1
        /\ Built(e)[1] = Transport(e, 0)
    BY <2>1
  <2>3. IsSeq(Built(e))
    BY <2>2, SeqIsSeq
  <2>4. e.protocol \in {"socks5", "http-proxy"} => Built(e)[1].healthy
    <3>1. e.protocol \in {"socks5", "http-proxy"} => HealthyAtBirth(e.protocol)
      BY DEF HealthyAtBirth
    <3>2. Transport(e, 0).healthy = HealthyAtBirth(e.protocol)
      BY <1>2
    <3> QED
      BY <2>2, <3>1, <3>2, Zenon
  <2>5. Built(e)[1].label = Label(e) /\ Built(e)[1].from = next
    BY <1>2, <2>2
  <2> QED
    BY <2>2, <2>3, <2>4, <2>5
<1> QED
  BY <1>3, <1>4

---------------------------------------------------------------------------
(* The first state.                                                        *)

LEMMA InitInv == ImportInit => ImportInv
<1> SUFFICES ASSUME ImportInit PROVE ImportInv
  OBVIOUS
<1>1. /\ Idle /\ launched = {} /\ written = [o \in Outputs |-> {}]
      /\ config = NoConfig /\ next = 1 /\ transports = <<>>
      /\ phase \in {"load", "import"}
  BY DEF ImportInit, Init
<1>2. tunnels \in Seq(Urls)
  <2>1. CASE Init
    <3>1. tunnels \in SeqOf(Urls, MaxEntries)
      BY <2>1 DEF Init
    <3> QED
      BY <3>1, Bounded, StartupAssumption
  <2>2. CASE tunnels = <<>>
    BY <2>2
  <2> QED
    BY <2>1, <2>2 DEF ImportInit
<1>3. ASSUME NEW f \in {Absent, Invalid} \cup {File("valid", c) : c \in Configs(FileEntries)}
      PROVE  IsFile(f)
  <2>1. ASSUME NEW c \in Configs(FileEntries) PROVE Parsed(c)
    <3>1. c.tunnel \in SeqOf(FileEntries, MaxEntries) /\ c.strategy \in Strategies
          /\ c = [strategy |-> c.strategy, tunnel |-> c.tunnel]
      BY DEF Configs
    <3>2. c.tunnel \in Seq(FileEntries)
      BY <3>1, Bounded, StartupAssumption
    <3>3. IsSeq(c.tunnel) /\ \A i \in DOMAIN c.tunnel : c.tunnel[i] \in FileEntries
      BY <3>2, SeqIsSeq
    <3> QED
      BY <3>1, <3>3, StartupAssumption DEF Parsed, IsSeq
  <2> QED
    BY <1>3, <2>1, Files
<1>4. ASSUME NEW f \in OldFiles PROVE IsFile(f)
  BY <1>4, ImportAssumption, Files
<1>5. IsFile(primary) /\ IsFile(fallback)
  BY <1>3, <1>4, Files DEF ImportInit, Init
<1>6. Types
  <2>1. <<>> \in Seq({}) /\ <<>> \in Seq(NordServers) /\ DOMAIN <<>> = {}
    OBVIOUS
  <2>2. IsSeq(<<>>)
    BY <2>1, SeqIsSeq
  <2>4. DOMAIN written = Outputs
    BY <1>1
  <2>5. next \in Nat /\ next >= 1 /\ next <= Len(config.tunnel) + 1
    BY <1>1, Configurations
  <2>6. at \in Nat /\ at >= 1 /\ fetched \in Seq(NordServers) /\ stage \in Stages
    BY <1>1, <2>1 DEF Idle, Stages
  <2>7. Parsed(config) /\ IsSeq(transports) /\ phase \in Phases
    BY <1>1, <2>2, Configurations DEF Phases
  <2> QED
    BY <1>2, <1>5, <2>4, <2>5, <2>6, <2>7 DEF Types
<1>7. Working
  BY <1>1 DEF Working, Idle
<1>8. Shared /\ Started
  BY <1>1 DEF Shared, Started, Idle, NoCommand
<1>9. Loop
  BY <1>1, Configurations DEF Loop
<1>10. Kept
  BY <1>1 DEF Kept, Holds, Buildable
<1>11. Loaded
  BY <1>1 DEF Loaded
<1> QED
  BY <1>6, <1>7, <1>8, <1>9, <1>10, <1>11 DEF ImportInv

---------------------------------------------------------------------------
(* What depends on what.                                                   *)

LEMMA SameCommand ==
    ASSUME Shared, Started, UNCHANGED <<command, stage, at, fetched, imports, reported, launched>>
    PROVE  Shared' /\ Started'
<1>1. Codes' = Codes
  BY DEF Codes
<1> QED
  BY <1>1 DEF Shared, Started

LEMMA SameFiles ==
    ASSUME Kept, UNCHANGED <<primary, fallback, written>>
    PROVE  Kept'
<1>1. \A o \in Outputs : FileOf(o)' = FileOf(o)
  BY DEF FileOf
<1>2. \A o \in Outputs : written'[o] = written[o]
  OBVIOUS
<1>3. ASSUME NEW o \in Outputs PROVE Holds(FileOf(o)', written'[o]) /\ Buildable(written'[o])
  BY <1>1, <1>2 DEF Kept
<1> QED
  BY <1>3 DEF Kept

LEMMA SameLoop ==
    ASSUME Loop, config'.tunnel = config.tunnel, UNCHANGED <<next, transports>>,
           phase' \in {"import", "load", "override"} =>
              phase \in {"import", "load", "override"},
           phase' = "serving" => next > Len(config.tunnel)
    PROVE  Loop'
<1>1. \A i : From(i)' = From(i)
  BY DEF From
<1>2. \A i, e : Served(i, e)' <=> Served(i, e)
  BY <1>1 DEF Served, Label
<1>3. \A e : IsUsable(e)' <=> IsUsable(e)
  BY DEF IsUsable
<1> QED
  BY <1>1, <1>2, <1>3 DEF Loop

---------------------------------------------------------------------------
(* The proxy's start.                                                      *)

LEMMA ProxyTypes ==
    ASSUME Types, UNCHANGED <<env, importVars>>, phase' \in Phases,
           Parsed(config'), IsSeq(transports'),
           next' \in Nat, next' >= 1, next' <= Len(config'.tunnel) + 1
    PROVE  Types'
BY DEF Types, env, importVars

LEMMA FailInv ==
    ASSUME Types, Loop, Fail, UNCHANGED importVars
    PROVE  Types' /\ Loop' /\ Loaded'
<1>1. phase' = "failed" /\ UNCHANGED <<env, config, next, transports>>
  BY DEF Fail
<1>2. Loop'
  BY <1>1, SameLoop
<1>3. Loaded'
  BY <1>1 DEF Loaded
<1>4. Types'
  BY <1>1 DEF Types, env, importVars, Phases
<1> QED
  BY <1>2, <1>3, <1>4

\* A configuration is read.
LEMMA LoadInv ==
    ASSUME Types, Loop, LoadUrls \/ LoadFile, UNCHANGED importVars
    PROVE  Types' /\ Loop' /\ Loaded'
<1>1. /\ phase = "load" /\ phase' = "override" /\ UNCHANGED <<env, next, transports>>
      /\ next = 1 /\ transports = <<>>
  BY DEF LoadUrls, LoadFile, Loop
<1>2. Parsed(config') /\ (tunnels = <<>> => EffectiveFile.state = "valid"
                                            /\ config' = EffectiveFile.config)
  <2>1. CASE LoadUrls
    BY <2>1, UrlConfig DEF LoadUrls, Types
  <2>2. CASE LoadFile
    <3>1. IsFile(EffectiveFile)
      BY DEF EffectiveFile, Types
    <3> QED
      BY <2>2, <3>1, Files DEF LoadFile
  <2> QED
    BY <2>1, <2>2
<1>3. Len(config'.tunnel) \in Nat /\ DOMAIN config'.tunnel = 1..Len(config'.tunnel)
  BY <1>2, Configurations
<1>4. Types'
  BY <1>1, <1>2, <1>3, ProxyTypes DEF Types, Phases
<1>5. Loop'
  BY <1>1, <1>3 DEF Loop
<1>6. Loaded'
  BY <1>1, <1>2 DEF Loaded, EffectiveFile, env
<1> QED
  BY <1>4, <1>5, <1>6

LEMMA OverrideInv ==
    ASSUME Types, Loop, Loaded, Override, UNCHANGED importVars
    PROVE  Types' /\ Loop' /\ Loaded'
<1>1. PICK t \in Strategies : config' = [config EXCEPT !.strategy = t]
  BY DEF Override
<1>2. phase = "override" /\ phase' = "build" /\ UNCHANGED <<env, next, transports>>
  BY DEF Override
<1>3. config = [strategy |-> config.strategy, tunnel |-> config.tunnel] /\ IsTables(config.tunnel)
  BY Configurations DEF Types, Parsed
<1>4. config' = [strategy |-> t, tunnel |-> config.tunnel]
  BY <1>1, <1>3
<1>5. Parsed(config') /\ config'.tunnel = config.tunnel
  BY <1>3, <1>4, Configurations
<1>6. Types'
  BY <1>2, <1>5, ProxyTypes DEF Types, Phases
<1>7. Loop'
  BY <1>2, <1>5, SameLoop
<1>8. Loaded'
  BY <1>2, <1>5 DEF Loaded, EffectiveFile, env
<1> QED
  BY <1>6, <1>7, <1>8

\* The entry the loop is at.
LEMMA AtEntry ==
    ASSUME Types, InLoop
    PROVE  /\ next \in DOMAIN config.tunnel /\ Entry.circuits \in Seq(Nat)
           /\ Len(config.tunnel) \in Nat /\ DOMAIN config.tunnel = 1..Len(config.tunnel)
           /\ next + 1 <= Len(config.tunnel) + 1 /\ next \in Nat
<1>1. /\ Parsed(config) /\ Len(config.tunnel) \in Nat
      /\ DOMAIN config.tunnel = 1..Len(config.tunnel) /\ next \in Nat /\ next >= 1
  BY Configurations DEF Types
<1>2. next \in DOMAIN config.tunnel /\ next + 1 <= Len(config.tunnel) + 1
  BY <1>1 DEF InLoop
<1> QED
  BY <1>1, <1>2 DEF Parsed, Entry

LEMMA BuildInv ==
    ASSUME Types, Loop, Loaded, BuildEntry, UNCHANGED importVars
    PROVE  Types' /\ Loop' /\ Loaded'
<1>0. /\ next \in DOMAIN config.tunnel /\ Entry.circuits \in Seq(Nat)
      /\ Len(config.tunnel) \in Nat /\ DOMAIN config.tunnel = 1..Len(config.tunnel)
      /\ next + 1 <= Len(config.tunnel) + 1 /\ next \in Nat
  BY AtEntry DEF BuildEntry
<1>1. PICK b : b = Built(Entry)
  OBVIOUS
<1>2. /\ phase = "build" /\ phase' = phase /\ config' = config /\ UNCHANGED env
      /\ transports' = transports \o b /\ next' = next + 1
  BY <1>1 DEF BuildEntry, InLoop
<1>3. /\ IsSeq(b) /\ \A k \in 1..Len(b) : b[k].from = next
      /\ Entry.protocol # "tor" =>
            /\ Len(b) = 1 /\ b[1].label = Label(Entry)
            /\ Entry.protocol \in {"socks5", "http-proxy"} => b[1].healthy
  BY <1>0, <1>1, BuiltFacts
<1>4. IsSeq(transports) /\ Len(transports) \in Nat /\ DOMAIN transports = 1..Len(transports)
      /\ Len(b) \in Nat
  BY <1>3, SeqFacts DEF Types
<1>5. /\ IsSeq(transports') /\ Len(transports') = Len(transports) + Len(b)
      /\ \A i \in 1..Len(transports) : transports'[i] = transports[i]
      /\ \A i \in 1..Len(b) : transports'[Len(transports) + i] = b[i]
      /\ \A i \in 1..Len(transports') :
            \/ i \in 1..Len(transports) /\ transports'[i] = transports[i]
            \/ i - Len(transports) \in 1..Len(b) /\ transports'[i] = b[i - Len(transports)]
  BY <1>2, <1>3, <1>4, ConcatSeq
<1>6. DOMAIN transports' = 1..(Len(transports) + Len(b))
  BY <1>5, SeqFacts
<1>7. Types'
  BY <1>0, <1>2, <1>5, ProxyTypes DEF Types, Phases
<1>8. ASSUME NEW k \in DOMAIN transports' PROVE transports'[k].from \in 1..next
  <2>1. CASE k \in 1..Len(transports) /\ transports'[k] = transports[k]
    <3>1. transports[k].from \in 1..(next - 1)
      BY <1>4, <2>1 DEF Loop
    <3> QED
      BY <1>0, <2>1, <3>1
  <2>2. CASE k - Len(transports) \in 1..Len(b) /\ transports'[k] = b[k - Len(transports)]
    BY <1>0, <1>3, <2>2
  <2> QED
    BY <1>5, <1>6, <2>1, <2>2
<1>9. ASSUME NEW i \in DOMAIN config.tunnel, i < next', IsUsable(config.tunnel[i]),
             config.tunnel[i].protocol # "tor"
      PROVE  Served(i, config.tunnel[i])'
  <2>1. CASE i < next
    <3>1. Served(i, config.tunnel[i])
      BY <1>9, <2>1 DEF Loop
    <3>2. PICK k \in From(i) :
              /\ config.tunnel[i].protocol \in {"socks5", "http-proxy"} => transports[k].healthy
              /\ transports[k].label = Label(config.tunnel[i])
      BY <3>1 DEF Served
    <3>3. k \in 1..Len(transports) /\ transports'[k] = transports[k]
      BY <1>4, <1>5 DEF From
    <3>4. k \in From(i)'
      BY <1>4, <1>6, <3>3 DEF From
    <3> QED
      BY <1>2, <3>2, <3>3, <3>4 DEF Served, Label
  <2>2. CASE i = next
    <3>1. Entry = config.tunnel[i]
      BY <2>2 DEF Entry
    <3>2. PICK k : k = Len(transports) + 1
      OBVIOUS
    <3>3. Len(b) = 1 /\ k \in DOMAIN transports' /\ transports'[k] = b[1]
      BY <1>3, <1>4, <1>5, <1>6, <1>9, <3>1, <3>2
    <3>4. k \in From(i)'
      BY <1>3, <2>2, <3>3 DEF From
    <3> QED
      BY <1>2, <1>3, <1>9, <3>1, <3>3, <3>4 DEF Served, Label
  <2> QED
    BY <1>0, <1>2, <1>9, <2>1, <2>2
<1>10. Loop'
  <2>1. \A e : IsUsable(e)' <=> IsUsable(e)
    BY DEF IsUsable
  <2>2. \A k \in DOMAIN transports' : transports'[k].from \in 1..(next' - 1)
    BY <1>0, <1>2, <1>8
  <2>3. phase' = "build" /\ config' = config
    BY <1>2
  <2> QED
    BY <1>9, <2>1, <2>2, <2>3 DEF Loop
<1>11. Loaded'
  BY <1>2 DEF Loaded, EffectiveFile, env
<1> QED
  BY <1>7, <1>10, <1>11

\* An entry that is skipped is not usable, or needs the Tor client.
LEMMA SkipInv ==
    ASSUME Types, Loop, Loaded, SkipEntry, UNCHANGED importVars
    PROVE  Types' /\ Loop' /\ Loaded'
<1>0. /\ next \in DOMAIN config.tunnel
      /\ Len(config.tunnel) \in Nat /\ DOMAIN config.tunnel = 1..Len(config.tunnel)
      /\ next + 1 <= Len(config.tunnel) + 1 /\ next \in Nat
  BY AtEntry DEF SkipEntry
<1>1. /\ phase = "build" /\ phase' = phase /\ next' = next + 1
      /\ UNCHANGED <<env, config, transports>>
      /\ ~IsUsable(config.tunnel[next]) \/ config.tunnel[next].protocol = "tor"
  BY DEF SkipEntry, InLoop, AfterSkip, IsUsable, Entry
<1>2. Types'
  BY <1>0, <1>1, ProxyTypes DEF Types, Phases
<1>3. Loop'
  <2>1. \A i : From(i)' = From(i)
    BY <1>1 DEF From
  <2>2. \A i, e : Served(i, e)' <=> Served(i, e)
    BY <1>1, <2>1 DEF Served, Label
  <2>3. \A e : IsUsable(e)' <=> IsUsable(e)
    BY DEF IsUsable
  <2>4. \A k \in DOMAIN transports : transports[k].from \in 1..(next' - 1)
    <3>1. \A x \in 1..(next - 1) : x \in 1..(next' - 1)
      BY <1>0, <1>1
    <3> QED
      BY <3>1 DEF Loop
  <2>5. ASSUME NEW i \in DOMAIN config.tunnel, i < next', IsUsable(config.tunnel[i]),
               config.tunnel[i].protocol # "tor"
        PROVE  Served(i, config.tunnel[i])
    <3>1. i < next
      BY <1>0, <1>1, <2>5
    <3> QED
      BY <2>5, <3>1 DEF Loop
  <2> QED
    BY <1>1, <2>2, <2>3, <2>4, <2>5 DEF Loop
<1>4. Loaded'
  BY <1>1 DEF Loaded, EffectiveFile, env
<1> QED
  BY <1>2, <1>3, <1>4

LEMMA ServeInv ==
    ASSUME Types, Loop, Loaded, Listen \/ CtrlC, UNCHANGED importVars
    PROVE  Types' /\ Loop' /\ Loaded'
<1>1. /\ UNCHANGED <<env, config, next, transports>>
      /\ \/ phase = "build" /\ phase' = "serving" /\ next > Len(config.tunnel)
         \/ phase' = "stopped"
  BY DEF Listen, CtrlC, LoopOver
<1>2. Types'
  BY <1>1, ProxyTypes DEF Types, Phases
<1>3. Loop'
  BY <1>1, SameLoop
<1>4. Loaded'
  BY <1>1 DEF Loaded, EffectiveFile, env
<1> QED
  BY <1>2, <1>3, <1>4

LEMMA ProxyInv ==
    ASSUME ImportInv, Next, UNCHANGED importVars
    PROVE  ImportInv'
<1>0. Types /\ Working /\ Shared /\ Started /\ Loop /\ Kept /\ Loaded
  BY DEF ImportInv
<1>1. phase # "import" /\ UNCHANGED env
  BY DEF Next, LoadUrls, LoadFile, LoadFails, Override, BadStrategy, BuildEntry, SkipEntry,
         BailEmpty, Listen, ListenFails, AcceptFails, CtrlC, Fail, InLoop, LoopOver
<1>2. Types' /\ Loop' /\ Loaded'
  <2>1. CASE LoadUrls \/ LoadFile
    BY <1>0, <2>1, LoadInv
  <2>2. CASE Override
    BY <1>0, <2>2, OverrideInv
  <2>3. CASE BuildEntry
    BY <1>0, <2>3, BuildInv
  <2>4. CASE SkipEntry
    BY <1>0, <2>4, SkipInv
  <2>5. CASE Listen \/ CtrlC
    BY <1>0, <2>5, ServeInv
  <2>6. CASE Fail
    BY <1>0, <2>6, FailInv
  <2> QED
    BY <2>1, <2>2, <2>3, <2>4, <2>5, <2>6
    DEF Next, LoadFails, BadStrategy, BailEmpty, ListenFails, AcceptFails
<1>3. Working'
  <2>1. stage = "none" /\ stage' = "none" /\ Idle'
    BY <1>0, <1>1 DEF Working, Idle, importVars
  <2> QED
    BY <2>1 DEF Working
<1>4. Shared' /\ Started'
  BY <1>0, SameCommand DEF importVars
<1>5. Kept'
  BY <1>0, <1>1, SameFiles DEF env, importVars
<1> QED
  BY <1>2, <1>3, <1>4, <1>5 DEF ImportInv

---------------------------------------------------------------------------
(* Commands, shares and blocks.                                            *)

NordRuns == {Nord(c, o) : c \in NordCommands, o \in Outputs}
SshRuns  == {Ssh(c, o) : c \in SshCommands, o \in Outputs}

LEMMA NordFacts ==
    ASSUME NEW r \in NordRuns
    PROVE  /\ r.provider = "nord" /\ r.count \in Nat /\ r.output \in Outputs
           /\ r.countries \in Seq(STRING) /\ Len(r.countries) \in Nat
           /\ r.countries = <<>> \/ Len(r.countries) >= 1
<1>1. PICK c \in NordCommands, o \in Outputs : r = Nord(c, o)
  BY DEF NordRuns
<1>2. c.count \in Nat /\ c.countries \in Seq(STRING)
  BY ImportAssumption
<1>3. /\ r.provider = "nord" /\ r.count = c.count /\ r.output = o
      /\ r.countries = c.countries
  BY <1>1 DEF Nord
<1> QED
  BY <1>2, <1>3

LEMMA SshFacts ==
    ASSUME NEW r \in SshRuns
    PROVE  /\ r.provider = "ssh" /\ r.output \in Outputs
           /\ r.ports \in Seq(Nat) /\ Len(r.ports) \in Nat
           /\ DOMAIN r.ports = 1..Len(r.ports)
<1>1. PICK c \in SshCommands, o \in Outputs : r = Ssh(c, o)
  BY DEF SshRuns
<1>2. c.ports \in Seq(Nat)
  BY ImportAssumption
<1>3. r.provider = "ssh" /\ r.output = o /\ r.ports = c.ports
  BY <1>1 DEF Ssh
<1> QED
  BY <1>2, <1>3

\* The command each stage of an import runs with.
LEMMA StageCommand ==
    ASSUME Types, Working
    PROVE  /\ stage \in {"credentials", "servers"} => command \in NordRuns
           /\ stage = "ports" => command \in SshRuns
           /\ stage = "write" => \/ command \in NordRuns /\ Truncated # <<>>
                                 \/ command \in SshRuns /\ command.ports # <<>>
           /\ stage = "none" => command = NoCommand
           /\ stage # "none" => phase = "import"
BY DEF Working, Idle, NordRuns, SshRuns

\* What a country gets, and that the shares do not exceed the count.
LEMMA Shares ==
    ASSUME NEW c \in Nat, NEW n \in Nat, n >= 1
    PROVE  /\ PerCountry(c, n) \in Nat
           /\ n <= c => n * PerCountry(c, n) <= c
<1>1. c \div n \in Nat
  OBVIOUS
<1>2. n * (c \div n) <= c
  OBVIOUS
<1>3. n <= c => c \div n # 0
  OBVIOUS
<1> QED
  BY <1>1, <1>2, <1>3 DEF PerCountry

LEMMA TruncatedFacts ==
    ASSUME fetched \in Seq(NordServers), command.count \in Nat
    PROVE  Truncated \in Seq(NordServers)
BY DEF Truncated

LEMMA AppendTables ==
    ASSUME NEW q, NEW e, IsTables(q), e.circuits \in Seq(Nat)
    PROVE  IsTables(Append(q, e))
<1>1. IsSeq(q) /\ Len(q) \in Nat /\ DOMAIN q = 1..Len(q)
  BY SeqFacts DEF IsTables
<1>2. PICK S : S = Range(q) \cup {e}
  OBVIOUS
<1>3. q \in Seq(S) /\ e \in S
  BY <1>1, <1>2, SeqFacts DEF IsSeq
<1>4. /\ Append(q, e) \in Seq(S) /\ Len(Append(q, e)) = Len(q) + 1
      /\ \A i \in 1..Len(q) : Append(q, e)[i] = q[i]
      /\ Append(q, e)[Len(q) + 1] = e
  BY <1>1, <1>3
<1>5. IsSeq(Append(q, e)) /\ DOMAIN Append(q, e) = 1..(Len(q) + 1)
  BY <1>4, SeqIsSeq, SeqFacts
<1>6. \A i \in 1..(Len(q) + 1) : i \in 1..Len(q) \/ i = Len(q) + 1
  BY <1>1
<1> QED
  BY <1>1, <1>4, <1>5, <1>6 DEF IsTables

\* The tables of a block, whole or cut short.
LEMMA BlockFacts ==
    ASSUME Types, Working, stage = "write"
    PROVE  /\ command.output \in Outputs
           /\ IsTables(Block) /\ Len(Block) \in Nat /\ DOMAIN Block = 1..Len(Block)
           /\ \A i \in DOMAIN Block : IsBuildable(Block[i])
           /\ \A n \in 0..Len(Block) : IsTables(SubSeq(Block, 1, n))
           /\ \A n \in 0..(Len(Block) - 1) : \A ls :
                 IsTables(Append(SubSeq(Block, 1, n), Cut(Block[n + 1], ls)))
<1> DEFINE Good(e) == /\ e.circuits \in Seq(Nat) /\ IsBuildable(e)
                      /\ \A ls : Cut(e, ls).circuits \in Seq(Nat)
<1>0. <<>> \in Seq(Nat)
  OBVIOUS
<1>1. ASSUME NEW x PROVE Good(NordEntry(x))
  <2>1. NordEntry(x).protocol = "wireguard" /\ NordEntry(x).circuits = <<>>
    BY DEF NordEntry
  <2>2. \A ls : Cut(NordEntry(x), ls).circuits = <<>>
    BY DEF NordEntry, Cut
  <2> QED
    BY <1>0, <2>1, <2>2 DEF IsBuildable
<1>2. ASSUME NEW h, NEW x PROVE Good(SshEntry(h, x))
  <2>1. SshEntry(h, x).circuits = <<>> /\ SshEntry(h, x).address = HostPort
        /\ SshEntry(h, x).label # <<>>
    BY DEF SshEntry
  <2>2. \A ls : Cut(SshEntry(h, x), ls).circuits = <<>>
    BY DEF SshEntry, Cut
  <2> QED
    BY <1>0, <2>1, <2>2 DEF IsBuildable
<1> HIDE DEF Good
<1>3. PICK n \in Nat : /\ n >= 1 /\ Block = [i \in 1..n |-> Block[i]]
                       /\ \A i \in 1..n : Good(Block[i])
  <2>1. CASE command \in NordRuns /\ Truncated # <<>>
    <3>1. command.provider = "nord" /\ Truncated \in Seq(NordServers)
      BY <2>1, NordFacts, TruncatedFacts DEF Types
    <3>2. Len(Truncated) \in Nat /\ Len(Truncated) >= 1
          /\ DOMAIN Truncated = 1..Len(Truncated)
      BY <2>1, <3>1
    <3>3. Block = [i \in 1..Len(Truncated) |-> NordEntry(Truncated[i])]
      BY <3>1, <3>2 DEF Block
    <3>4. /\ Block = [i \in 1..Len(Truncated) |-> Block[i]]
          /\ \A i \in 1..Len(Truncated) : Block[i] = NordEntry(Truncated[i])
      BY <3>3
    <3> QED
      BY <1>1, <3>2, <3>4
  <2>2. CASE command \in SshRuns /\ command.ports # <<>>
    <3>1. /\ command.provider = "ssh" /\ command.ports \in Seq(Nat)
          /\ Len(command.ports) \in Nat /\ DOMAIN command.ports = 1..Len(command.ports)
      BY <2>2, SshFacts
    <3>2. Len(command.ports) >= 1
      BY <2>2, <3>1
    <3>3. Block = [i \in 1..Len(command.ports) |-> SshEntry(command.host, command.ports[i])]
      BY <3>1 DEF Block
    <3>4. /\ Block = [i \in 1..Len(command.ports) |-> Block[i]]
          /\ \A i \in 1..Len(command.ports) : Block[i] = SshEntry(command.host, command.ports[i])
      BY <3>3
    <3> QED
      BY <1>2, <3>1, <3>2, <3>4
  <2> QED
    BY <2>1, <2>2, StageCommand
<1>4. IsSeq(Block) /\ Len(Block) = n /\ DOMAIN Block = 1..n
  BY <1>3, Segment
<1>5. command.output \in Outputs
  BY StageCommand, NordFacts, SshFacts
<1>6. IsTables(Block) /\ \A i \in DOMAIN Block : IsBuildable(Block[i])
  BY <1>3, <1>4 DEF IsTables, Good
<1>7. ASSUME NEW m \in 0..n PROVE IsTables(SubSeq(Block, 1, m))
  <2>1. PICK b : b = Block
    OBVIOUS
  <2>2. /\ b \in Seq(Range(b)) /\ m \in Nat /\ m <= Len(b)
        /\ \A i \in 1..m : b[i].circuits \in Seq(Nat)
    BY <1>3, <1>4, <1>7, <2>1 DEF IsSeq, Good
  <2>3. /\ SubSeq(b, 1, m) \in Seq(Range(b)) /\ Len(SubSeq(b, 1, m)) = m
        /\ \A i \in 1..m : SubSeq(b, 1, m)[i] = b[i]
    BY <2>2
  <2>4. IsSeq(SubSeq(b, 1, m))
    BY <2>3, SeqIsSeq
  <2>5. DOMAIN SubSeq(b, 1, m) = 1..m
    BY <2>3, <2>4, SeqFacts
  <2> QED
    BY <2>1, <2>2, <2>3, <2>4, <2>5 DEF IsTables
<1>8. ASSUME NEW m \in 0..(n - 1), NEW ls
      PROVE  IsTables(Append(SubSeq(Block, 1, m), Cut(Block[m + 1], ls)))
  <2>1. m \in 0..n /\ m + 1 \in 1..n
    BY <1>3, <1>8
  <2>2. Good(Block[m + 1]) /\ IsTables(SubSeq(Block, 1, m))
    BY <1>3, <1>7, <2>1
  <2>3. Cut(Block[m + 1], ls).circuits \in Seq(Nat)
    BY <2>2 DEF Good
  <2> QED
    BY <2>2, <2>3, AppendTables
<1> QED
  BY <1>4, <1>5, <1>6, <1>7, <1>8

\* What appending does to a file, and to what it holds.
LEMMA AppendedFacts ==
    ASSUME NEW f, NEW b, IsFile(f), IsTables(b)
    PROVE  /\ IsFile(Appended(f, b)) /\ Appended(Invalid, b) = Invalid
           /\ f # Invalid => /\ Appended(f, b).config.tunnel = f.config.tunnel \o b
                             /\ Appended(f, b).state = "valid"
<1>1. /\ f.config = [strategy |-> f.config.strategy, tunnel |-> f.config.tunnel]
      /\ f.config.strategy \in Strategies /\ IsTables(f.config.tunnel)
  BY Files, Configurations DEF Parsed
<1>2. IsTables(f.config.tunnel \o b)
  BY <1>1, ConcatTables
<1>3. PICK c : c = [f.config EXCEPT !.tunnel = f.config.tunnel \o b]
  OBVIOUS
<1>4. c = [strategy |-> f.config.strategy, tunnel |-> f.config.tunnel \o b]
  BY <1>1, <1>3
<1>5. Parsed(c) /\ c.tunnel = f.config.tunnel \o b
  BY <1>1, <1>2, <1>4, Configurations
<1>6. f # Invalid => Appended(f, b) = File("valid", c)
  BY <1>3 DEF Appended
<1>7. f = Invalid => Appended(f, b) = Invalid
  BY DEF Appended
<1>8. Appended(Invalid, b) = Invalid
  BY DEF Appended
<1> QED
  BY <1>5, <1>6, <1>7, <1>8, Files

\* The tables of b, at their places behind those of f.
Places(f, b) == {[place |-> Len(f.config.tunnel) + i, entry |-> b[i]] : i \in DOMAIN b}

LEMMA HoldsMore ==
    ASSUME NEW f, NEW b, NEW W, IsFile(f), IsTables(b), Holds(f, W)
    PROVE  Holds(Appended(f, b), W) /\ Holds(Appended(f, b), W \cup Places(f, b))
<1>1. CASE f = Invalid
  <2>1. Appended(f, b) = Invalid
    BY <1>1, AppendedFacts
  <2> QED
    BY <2>1 DEF Holds
<1>2. CASE f # Invalid
  <2>1. PICK t : t = f.config.tunnel
    OBVIOUS
  <2>2. Appended(f, b).config.tunnel = t \o b
    BY <1>2, <2>1, AppendedFacts
  <2>3. IsSeq(t) /\ IsSeq(b)
    BY <2>1, Files, Configurations DEF IsTables
  <2>4. /\ DOMAIN (t \o b) = 1..(Len(t) + Len(b)) /\ Len(t) \in Nat /\ Len(b) \in Nat
        /\ DOMAIN t = 1..Len(t) /\ DOMAIN b = 1..Len(b)
    BY <2>3, ConcatSeq, SeqFacts
  <2>5. ASSUME NEW w \in W PROVE w.place \in DOMAIN (t \o b) /\ (t \o b)[w.place] = w.entry
    <3>1. PICK j \in DOMAIN t : j = w.place /\ t[j] = w.entry
      BY <1>2, <2>1 DEF Holds
    <3>2. (t \o b)[j] = t[j]
      BY <2>3, <2>4, ConcatSeq
    <3> QED
      BY <2>4, <3>1, <3>2
  <2>6. ASSUME NEW w \in Places(f, b)
        PROVE  w.place \in DOMAIN (t \o b) /\ (t \o b)[w.place] = w.entry
    <3>1. PICK m \in DOMAIN b : w = [place |-> Len(t) + m, entry |-> b[m]]
      BY <2>1 DEF Places
    <3>2. w.place = Len(t) + m /\ w.entry = b[m]
      BY <3>1
    <3>3. (t \o b)[Len(t) + m] = b[m]
      BY <2>3, <2>4, ConcatSeq
    <3>4. Len(t) + m \in DOMAIN (t \o b)
      BY <2>4
    <3> QED
      BY <3>2, <3>3, <3>4
  <2> QED
    BY <2>2, <2>5, <2>6 DEF Holds
<1> QED
  BY <1>1, <1>2

LEMMA BuildableMore ==
    ASSUME NEW W, NEW f, NEW b, Buildable(W), \A i \in DOMAIN b : IsBuildable(b[i])
    PROVE  Buildable(W \cup Places(f, b))
<1>1. \A w \in Places(f, b) : \E i \in DOMAIN b : w.entry = b[i]
  BY DEF Places
<1> QED
  BY <1>1 DEF Buildable

---------------------------------------------------------------------------
(* The imports.                                                            *)

\* An import leaves main()'s state alone.
LEMMA ImportFrame ==
    ASSUME ImportInv, phase = "import", UNCHANGED proxyVars,
           IsFile(primary'), IsFile(fallback'),
           at' \in Nat, at' >= 1, fetched' \in Seq(NordServers),
           DOMAIN written' = Outputs, stage' \in Stages
    PROVE  Types' /\ Loop' /\ Loaded'
<1>1. Types'
  BY DEF ImportInv, Types, proxyVars
<1>2. Loop'
  BY SameLoop DEF ImportInv, proxyVars
<1>3. Loaded'
  BY DEF Loaded, proxyVars
<1> QED
  BY <1>1, <1>2, <1>3

\* An import goes on: no file is touched.
LEMMA GoesInv ==
    ASSUME ImportInv, phase = "import", NEW st \in Stages, Goes(st),
           at' \in Nat, at' >= 1, fetched' \in Seq(NordServers),
           Working', Shared', Started'
    PROVE  ImportInv'
<1>1. UNCHANGED <<primary, fallback, proxyVars, written>> /\ stage' \in Stages
  BY DEF Goes
<1>2. IsFile(primary') /\ IsFile(fallback') /\ DOMAIN written' = Outputs
  BY <1>1 DEF ImportInv, Types
<1>3. Types' /\ Loop' /\ Loaded'
  BY <1>1, <1>2, ImportFrame
<1>4. Kept'
  BY <1>1, SameFiles DEF ImportInv
<1> QED
  BY <1>3, <1>4 DEF ImportInv

LEMMA ExitInv ==
    ASSUME ImportInv, phase = "import", Exit, IsFile(primary'), IsFile(fallback'),
           DOMAIN written' = Outputs, launched' \subseteq reported', Kept'
    PROVE  ImportInv'
<1>1. /\ command' = NoCommand /\ stage' = "none" /\ at' = 1 /\ fetched' = <<>>
      /\ UNCHANGED proxyVars
  BY DEF Exit
<1>2. Working'
  BY <1>1 DEF Working, Idle
<1>3. Shared' /\ Started'
  BY <1>1 DEF Shared, Started, NoCommand
<1>4. fetched' \in Seq(NordServers) /\ stage' \in Stages
  BY <1>1 DEF Stages
<1>5. Types' /\ Loop' /\ Loaded'
  BY <1>1, <1>4, ImportFrame
<1> QED
  BY <1>2, <1>3, <1>5 DEF ImportInv

LEMMA BailInv ==
    ASSUME ImportInv, phase = "import", Bail
    PROVE  ImportInv'
<1>1. Exit /\ UNCHANGED <<primary, fallback, reported, written, launched>>
  BY DEF Bail
<1>2. Kept'
  BY <1>1, SameFiles DEF ImportInv
<1>3. IsFile(primary') /\ IsFile(fallback') /\ DOMAIN written' = Outputs
      /\ launched' \subseteq reported'
  BY <1>1 DEF ImportInv, Types, Started
<1> QED
  BY <1>1, <1>2, <1>3, ExitInv

LEMMA BeginInv ==
    ASSUME ImportInv, Begin
    PROVE  ImportInv'
<1>0. Types /\ Working /\ Started /\ Kept
  BY DEF ImportInv
<1>1. /\ phase = "import" /\ stage = "none" /\ command' \in Commands
      /\ stage' = (IF command'.provider = "nord" THEN "credentials" ELSE "ports")
      /\ UNCHANGED <<primary, fallback, proxyVars, at, fetched, reported, written, launched>>
  BY DEF Begin
<1>2. at = 1 /\ fetched = <<>>
  BY <1>0, <1>1 DEF Working, Idle
<1>3. command' \in NordRuns \/ command' \in SshRuns
  BY <1>1 DEF Commands, NordRuns, SshRuns
<1>4. Kept'
  BY <1>0, <1>1, SameFiles
<1>5. stage' \in Stages /\ fetched' \in Seq(NordServers)
  BY <1>0, <1>1 DEF Stages, Types
<1>6. Types' /\ Loop' /\ Loaded'
  <2>1. /\ at' \in Nat /\ at' >= 1 /\ IsFile(primary') /\ IsFile(fallback')
        /\ DOMAIN written' = Outputs
    BY <1>0, <1>1 DEF Types
  <2> QED
    BY <1>1, <1>5, <2>1, ImportFrame
<1>7. phase' = "import" /\ launched' \subseteq reported'
  BY <1>0, <1>1 DEF proxyVars, Started
<1>8. CASE command' \in NordRuns
  <2>1. PICK r \in NordRuns : r = command'
    BY <1>8
  <2>2. /\ r.provider = "nord" /\ r.count \in Nat /\ Len(r.countries) \in Nat
        /\ r.countries = <<>> \/ Len(r.countries) >= 1
    BY NordFacts
  <2>3. Working'
    BY <1>1, <1>2, <1>7, <1>8, <2>1, <2>2 DEF Working, NordRuns
  <2>4. Shared'
    <3>1. Codes' = r.countries /\ at' = 1 /\ Len(fetched') = 0 /\ fetched' = <<>>
      BY <1>1, <1>2, <2>1 DEF Codes
    <3>2. CASE r.countries # <<>>
      <4>1. PICK q \in Nat : q = PerCountry(r.count, Len(r.countries))
        BY <2>2, <3>2, Shares
      <4>2. 0 <= (1 - 1) * q
        OBVIOUS
      <4> QED
        BY <2>1, <2>2, <3>1, <3>2, <4>1, <4>2 DEF Shared
    <3> QED
      BY <2>1, <2>2, <3>1, <3>2 DEF Shared
  <2>5. Started'
    BY <1>7, <2>1, <2>2 DEF Started
  <2> QED
    BY <1>4, <1>6, <2>3, <2>4, <2>5 DEF ImportInv
<1>9. CASE command' \in SshRuns
  <2>1. PICK r \in SshRuns : r = command'
    BY <1>9
  <2>2. r.provider = "ssh" /\ DOMAIN r.ports = 1..Len(r.ports) /\ Len(r.ports) \in Nat
    BY SshFacts
  <2>3. stage' = "ports"
    BY <1>1, <2>1, <2>2
  <2>4. Working'
    BY <1>1, <1>2, <1>7, <1>9, <2>3 DEF Working, SshRuns
  <2>5. Shared'
    BY <2>1, <2>2 DEF Shared
  <2>6. Started'
    <3>1. \A j \in DOMAIN r.ports : ~(j < at')
      BY <1>1, <1>2, <2>2
    <3> QED
      BY <1>7, <2>1, <2>3, <3>1 DEF Started
  <2> QED
    BY <1>4, <1>6, <2>4, <2>5, <2>6 DEF ImportInv
<1> QED
  BY <1>3, <1>8, <1>9

\* The facts the steps of import nord share.
LEMMA NordStep ==
    ASSUME ImportInv, stage \in {"credentials", "servers"}
    PROVE  /\ phase = "import" /\ command \in NordRuns /\ command.provider = "nord"
           /\ command.count \in Nat /\ Codes \in Seq(STRING) /\ Len(Codes) \in Nat
           /\ Codes = <<>> \/ Len(Codes) >= 1
           /\ at \in Nat /\ at >= 1 /\ fetched \in Seq(NordServers) /\ Len(fetched) \in Nat
<1>1. phase = "import" /\ command \in NordRuns
  BY StageCommand DEF ImportInv
<1> QED
  BY <1>1, NordFacts DEF ImportInv, Types, Codes

\* A step of import nord that goes on to ask for servers.
LEMMA ServersInv ==
    ASSUME ImportInv, stage \in {"credentials", "servers"}, Goes("servers"),
           UNCHANGED reported, at' \in Nat, at' >= 1, fetched' \in Seq(NordServers), Shared'
    PROVE  ImportInv'
<1>1. phase = "import" /\ command \in NordRuns /\ command.provider = "nord"
  BY NordStep
<1>2. stage' = "servers" /\ UNCHANGED <<phase, command, imports, launched>>
  BY DEF Goes, proxyVars
<1>3. Working'
  BY <1>1, <1>2 DEF Working, NordRuns
<1>4. Started'
  BY <1>1, <1>2 DEF Started, ImportInv
<1>5. "servers" \in Stages
  BY DEF Stages
<1> QED
  BY <1>1, <1>3, <1>4, <1>5, GoesInv

LEMMA CredentialsInv ==
    ASSUME ImportInv, FetchCredentials
    PROVE  ImportInv'
<1>1. stage = "credentials"
  BY DEF FetchCredentials
<1>2. /\ phase = "import" /\ at \in Nat /\ at >= 1 /\ fetched \in Seq(NordServers)
  BY <1>1, NordStep
<1>3. CASE Bail
  BY <1>2, <1>3, BailInv
<1>4. CASE Goes("servers") /\ UNCHANGED <<at, fetched, reported>>
  <2>1. Shared'
    BY <1>4 DEF ImportInv, Shared, Goes, Codes
  <2> QED
    BY <1>1, <1>2, <1>4, <2>1, ServersInv
<1> QED
  BY <1>3, <1>4 DEF FetchCredentials

\* The answer to one request.
LEMMA Response ==
    ASSUME NEW S, S \subseteq NordServers, NEW limit \in Nat, NEW q \in Responses(S, limit),
           fetched \in Seq(NordServers)
    PROVE  /\ fetched \o q \in Seq(NordServers) /\ Len(q) \in Nat /\ Len(q) <= limit
           /\ Len(fetched \o q) = Len(fetched) + Len(q)
<1>1. q \in Seq(S) /\ Len(q) \in Nat /\ Len(q) <= limit
  BY Bounded DEF Responses
<1>2. q \in Seq(NordServers)
  BY <1>1
<1> QED
  BY <1>1, <1>2

LEMMA CountryInv ==
    ASSUME ImportInv, FetchCountry \/ SkipCountry
    PROVE  ImportInv'
<1>0. stage = "servers" /\ at <= Len(Codes)
  BY DEF FetchCountry, SkipCountry
<1>1. /\ phase = "import" /\ command \in NordRuns /\ command.provider = "nord"
      /\ command.count \in Nat /\ Len(Codes) \in Nat
      /\ at \in Nat /\ at >= 1 /\ fetched \in Seq(NordServers) /\ Len(fetched) \in Nat
  BY <1>0, NordStep
<1>2. Codes # <<>> /\ Len(Codes) >= 1
  BY <1>0, <1>1
<1>3. PICK p \in Nat : p = PerCountry(command.count, Len(Codes))
  BY <1>1, <1>2, Shares
<1>4. Len(fetched) <= (at - 1) * p
  BY <1>1, <1>2, <1>3 DEF ImportInv, Shared
<1>5. ASSUME NEW m \in Nat, m <= p, Len(fetched') = Len(fetched) + m,
             fetched' \in Seq(NordServers), at' = at + 1, Goes("servers"), UNCHANGED reported
      PROVE  ImportInv'
  <2>1. Len(fetched) + m <= at * p
    BY <1>1, <1>4, <1>5
  <2>2. at' - 1 = at /\ at' <= Len(Codes) + 1 /\ at' \in Nat /\ at' >= 1
    BY <1>0, <1>1, <1>5
  <2>3. command' = command /\ Codes' = Codes
    BY <1>5 DEF Goes, Codes
  <2>4. Shared'
    BY <1>1, <1>2, <1>3, <1>5, <2>1, <2>2, <2>3 DEF Shared
  <2> QED
    BY <1>0, <1>5, <2>2, <2>4, ServersInv
<1>6. CASE SkipCountry
  <2>1. at' = at + 1 /\ Goes("servers") /\ fetched' = fetched /\ reported' = reported
    BY <1>6 DEF SkipCountry
  <2>2. 0 \in Nat /\ 0 <= p /\ Len(fetched') = Len(fetched) + 0 /\ fetched' \in Seq(NordServers)
    BY <1>1, <2>1
  <2> QED
    BY <1>5, <2>1, <2>2
<1>7. CASE FetchCountry
  <2>1. PICK id \in CountryCodeToId(Codes[at]) : Fetch({s \in NordServers : s.country = id}, p)
    BY <1>3, <1>7 DEF FetchCountry
  <2>2. CASE Bail
    BY <1>1, <2>2, BailInv
  <2>3. CASE /\ \E q \in Responses({s \in NordServers : s.country = id}, p) :
                   fetched' = fetched \o q
             /\ at' = at + 1
             /\ Goes("servers") /\ UNCHANGED reported
    <3>1. PICK q \in Responses({s \in NordServers : s.country = id}, p) : fetched' = fetched \o q
      BY <2>3
    <3>2. /\ fetched' \in Seq(NordServers) /\ Len(q) \in Nat /\ Len(q) <= p
          /\ Len(fetched') = Len(fetched) + Len(q)
      BY <1>1, <3>1, Response
    <3> QED
      BY <1>5, <2>3, <3>2
  <2> QED
    BY <2>1, <2>2, <2>3 DEF Fetch
<1> QED
  BY <1>6, <1>7

LEMMA AnyInv ==
    ASSUME ImportInv, FetchAny
    PROVE  ImportInv'
<1>0. stage = "servers" /\ Codes = <<>> /\ at = 1 /\ Fetch(NordServers, command.count)
  BY DEF FetchAny
<1>1. /\ phase = "import" /\ command.provider = "nord" /\ command.count \in Nat
      /\ fetched \in Seq(NordServers)
  BY <1>0, NordStep
<1>2. fetched = <<>>
  BY <1>0, <1>1 DEF ImportInv, Shared
<1>3. CASE Bail
  BY <1>1, <1>3, BailInv
<1>4. CASE /\ \E q \in Responses(NordServers, command.count) : fetched' = fetched \o q
           /\ at' = at + 1
           /\ Goes("servers") /\ UNCHANGED reported
  <2>1. PICK q \in Responses(NordServers, command.count) : fetched' = fetched \o q
    BY <1>4
  <2>2. /\ fetched' \in Seq(NordServers) /\ Len(q) \in Nat /\ Len(q) <= command.count
        /\ Len(fetched') = Len(fetched) + Len(q)
    BY <1>1, <2>1, Response
  <2>3. Len(fetched') <= command.count
    BY <1>2, <2>2
  <2>4. command' = command /\ Codes' = Codes /\ at' = 2
    BY <1>0, <1>4 DEF Goes, Codes
  <2>5. Shared'
    BY <1>0, <1>1, <2>3, <2>4 DEF Shared
  <2> QED
    BY <1>0, <1>4, <2>2, <2>4, <2>5, ServersInv
<1> QED
  BY <1>0, <1>3, <1>4 DEF Fetch

LEMMA GenerateInv ==
    ASSUME ImportInv, Generate \/ GenerateFails
    PROVE  ImportInv'
<1>0. stage = "servers"
  BY DEF Generate, GenerateFails, AllFetched
<1>1. /\ phase = "import" /\ command \in NordRuns /\ command.provider = "nord"
      /\ at \in Nat /\ at >= 1 /\ fetched \in Seq(NordServers)
  BY <1>0, NordStep
<1>2. CASE GenerateFails
  BY <1>1, <1>2, BailInv DEF GenerateFails
<1>3. CASE Generate
  <2>1. /\ Truncated # <<>> /\ Goes("write") /\ UNCHANGED <<at, fetched, reported>>
    BY <1>3 DEF Generate
  <2>2. stage' = "write" /\ UNCHANGED <<phase, command, imports, launched>>
    BY <2>1 DEF Goes, proxyVars
  <2>3. Truncated' = Truncated /\ Codes' = Codes
    BY <2>1, <2>2 DEF Truncated, Codes
  <2>4. Working'
    BY <1>1, <2>1, <2>2, <2>3 DEF Working, NordRuns
  <2>5. Shared'
    BY <2>1, <2>2, <2>3 DEF ImportInv, Shared
  <2>6. Started'
    BY <1>1, <2>1, <2>2 DEF Started, ImportInv
  <2>7. "write" \in Stages
    BY DEF Stages
  <2> QED
    BY <1>1, <2>1, <2>4, <2>5, <2>6, <2>7, GoesInv
<1> QED
  BY <1>2, <1>3

LEMMA PortsInv ==
    ASSUME ImportInv, StartSshTunnel \/ NoPorts \/ PortsDone
    PROVE  ImportInv'
<1>0. stage = "ports"
  BY DEF StartSshTunnel, NoPorts, PortsDone
<1>1. /\ phase = "import" /\ command \in SshRuns
      /\ at \in Nat /\ at >= 1 /\ fetched \in Seq(NordServers) /\ fetched = <<>>
      /\ launched \subseteq reported
  BY <1>0, StageCommand DEF ImportInv, Types, Working, Started
<1>2. /\ command.provider = "ssh" /\ Len(command.ports) \in Nat
      /\ DOMAIN command.ports = 1..Len(command.ports)
  BY <1>1, SshFacts
<1>3. command.start => \A j \in DOMAIN command.ports : j < at => <<imports, j>> \in reported
  BY <1>2 DEF ImportInv, Started
<1>4. CASE Bail
  BY <1>1, <1>4, BailInv
<1>5. CASE PortsDone
  <2>1. /\ command.ports # <<>>
        /\ ~command.start \/ at > Len(command.ports)
        /\ Goes("write") /\ UNCHANGED <<at, fetched, reported>>
    BY <1>5 DEF PortsDone
  <2>2. stage' = "write" /\ UNCHANGED <<phase, command, imports, launched>>
    BY <2>1 DEF Goes, proxyVars
  <2>3. Working'
    BY <1>1, <2>1, <2>2 DEF Working, SshRuns
  <2>4. Shared'
    BY <1>2, <2>2 DEF Shared
  <2>5. command.start => \A j \in DOMAIN command.ports : <<imports, j>> \in reported
    <3>1. at > Len(command.ports) => \A j \in DOMAIN command.ports : j < at
      BY <1>1, <1>2
    <3> QED
      BY <1>3, <2>1, <3>1
  <2>6. Started'
    BY <1>1, <2>1, <2>2, <2>5 DEF Started
  <2>7. "write" \in Stages
    BY DEF Stages
  <2> QED
    BY <1>1, <2>1, <2>3, <2>4, <2>6, <2>7, GoesInv
<1>6. CASE /\ command.start /\ at <= Len(command.ports)
           /\ reported' = reported \cup {<<imports, at>>}
           /\ at' = at + 1
           /\ Goes("ports") /\ UNCHANGED fetched
  <2>1. stage' = "ports" /\ UNCHANGED <<phase, command, imports, launched>>
    BY <1>6 DEF Goes, proxyVars
  <2>2. Working'
    BY <1>1, <1>6, <2>1 DEF Working, SshRuns
  <2>3. Shared'
    BY <1>2, <2>1 DEF Shared
  <2>4. \A j \in DOMAIN command.ports : j < at' => <<imports, j>> \in reported'
    <3>1. \A j \in DOMAIN command.ports : j < at' => j < at \/ j = at
      BY <1>1, <1>2, <1>6
    <3> QED
      BY <1>3, <1>6, <3>1
  <2>5. Started'
    BY <1>1, <1>6, <2>1, <2>4 DEF Started
  <2>6. "ports" \in Stages /\ at' \in Nat /\ at' >= 1
    BY <1>1, <1>6 DEF Stages
  <2> QED
    BY <1>1, <1>6, <2>2, <2>3, <2>5, <2>6, GoesInv
<1> QED
  BY <1>4, <1>5, <1>6 DEF StartSshTunnel, StartFails, NoPorts

\* The output file is replaced, the other one is left alone.
LEMMA PutFacts ==
    ASSUME Types, command.output \in Outputs, NEW f, Put(f), IsFile(f)
    PROVE  /\ IsFile(primary') /\ IsFile(fallback')
           /\ \A o \in Outputs : FileOf(o)' = IF o = command.output THEN f ELSE FileOf(o)
<1>1. IsFile(primary) /\ IsFile(fallback)
  BY DEF Types
<1>2. /\ primary' = IF command.output = "primary" THEN f ELSE primary
      /\ fallback' = IF command.output = "fallback" THEN f ELSE fallback
  BY DEF Put
<1>3. IsFile(primary') /\ IsFile(fallback')
  BY <1>1, <1>2
<1>4. ASSUME NEW o \in Outputs
      PROVE  FileOf(o)' = IF o = command.output THEN f ELSE FileOf(o)
  <2>1. o \in {"primary", "fallback"} /\ command.output \in {"primary", "fallback"}
    BY DEF Outputs
  <2>2. CASE o = "primary"
    BY <1>2, <2>1, <2>2 DEF FileOf
  <2>3. CASE o = "fallback"
    BY <1>2, <2>1, <2>3 DEF FileOf
  <2> QED
    BY <2>1, <2>2, <2>3
<1> QED
  BY <1>3, <1>4

LEMMA OldFile ==
    ASSUME Types, command.output \in Outputs
    PROVE  IsFile(Old) /\ Old = FileOf(command.output)
BY DEF Old, FileOf, Types

LEMMA PutInv ==
    ASSUME ImportInv, stage = "write", Exit, NEW f, Put(f), IsFile(f),
           NEW w, Buildable(w), Holds(f, w),
           DOMAIN written' = Outputs, written'[command.output] = w,
           \A o \in Outputs : o # command.output => written'[o] = written[o],
           launched' \subseteq reported'
    PROVE  ImportInv'
<1>1. Types /\ phase = "import" /\ command.output \in Outputs /\ Kept
  BY StageCommand, NordFacts, SshFacts DEF ImportInv
<1>2. /\ IsFile(primary') /\ IsFile(fallback')
      /\ \A o \in Outputs : FileOf(o)' = IF o = command.output THEN f ELSE FileOf(o)
  BY <1>1, PutFacts
<1>4. ASSUME NEW o \in Outputs
      PROVE  Holds(FileOf(o)', written'[o]) /\ Buildable(written'[o])
  <2>1. CASE o = command.output
    <3>1. FileOf(o)' = f /\ written'[o] = w
      BY <1>2, <2>1
    <3> QED
      BY <3>1
  <2>2. CASE o # command.output
    <3>1. FileOf(o)' = FileOf(o) /\ written'[o] = written[o]
      BY <1>2, <2>2
    <3> QED
      BY <1>1, <3>1 DEF Kept
  <2> QED
    BY <2>1, <2>2
<1>5. Kept'
  BY <1>4 DEF Kept
<1> QED
  BY <1>1, <1>2, <1>5, ExitInv

\* An import that writes has started what it was asked to start.
LEMMA LaunchesInv ==
    ASSUME Types, Working, Started, stage = "write", Launches, UNCHANGED reported
    PROVE  launched' \subseteq reported'
<1>1. CASE command.provider = "ssh" /\ command.start
  <2>1. \A j \in DOMAIN command.ports : <<imports, j>> \in reported
    BY <1>1 DEF Started
  <2> QED
    BY <1>1, <2>1 DEF Launches, Started
<1>2. CASE ~(command.provider = "ssh" /\ command.start)
  BY <1>2 DEF Launches, Started
<1> QED
  BY <1>1, <1>2

LEMMA WriteConfigInv ==
    ASSUME ImportInv, WriteConfig
    PROVE  ImportInv'
<1>0. /\ Types /\ Working /\ Started /\ stage = "write" /\ Exit /\ Put(Appended(Old, Block))
      /\ Launches /\ reported' = reported
  BY DEF ImportInv, WriteConfig
<1>1. /\ command.output \in Outputs /\ IsTables(Block)
      /\ \A i \in DOMAIN Block : IsBuildable(Block[i])
  BY <1>0, BlockFacts
<1>2. PICK f, v, a : /\ f = Appended(Old, Block) /\ v = written[command.output]
                     /\ a = Places(Old, Block)
  OBVIOUS
<1>3. IsFile(Old) /\ Old = FileOf(command.output)
  BY <1>0, <1>1, OldFile
<1>4. Buildable(v) /\ Holds(Old, v)
  BY <1>1, <1>2, <1>3 DEF ImportInv, Kept
<1>5. IsFile(f) /\ Holds(f, v \cup a)
  BY <1>1, <1>2, <1>3, <1>4, AppendedFacts, HoldsMore
<1>6. Buildable(v \cup a)
  BY <1>1, <1>2, <1>4, BuildableMore
<1>7. /\ DOMAIN written' = Outputs /\ written'[command.output] = v \cup a
      /\ \A o \in Outputs : o # command.output => written'[o] = written[o]
  BY <1>0, <1>1, <1>2 DEF WriteConfig, Types, Places
<1>8. launched' \subseteq reported' /\ Put(f)
  BY <1>0, <1>2, LaunchesInv
<1> QED
  BY <1>0, <1>5, <1>6, <1>7, <1>8, PutInv

\* What a write that fails may leave of the output file.
LEMMA WriteFailsShape ==
    ASSUME Types, Working, WriteFails
    PROVE  \/ UNCHANGED <<primary, fallback>>
           \/ Put(Invalid)
           \/ \E b : IsTables(b) /\ Put(Appended(Old, b))
<1>1. stage = "write"
  BY DEF WriteFails
<1>2. CASE \E n \in 0..Len(Block) : Put(Appended(Old, SubSeq(Block, 1, n)))
  BY <1>1, <1>2, BlockFacts
<1>3. CASE \E n \in 0..(Len(Block) - 1), l \in 0..Len(Lines) :
             Put(Appended(Old, Append(SubSeq(Block, 1, n),
                                      Cut(Block[n + 1], Range(SubSeq(Lines, 1, l))))))
  <2>1. PICK n \in 0..(Len(Block) - 1), l \in 0..Len(Lines) :
             Put(Appended(Old, Append(SubSeq(Block, 1, n),
                                      Cut(Block[n + 1], Range(SubSeq(Lines, 1, l))))))
    BY <1>3
  <2>2. PICK b : b = Append(SubSeq(Block, 1, n),
                            Cut(Block[n + 1], Range(SubSeq(Lines, 1, l))))
    OBVIOUS
  <2>3. IsTables(b)
    BY <1>1, <2>2, BlockFacts
  <2> QED
    BY <2>1, <2>2, <2>3
<1> QED
  BY <1>2, <1>3 DEF WriteFails

LEMMA WriteFailsInv ==
    ASSUME ImportInv, WriteFails
    PROVE  ImportInv'
<1>0. /\ Types /\ Working /\ Started /\ stage = "write" /\ Exit /\ Launches
      /\ UNCHANGED <<reported, written>> /\ phase = "import"
  BY StageCommand DEF ImportInv, WriteFails
<1>1. command.output \in Outputs
  BY <1>0, BlockFacts
<1>2. PICK v : v = written[command.output]
  OBVIOUS
<1>3. IsFile(Old) /\ Old = FileOf(command.output)
  BY <1>0, <1>1, OldFile
<1>4. Buildable(v) /\ Holds(Old, v)
  BY <1>1, <1>2, <1>3 DEF ImportInv, Kept
<1>5. /\ DOMAIN written' = Outputs /\ written'[command.output] = v
      /\ \A o \in Outputs : o # command.output => written'[o] = written[o]
  BY <1>0, <1>2 DEF Types
<1>6. launched' \subseteq reported'
  BY <1>0, LaunchesInv
<1>7. CASE UNCHANGED <<primary, fallback>>
  <2>1. Kept' /\ IsFile(primary') /\ IsFile(fallback')
    BY <1>0, <1>7, SameFiles DEF ImportInv, Types
  <2> QED
    BY <1>0, <1>5, <1>6, <2>1, ExitInv
<1>8. CASE Put(Invalid)
  <2>1. IsFile(Invalid) /\ Holds(Invalid, v)
    BY Files DEF Holds
  <2> QED
    BY <1>0, <1>4, <1>5, <1>6, <1>8, <2>1, PutInv
<1>9. ASSUME NEW b, IsTables(b), Put(Appended(Old, b)) PROVE ImportInv'
  <2>1. PICK f : f = Appended(Old, b)
    OBVIOUS
  <2>2. IsFile(f) /\ Holds(f, v) /\ Put(f)
    BY <1>3, <1>4, <1>9, <2>1, AppendedFacts, HoldsMore
  <2> QED
    BY <1>0, <1>4, <1>5, <1>6, <2>2, PutInv
<1> QED
  BY <1>0, <1>7, <1>8, <1>9, WriteFailsShape

LEMMA ServeProxyInv ==
    ASSUME ImportInv, Serve
    PROVE  ImportInv'
<1>0. Types /\ Working /\ Shared /\ Started /\ Loop /\ Kept
  BY DEF ImportInv
<1>1. /\ phase = "import" /\ stage = "none" /\ phase' = "load"
      /\ UNCHANGED <<env, config, next, transports, importVars>>
  BY DEF Serve
<1>2. Types'
  BY <1>0, <1>1 DEF Types, env, importVars, Phases
<1>3. Working'
  BY <1>0, <1>1 DEF Working, Idle, importVars
<1>4. Shared' /\ Started'
  BY <1>0, <1>1, SameCommand DEF importVars
<1>5. Loop'
  BY <1>0, <1>1, SameLoop
<1>6. Kept'
  BY <1>0, <1>1, SameFiles DEF env, importVars
<1>7. Loaded'
  BY <1>1 DEF Loaded
<1> QED
  BY <1>2, <1>3, <1>4, <1>5, <1>6, <1>7 DEF ImportInv

LEMMA StutterInv ==
    ASSUME ImportInv, UNCHANGED <<vars, importVars>>
    PROVE  ImportInv'
<1>0. Types /\ Working /\ Shared /\ Started /\ Loop /\ Kept /\ Loaded
  BY DEF ImportInv
<1>1. Types' /\ Working' /\ Loaded'
  BY <1>0 DEF Types, Working, Loaded, Idle, Truncated, EffectiveFile, vars, env, importVars
<1>2. Shared' /\ Started'
  BY <1>0, SameCommand DEF importVars
<1>3. Loop'
  BY <1>0, SameLoop DEF vars, Loop
<1>4. Kept'
  BY <1>0, SameFiles DEF vars, env, importVars
<1> QED
  BY <1>1, <1>2, <1>3, <1>4 DEF ImportInv

LEMMA StepInv == ImportInv /\ [ImportNext]_<<vars, importVars>> => ImportInv'
<1> SUFFICES ASSUME ImportInv, [ImportNext]_<<vars, importVars>> PROVE ImportInv'
  OBVIOUS
<1>1. CASE UNCHANGED <<vars, importVars>>
  BY <1>1, StutterInv
<1>2. CASE Next /\ UNCHANGED importVars
  BY <1>2, ProxyInv
<1>3. CASE Serve
  BY <1>3, ServeProxyInv
<1>4. CASE Begin
  BY <1>4, BeginInv
<1>5. CASE FetchCredentials
  BY <1>5, CredentialsInv
<1>6. CASE FetchCountry \/ SkipCountry
  BY <1>6, CountryInv
<1>7. CASE FetchAny
  BY <1>7, AnyInv
<1>8. CASE Generate \/ GenerateFails
  BY <1>8, GenerateInv
<1>9. CASE StartSshTunnel \/ NoPorts \/ PortsDone
  BY <1>9, PortsInv
<1>10. CASE WriteConfig
  BY <1>10, WriteConfigInv
<1>11. CASE WriteFails
  BY <1>11, WriteFailsInv
<1> QED
  BY <1>1, <1>2, <1>3, <1>4, <1>5, <1>6, <1>7, <1>8, <1>9, <1>10, <1>11
  DEF ImportNext, ImportStep

LEMMA Invariance == ImportSpec => []ImportInv
BY InitInv, StepInv, PTL DEF ImportSpec

---------------------------------------------------------------------------
(* The results.                                                            *)

\* The loop of build_transports stays within the entries, and each transport
\* comes from an entry it is done with (main.rs, build_transports).
THEOREM StartTypeCorrect == ImportSpec => []TypeOK
<1>1. ImportInv => TypeOK
  <2> SUFFICES ASSUME ImportInv PROVE TypeOK
    OBVIOUS
  <2>1. /\ phase \in Phases /\ config.strategy \in Strategies
        /\ next \in Nat /\ next >= 1 /\ next <= Len(config.tunnel) + 1
        /\ Len(config.tunnel) \in Nat
    BY Configurations DEF ImportInv, Types, Parsed
  <2>2. next \in 1..(Len(config.tunnel) + 1)
    BY <2>1
  <2> QED
    BY <2>1, <2>2 DEF TypeOK, ImportInv, Loop, Phases
<1> QED
  BY <1>1, Invariance, PTL

\* However many entries are skipped, and whatever imports wrote to the file:
\* when the proxy serves, each usable entry has its transport, healthy if it is
\* a proxy (main.rs, build_transports).
THEOREM UsableServed == ImportSpec => []EveryUsableServed
<1>1. ImportInv => EveryUsableServed
  <2> SUFFICES ASSUME ImportInv, Serving, NEW i \in DOMAIN config.tunnel,
                      IsUsable(config.tunnel[i]), config.tunnel[i].protocol # "tor"
               PROVE  \E k \in From(i) :
                        config.tunnel[i].protocol \in {"socks5", "http-proxy"} =>
                            transports[k].healthy
    BY DEF EveryUsableServed
  <2>1. Loop /\ next > Len(config.tunnel)
    BY DEF ImportInv, Loop, Serving
  <2>2. /\ Len(config.tunnel) \in Nat /\ DOMAIN config.tunnel = 1..Len(config.tunnel)
        /\ next \in Nat
    BY Configurations DEF ImportInv, Types
  <2>3. i < next
    BY <2>1, <2>2
  <2>4. Served(i, config.tunnel[i])
    BY <2>1, <2>3 DEF Loop
  <2> QED
    BY <2>4 DEF Served
<1> QED
  BY <1>1, Invariance, PTL

\* The shares of the countries add up to no more than --count, so the final
\* truncate drops none of the servers that were fetched (nord.rs, fetch_servers).
THEOREM ShareDropsNone == ImportSpec => []CountriesShared
<1>1. ImportInv => CountriesShared
  <2> SUFFICES ASSUME ImportInv, command.provider = "nord",
                      Codes = <<>> \/ Len(Codes) <= command.count
               PROVE  Truncated = fetched
    BY DEF CountriesShared
  <2>1. command \in NordRuns
    <3>1. NoCommand.provider = "none" /\ \A r \in SshRuns : r.provider = "ssh"
      BY SshFacts DEF NoCommand
    <3> QED
      BY <3>1, StageCommand DEF ImportInv, Types, Stages
  <2>2. /\ command.count \in Nat /\ Len(Codes) \in Nat /\ (Codes = <<>> \/ Len(Codes) >= 1)
        /\ at \in Nat /\ at >= 1 /\ fetched \in Seq(NordServers) /\ Len(fetched) \in Nat
    BY <2>1, NordFacts DEF ImportInv, Types, Codes
  <2>3. Len(fetched) <= command.count
    <3>1. CASE Codes = <<>>
      BY <3>1 DEF ImportInv, Shared
    <3>2. CASE Codes # <<>>
      <4>1. PICK p \in Nat : p = PerCountry(command.count, Len(Codes))
        BY <2>2, <3>2, Shares
      <4>2. Len(Codes) * p <= command.count
        BY <2>2, <3>2, <4>1, Shares
      <4>3. at <= Len(Codes) + 1 /\ Len(fetched) <= (at - 1) * p
        BY <3>2, <4>1 DEF ImportInv, Shared
      <4>4. PICK a \in Nat : a = at - 1 /\ a <= Len(Codes)
        BY <2>2, <4>3
      <4>5. a * p <= Len(Codes) * p
        BY <2>2, <4>4
      <4>6. a * p \in Nat /\ Len(Codes) * p \in Nat /\ Len(fetched) <= a * p
        BY <2>2, <4>3, <4>4
      <4> QED
        BY <2>2, <4>2, <4>5, <4>6
    <3> QED
      BY <3>1, <3>2
  <2>4. Truncated = SubSeq(fetched, 1, Len(fetched))
    BY <2>2, <2>3 DEF Truncated
  <2> QED
    BY <2>2, <2>4
<1> QED
  BY <1>1, Invariance, PTL

\* With --start, an import comes to write its tables only when each of its ssh
\* commands has exited 0: it stops at the first that does not (ssh.rs,
\* import_ssh).  What listens on the ports is not known to it.
THEOREM WrittenAreStarted == ImportSpec => []StartedBeforeWritten
<1>1. ImportInv => StartedBeforeWritten
  BY DEF ImportInv, Started, StartedBeforeWritten
<1> QED
  BY <1>1, Invariance, PTL

\* In a build with the socks5 feature, which is a default one, the next start
\* builds a healthy transport of its own, with its host and port, from each
\* table that import ssh has written to the file it reads, through any number
\* of imports and failed writes in between (write_config of nord.rs and ssh.rs,
\* then main.rs).
THEOREM WrittenAreServed ==
    ASSUME "socks5" \in Features
    PROVE  ImportSpec => []ImportedServed
<1>1. ImportInv => ImportedServed
  <2> SUFFICES ASSUME ImportInv, Serving, tunnels = <<>>,
                      NEW o, o = (IF primary = Absent THEN "fallback" ELSE "primary"),
                      NEW w \in written[o], w.entry.protocol = "socks5"
               PROVE  \E k \in From(w.place) :
                          transports[k].healthy /\ transports[k].label = w.entry.label
    BY DEF ImportedServed
  <2>1. o \in Outputs /\ FileOf(o) = EffectiveFile
    BY DEF Outputs, FileOf, EffectiveFile
  <2>2. EffectiveFile.state = "valid" /\ config.tunnel = EffectiveFile.config.tunnel
    BY DEF ImportInv, Loaded, Serving
  <2>3. FileOf(o) # Invalid
    BY <2>1, <2>2, Files
  <2>4. Holds(FileOf(o), written[o]) /\ Buildable(written[o])
    BY <2>1 DEF ImportInv, Kept
  <2>5. PICK j \in DOMAIN config.tunnel : j = w.place /\ config.tunnel[j] = w.entry
    BY <2>1, <2>2, <2>3, <2>4 DEF Holds
  <2>6. PICK e : e = config.tunnel[j]
    OBVIOUS
  <2>7. e.protocol = "socks5" /\ e.address = HostPort /\ e.label # <<>>
    BY <2>4, <2>5, <2>6 DEF Buildable, IsBuildable
  <2>8. HostPort # NoAddress
    <3>1. HostPort.scheme = "" /\ NoAddress.scheme = "none"
      BY DEF HostPort, NoAddress, Address
    <3> QED
      BY <3>1
  <2>9. IsUsable(e)
    BY <2>7, <2>8 DEF IsUsable, Supported, HasFields
  <2>10. /\ Len(config.tunnel) \in Nat /\ DOMAIN config.tunnel = 1..Len(config.tunnel)
         /\ next \in Nat /\ next > Len(config.tunnel)
    BY Configurations DEF ImportInv, Types, Loop, Serving
  <2>11. j < next
    BY <2>10
  <2>12. Served(j, e)
    BY <2>6, <2>7, <2>9, <2>11 DEF ImportInv, Loop
  <2>13. Label(e) = e.label
    BY <2>7 DEF Label
  <2> QED
    BY <2>5, <2>6, <2>7, <2>12, <2>13 DEF Served
<1> QED
  BY <1>1, Invariance, PTL

\* A step of an import keeps the tables a file has, in their order, whatever
\* fails (write_config of nord.rs and ssh.rs).
LEMMA PrefixStep ==
    ASSUME ImportInv, ImportNext, NEW o \in Outputs,
           FileOf(o).state = "valid", FileOf(o)'.state = "valid"
    PROVE  IsPrefix(FileOf(o).config.tunnel, FileOf(o)'.config.tunnel)
<1>0. Types /\ Working
  BY DEF ImportInv
<1>1. IsFile(FileOf(o))
  BY <1>0 DEF FileOf, Types
<1>2. PICK t : t = FileOf(o).config.tunnel
  OBVIOUS
<1>3. IsSeq(t) /\ Len(t) \in Nat
  BY <1>1, <1>2, Files, Configurations DEF IsTables
<1>4. CASE FileOf(o)' = FileOf(o)
  BY <1>2, <1>3, <1>4 DEF IsPrefix
<1>5. ASSUME NEW b, IsTables(b), FileOf(o)' = Appended(FileOf(o), b)
      PROVE  IsPrefix(FileOf(o).config.tunnel, FileOf(o)'.config.tunnel)
  <2>1. FileOf(o) # Invalid
    BY Files
  <2>2. FileOf(o)'.config.tunnel = t \o b
    BY <1>1, <1>2, <1>5, <2>1, AppendedFacts
  <2>3. IsSeq(b) /\ Len(b) \in Nat
    BY <1>5, SeqFacts DEF IsTables
  <2>4. t \in Seq(Range(t) \cup Range(b)) /\ b \in Seq(Range(t) \cup Range(b))
    BY <1>3, <2>3, SeqFacts DEF IsSeq
  <2>5. SubSeq(t \o b, 1, Len(t)) = SubSeq(t, 1, Len(t)) /\ Len(t) <= Len(t \o b)
    BY <2>4
  <2> QED
    BY <1>2, <2>2, <2>5 DEF IsPrefix
<1>6. ASSUME NEW f, Put(f), IsFile(f), stage = "write"
      PROVE  FileOf(o)' = FileOf(o) \/ (FileOf(o)' = f /\ Old = FileOf(o))
  <2>1. command.output \in Outputs
    BY <1>0, <1>6, BlockFacts
  <2> QED
    BY <1>0, <1>6, <2>1, PutFacts, OldFile
<1>7. ASSUME NEW b, IsTables(b), Put(Appended(Old, b)), stage = "write"
      PROVE  IsPrefix(FileOf(o).config.tunnel, FileOf(o)'.config.tunnel)
  <2>1. PICK f : f = Appended(Old, b)
    OBVIOUS
  <2>2. IsFile(f) /\ Put(f)
    <3>1. command.output \in Outputs
      BY <1>0, <1>7, BlockFacts
    <3> QED
      BY <1>0, <1>7, <2>1, <3>1, OldFile, AppendedFacts
  <2> QED
    BY <1>4, <1>5, <1>6, <1>7, <2>1, <2>2
<1>8. CASE WriteConfig
  BY <1>0, <1>7, <1>8, BlockFacts DEF WriteConfig
<1>9. CASE WriteFails
  <2>1. stage = "write"
    BY <1>9 DEF WriteFails
  <2>2. CASE UNCHANGED <<primary, fallback>>
    BY <1>4, <2>2 DEF FileOf
  <2>3. CASE Put(Invalid)
    <3>1. FileOf(o)' = FileOf(o)
      BY <1>6, <2>1, <2>3, Files
    <3> QED
      BY <1>4, <3>1
  <2> QED
    BY <1>0, <1>7, <1>9, <2>1, <2>2, <2>3, WriteFailsShape
<1>10. CASE UNCHANGED <<primary, fallback>>
  BY <1>4, <1>10 DEF FileOf
<1>11. UNCHANGED <<primary, fallback>> \/ WriteConfig \/ WriteFails
  BY DEF ImportNext, ImportStep, Begin, FetchCredentials, FetchCountry, SkipCountry, FetchAny,
         Fetch, Generate, GenerateFails, StartSshTunnel, StartFails, NoPorts, PortsDone, Goes,
         Bail, Serve, env, Next, LoadUrls, LoadFile, LoadFails, Override, BadStrategy,
         BuildEntry, SkipEntry, BailEmpty, Listen, ListenFails, AcceptFails, CtrlC, Fail
<1> QED
  BY <1>8, <1>9, <1>10, <1>11

\* No import costs an entry that is in a file (the append of write_config): the
\* action property, for every file, command and failure.
THEOREM NoEntryLost == ImportSpec => OldEntriesKept
<1>1. ImportInv /\ [ImportNext]_<<vars, importVars>> =>
         [\A o \in Outputs :
             FileOf(o).state = "valid" /\ FileOf(o)'.state = "valid" =>
                 IsPrefix(FileOf(o).config.tunnel, FileOf(o)'.config.tunnel)]_<<vars, importVars>>
  BY PrefixStep
<1> QED
  BY <1>1, Invariance, PTL DEF ImportSpec, OldEntriesKept
===========================================================================
