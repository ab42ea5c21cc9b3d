------------------------------ MODULE Import ------------------------------
(***************************************************************************)
(* `houdinny import nord` (src/import/nord.rs) and `houdinny import ssh`   *)
(* (src/import/ssh.rs): commands that append [[tunnel]] tables to a config *)
(* file, which a later `houdinny` reads (Startup).  An import makes        *)
(* requests or starts ssh processes one after another, any of which may    *)
(* fail, and writes the file last.  The output is tunnels.toml, the        *)
(* fallback of Startup, unless --output names the other file.              *)
(***************************************************************************)
EXTENDS Startup

CONSTANTS
    NordServers,    \* what the recommendations API knows, see Server
    NordCommands,   \* --count and --countries of import nord
    SshCommands,    \* --host, --ports and --start of import ssh
    OldFiles,       \* the files an import may find
    MaxImports      \* bound on the imports made before the proxy is started

\* country: the API's id of the country; code: its code in locations, "" if
\* there is none; key: does the metadata hold a wireguard_udp public key?
Server == [name : STRING, country : Nat, code : STRING, key : BOOLEAN]

\* What a file that is valid says: a strategy and a list of tables, in which
\* circuits is an optional number.
Parsed(c) ==
    /\ c = [strategy |-> c.strategy, tunnel |-> c.tunnel] /\ c.strategy \in Strategies
    /\ c.tunnel \in Seq(Range(c.tunnel))
    /\ \A i \in DOMAIN c.tunnel : c.tunnel[i].circuits \in Seq(Nat)

ASSUME ImportAssumption ==
    /\ NordServers \subseteq Server
    /\ \A c \in NordCommands : c.count \in Nat /\ c.countries \in Seq(STRING)
    /\ \A c \in SshCommands : c.ports \in Seq(Nat) /\ c.start \in BOOLEAN
    /\ \A f \in OldFiles :
          f \in {Absent, Invalid} \/ (f = File("valid", f.config) /\ Parsed(f.config))
    /\ MaxImports \in Nat

VARIABLES
    command,        \* the import that runs, and the file it writes to
    stage,          \* where it is
    at,             \* the country or port it is at
    fetched,        \* all_servers
    imports,        \* imports made
    \* history
    reported,       \* the ssh commands that exited 0: import, place of the port
    written,        \* the tables imports have written to each file, with their places
    launched        \* the ssh commands of the imports that came to write

importVars == <<command, stage, at, fetched, imports, reported, written, launched>>

Outputs == {"primary", "fallback"}

NoCommand == [provider |-> "none", output |-> "fallback"]

Nord(c, o) == [provider |-> "nord", count |-> c.count,
               countries |-> c.countries, output |-> o]
Ssh(c, o)  == [provider |-> "ssh", host |-> c.host, ports |-> c.ports,
               start |-> c.start, output |-> o]

Commands ==
    {Nord(c, o) : c \in NordCommands, o \in Outputs}
    \cup {Ssh(c, o) : c \in SshCommands, o \in Outputs}

Idle == /\ command = NoCommand /\ stage = "none" /\ at = 1 /\ fetched = <<>>

ImportInit ==
    /\ Idle /\ imports = 0
    /\ reported = {} /\ written = [o \in Outputs |-> {}] /\ launched = {}
    /\ \/ Init                              \* the proxy alone
       \/ /\ tunnels = <<>> /\ strategyFlag = ""
          /\ primary \in OldFiles /\ fallback \in OldFiles
          /\ phase = "import" /\ config = NoConfig /\ next = 1 /\ transports = <<>>

proxyVars == <<tunnels, strategyFlag, phase, config, next, transports>>

---------------------------------------------------------------------------
(* The commands.                                                           *)

Begin ==
    /\ phase = "import" /\ stage = "none" /\ imports < MaxImports
    /\ \E c \in Commands :
          /\ command' = c
          /\ stage' = IF c.provider = "nord" THEN "credentials" ELSE "ports"
    /\ imports' = imports + 1
    /\ UNCHANGED <<primary, fallback, proxyVars, at, fetched, reported, written,
                   launched>>

\* The process exits; an error is printed, and nothing is undone.
Exit ==
    /\ command' = NoCommand /\ stage' = "none" /\ at' = 1 /\ fetched' = <<>>
    /\ UNCHANGED <<proxyVars, imports>>

Bail == Exit /\ UNCHANGED <<primary, fallback, reported, written, launched>>

Goes(s) ==
    /\ stage' = s
    /\ UNCHANGED <<primary, fallback, proxyVars, command, imports, written, launched>>

---------------------------------------------------------------------------
(* import nord.                                                            *)

FetchCredentials ==
    /\ stage = "credentials"
    /\ \/ Goes("servers") /\ UNCHANGED <<at, fetched, reported>>
       \/ Bail

\* country_code_to_id, as a table; KR has the number of JP.
CountryIds ==
    {<<"US", 228>>, <<"GB", 227>>, <<"UK", 227>>, <<"DE", 81>>, <<"JP", 114>>,
     <<"NL", 153>>, <<"CA", 38>>, <<"AU", 13>>, <<"FR", 74>>, <<"CH", 209>>,
     <<"SE", 208>>, <<"SG", 195>>, <<"HK", 97>>, <<"IT", 106>>, <<"ES", 202>>,
     <<"BR", 30>>, <<"IN", 100>>, <<"KR", 114>>}

CountryCodeToId(code) == {p[2] : p \in {q \in CountryIds : q[1] = code}}

\* A mutation: the share is rounded up.
PerCountryCeil(count, n) == (count + n - 1) \div n

PerCountry(count, n) == IF count \div n = 0 THEN 1 ELSE count \div n

\* The servers one request may bring: at most as many as its limit.
Responses(S, limit) == {q \in SeqOf(S, limit) : IsInjective(q)}

Fetch(S, limit) ==
    \/ /\ \E q \in Responses(S, limit) : fetched' = fetched \o q
       /\ at' = at + 1
       /\ Goes("servers") /\ UNCHANGED reported
    \/ Bail

Codes == command.countries

FetchCountry ==
    /\ stage = "servers" /\ at <= Len(Codes)
    /\ \E id \in CountryCodeToId(Codes[at]) :
          Fetch({s \in NordServers : s.country = id},
                PerCountry(command.count, Len(Codes)))

SkipCountry ==
    /\ stage = "servers" /\ at <= Len(Codes)
    /\ CountryCodeToId(Codes[at]) = {}
    /\ at' = at + 1
    /\ Goes("servers") /\ UNCHANGED <<fetched, reported>>

FetchAny ==
    /\ stage = "servers" /\ Codes = <<>> /\ at = 1
    /\ Fetch(NordServers, command.count)

AllFetched ==
    /\ stage = "servers" /\ at > (IF Codes = <<>> THEN 1 ELSE Len(Codes))

\* all_servers.truncate(count).
Truncated == SubSeq(fetched, 1, IF Len(fetched) < command.count
                                THEN Len(fetched) ELSE command.count)

\* generate_toml fails on the first server without a key.
Generate ==
    /\ AllFetched
    /\ Truncated # <<>> /\ \A i \in DOMAIN Truncated : Truncated[i].key
    /\ Goes("write") /\ UNCHANGED <<at, fetched, reported>>

GenerateFails ==
    /\ AllFetched
    /\ Truncated = <<>> \/ \E i \in DOMAIN Truncated : ~Truncated[i].key
    /\ Bail

NordEntry(s) ==
    [protocol |-> "wireguard",
     label |-> <<"nord", IF s.code = "" THEN "xx" ELSE s.code, s.name>>,
     address |-> Address("", "", "10.5.0.2/32"),
     fields |-> {"endpoint", "private_key", "public_key", "dns"},
     circuits |-> <<>>]

---------------------------------------------------------------------------
(* import ssh.                                                             *)

\* A mutation: a tunnel that does not start is passed over.
NextPort == at' = at + 1 /\ Goes("ports") /\ UNCHANGED <<fetched, reported>>

StartFails == Bail

\* All that is known of ssh -D -N -f is its exit status: without
\* ExitOnForwardFailure it is 0 also when the port was not bound, and the
\* process it left behind may end at any time.
StartSshTunnel ==
    /\ stage = "ports" /\ command.start /\ at <= Len(command.ports)
    /\ \/ /\ reported' = reported \cup {<<imports, at>>}
          /\ at' = at + 1
          /\ Goes("ports") /\ UNCHANGED fetched
       \/ StartFails

NoPorts == stage = "ports" /\ command.ports = <<>> /\ Bail

PortsDone ==
    /\ stage = "ports" /\ command.ports # <<>>
    /\ ~command.start \/ at > Len(command.ports)
    /\ Goes("write") /\ UNCHANGED <<at, fetched, reported>>

\* A mutation: the address is left out.
SshEntryBare(host, port) ==
    [protocol |-> "socks5", label |-> <<"ssh", host, port>>, address |-> NoAddress,
     fields |-> {}, circuits |-> <<>>]

SshEntry(host, port) ==
    [protocol |-> "socks5", label |-> <<"ssh", host, port>>, address |-> HostPort,
     fields |-> {}, circuits |-> <<>>]

---------------------------------------------------------------------------
(* write_config.                                                           *)

Block ==
    IF command.provider = "nord"
    THEN [i \in DOMAIN Truncated |-> NordEntry(Truncated[i])]
    ELSE [i \in DOMAIN command.ports |-> SshEntry(command.host, command.ports[i])]

Old == IF command.output = "primary" THEN primary ELSE fallback

\* A mutation: the file is opened for writing, not for appending.
Overwritten(f, b) == IF f = Invalid THEN f ELSE File("valid", [NoConfig EXCEPT !.tunnel = b])

\* The tables follow those of the file; a new one starts with [proxy].
Appended(f, b) ==
    IF f = Invalid THEN f ELSE File("valid", [f.config EXCEPT !.tunnel = @ \o b])

Put(f) ==
    /\ primary' = IF command.output = "primary" THEN f ELSE primary
    /\ fallback' = IF command.output = "fallback" THEN f ELSE fallback

\* What becomes of the history when the import comes to write.
Launches ==
    launched' = launched \cup
        {<<imports, i>> : i \in IF command.provider = "ssh" /\ command.start
                                THEN DOMAIN command.ports ELSE {}}

WriteConfig ==
    /\ stage = "write"
    /\ Put(Appended(Old, Block))
    /\ written' = [written EXCEPT ![command.output] = @ \cup
           {[place |-> Len(Old.config.tunnel) + i, entry |-> Block[i]] : i \in DOMAIN Block}]
    /\ Launches
    /\ Exit
    /\ UNCHANGED reported

\* The lines of a table between its protocol and its label, in the order of
\* generate_toml, and the table when only some of them were written.
Lines ==
    IF command.provider = "nord"
    THEN <<"endpoint", "private_key", "public_key", "address", "dns">>
    ELSE <<"address">>

Cut(e, ls) ==
    [e EXCEPT !.label = <<>>, !.address = IF "address" \in ls THEN @ ELSE NoAddress,
              !.fields = @ \cap ls]

\* The file cannot be opened, or a write stops half way: within a line, which
\* is not TOML then, between two tables, or between two lines of one.
WriteFails ==
    /\ stage = "write"
    /\ \/ UNCHANGED <<primary, fallback>>
       \/ Put(Invalid)
       \/ \E n \in 0..Len(Block) : Put(Appended(Old, SubSeq(Block, 1, n)))
       \/ \E n \in 0..(Len(Block) - 1), l \in 0..Len(Lines) :
             Put(Appended(Old, Append(SubSeq(Block, 1, n),
                                      Cut(Block[n + 1], Range(SubSeq(Lines, 1, l))))))
    /\ Launches
    /\ Exit
    /\ UNCHANGED <<reported, written>>

ImportStep ==
    \/ Begin \/ FetchCredentials \/ FetchCountry \/ SkipCountry \/ FetchAny
    \/ Generate \/ GenerateFails \/ StartSshTunnel \/ NoPorts \/ PortsDone
    \/ WriteConfig \/ WriteFails

\* The user starts the proxy, without flags.
Serve ==
    /\ phase = "import" /\ stage = "none"
    /\ phase' = "load"
    /\ UNCHANGED <<env, config, next, transports, importVars>>

ImportNext == ImportStep \/ Serve \/ (Next /\ UNCHANGED importVars)

ImportSpec == ImportInit /\ [][ImportNext]_<<vars, importVars>>

---------------------------------------------------------------------------
(* Properties.                                                             *)

FileOf(o) == IF o = "primary" THEN primary ELSE fallback

\* An import never costs an entry that is in a file: whatever step of it
\* fails, the file keeps its tables in their order and gets at most new ones
\* behind them, or, when a write stops inside a table, is no longer valid.
OldEntriesKept ==
    [][\A o \in Outputs :
          FileOf(o).state = "valid" /\ FileOf(o)'.state = "valid" =>
              IsPrefix(FileOf(o).config.tunnel, FileOf(o)'.config.tunnel)]_<<vars, importVars>>

\* The servers of import nord are shared out among the countries so that the
\* final truncation drops none of them, unless fewer were asked for than
\* countries were named: then the last countries get nothing.
CountriesShared ==
    command.provider = "nord" /\ (Codes = <<>> \/ Len(Codes) <= command.count) =>
        Truncated = fetched

\* One ssh that fails keeps the whole import from the file: with --start, an
\* import comes to write only when each of its ssh commands, one for each port,
\* has exited 0.  (Whether a port is served is more than the code knows.)
StartedBeforeWritten == launched \subseteq reported

\* What import ssh has written is what the next start serves, if the proxy
\* reads that file: from the table at each place that was written, behind what
\* the file had, comes a healthy transport with the host and port of the
\* table, whatever other imports, and failed ones, have left around it.
ImportedServed ==
    Serving /\ tunnels = <<>> =>
        LET o == IF primary = Absent THEN "fallback" ELSE "primary"
        IN  \A w \in written[o] :
              w.entry.protocol = "socks5" =>
                  \E k \in From(w.place) :
                      transports[k].healthy /\ transports[k].label = w.entry.label
===========================================================================
