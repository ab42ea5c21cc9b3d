----------------------------- MODULE MCStartup -----------------------------
(* The command lines, the [[tunnel]] tables and the imports TLC starts the *)
(* program with: each protocol with its fields and without, labelled or    *)
(* not; imports of servers with and without a key, of unknown countries,   *)
(* and of two countries the code takes for one.                            *)
EXTENDS Import

MCBadUrls == {Address("http", "", ""), Address("https", "user", "host:port")}

MCUrls ==
    {[scheme |-> s, rest |-> HostPort] :
        s \in {"", "socks5", "wireguard", "tor", "http"}}
    \cup {[scheme |-> "http-proxy", rest |-> a] : a \in {HostPort} \cup MCBadUrls}

MCEntry(p, l, a, f, c) ==
    [protocol |-> p, label |-> l, address |-> a, fields |-> f, circuits |-> c]

MCFileEntries ==
    {MCEntry("socks5", l, HostPort, {}, <<>>) : l \in {<<>>, <<"us">>}}
    \cup {MCEntry("socks5", <<"us">>, NoAddress, {}, <<>>)}
    \cup {MCEntry("http-proxy", <<"us">>, a, {}, <<>>) :
            a \in {NoAddress, HostPort, Address("http", "user:pass", "host:port")}
                  \cup MCBadUrls}
    \cup {MCEntry("wireguard", <<"us">>, NoAddress, f, <<>>) :
            f \in {{}, {"interface"}}}
    \cup {MCEntry("sentinel", <<"us">>, NoAddress, f, <<>>) :
            f \in {{"node", "deposit"}, {"node", "deposit", "wallet_key"}}}
    \cup {MCEntry("tor", <<"us">>, NoAddress, {}, c) : c \in {<<>>, <<0>>, <<2>>}}
    \cup {MCEntry("ipsec", <<"us">>, NoAddress, {}, <<>>)}

MCServer(n, id, c, k) == [name |-> n, country |-> id, code |-> c, key |-> k]

MCNordServers ==
    {MCServer("a", 114, "jp", TRUE), MCServer("b", 114, "jp", TRUE),
     MCServer("c", 228, "", TRUE), MCServer("d", 228, "us", FALSE)}

MCNordCommands ==
    [count : {1, 3}, countries : {<<>>, <<"US", "JP">>, <<"JP", "KR">>, <<"XX", "US">>}]

MCSshCommands ==
    [host : {"h"}, ports : {<<>>, <<1080>>, <<1080, 1081>>}, start : BOOLEAN]
    \cup {[host |-> "i", ports |-> <<1080, 1080>>, start |-> FALSE]}

MCOldFiles ==
    {Absent, Invalid,
     File("valid", [NoConfig EXCEPT !.tunnel =
         <<MCEntry("socks5", <<"us">>, HostPort, {}, <<>>)>>])}
===========================================================================
