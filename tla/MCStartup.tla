----------------------------- MODULE MCStartup -----------------------------
(***************************************************************************)
(* A small instance of the start of a proxy: two engines, two TCP addresses   *)
(* beside that of the metrics server, a Unix socket and one database.           *)
(***************************************************************************)
EXTENDS Startup

Tcp(at) == [proto |-> "tcp", kind |-> "socket", at |-> at]
Unix(at) == [proto |-> "unix", kind |-> "path", at |-> at]
Named(at) == [proto |-> "tcp", kind |-> "name", at |-> at]
Url == [proto |-> "http", kind |-> "name", at |-> "elsewhere"]

Plain(type, listen) ==
  [type |-> type, listen |-> listen, target |-> Tcp("elsewhere"), locations |-> {},
   tls |-> None, auth |-> None, upstream |-> None, allow |-> {}, deny |-> {},
   management |-> None]

Rule(family, bits, prefix) == [family |-> family, bits |-> bits, prefix |-> prefix]
Location(path, mode, pattern, provider) ==
  [path |-> path, mode |-> mode, pattern |-> pattern, provider |-> provider,
   response |-> FALSE, root |-> "directory"]
Tls(cert, mutual, ca) == [cert |-> cert, key |-> "pem", mutual |-> mutual, ca |-> ca]
Auth(kind, enabled, value) ==
  [kind |-> kind, enabled |-> enabled, value |-> value, secret |-> value]
Api(listen, enabled) == [listen |-> listen, enabled |-> enabled, db |-> "db"]

Engines ==
  {Plain("tcp", Tcp("a1")),
   [Plain("tcp", Tcp("a2")) EXCEPT !.allow = {Rule(4, 1, 1)}, !.deny = {Rule(4, 0, 2)}],
   Plain("tcp", Named("a2")),
   [Plain("http", Tcp("a1")) EXCEPT !.deny = {Rule(6, 0, 0), Rule(4, 3, None)}],
   [Plain("http", Tcp("a1")) EXCEPT !.allow = {Rule(6, 4, 1), Rule(6, 0, 0)}],
   [Plain("http", Unix("u1")) EXCEPT !.target = Unix("elsewhere"),
      !.locations = {Location("rooted", "Prefix", "plain", "static"),
                     Location("bare", "Regex", "regex", "proxy")}],
   [Plain("http", Tcp("a2")) EXCEPT
      !.locations = {Location("rooted", "PrefixRegex", "bad parameter", "proxy")}],
   [Plain("http", Tcp("a2")) EXCEPT
      !.locations = {Location("rooted", "PrefixRegex", "repetition", "proxy")},
      !.tls = Tls("junk", FALSE, None)],
   [Plain("http", Tcp("a2")) EXCEPT !.tls = Tls("pem", TRUE, None),
                                    !.auth = Auth("jwt", FALSE, None)],
   [Plain("http", Tcp("a2")) EXCEPT !.tls = Tls("pem", TRUE, "pem"),
                                    !.auth = Auth("header", TRUE, "given"),
                                    !.management = Api(Tcp("a1"), TRUE)],
   [Plain("http", Tcp("a2")) EXCEPT !.management = Api(Named("a2"), TRUE)],
   [Plain("forward", Tcp("a1")) EXCEPT !.target = Url, !.upstream = Url],
   [Plain("forward", Unix("u1")) EXCEPT !.management = Api(Tcp("a2"), FALSE)],
   Plain("forward", Named("a2")),
   Plain("tcp", Tcp("metrics"))}

\* Engines the others are started beside.
Neighbours ==
  {e \in Engines : e.type = "http" /\ e.listen.proto = "unix"}
    \cup {e \in Engines : e.management # None /\ e.management.enabled}
    \cup {Plain("forward", Named("a2"))}

MCConfigs ==
  {[n \in {} |-> None]} \cup {[n \in {"e1"} |-> e] : e \in Engines}
    \cup {[n \in {"e1", "e2"} |-> IF n = "e1" THEN e ELSE f] : e \in Engines, f \in Neighbours}

\* Ports that another program has, an address of no interface here, a path without its
\* directory.
MCOutside == {<<"a1", "other">>, <<"metrics", "other">>, <<"a2", "system">>, <<"u1", "system">>}

MCPeers == {[family |-> 4, bits |-> b] : b \in 0 .. 3}
             \cup {[family |-> 6, bits |-> b] : b \in {0, 5, 7}}
=============================================================================
