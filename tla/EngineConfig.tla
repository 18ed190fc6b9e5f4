---------------------------- MODULE EngineConfig ----------------------------
(***************************************************************************)
(* What an engine configuration must fulfil: for the strict validation of     *)
(* the loader, and for the code that starts the engine.  The two were          *)
(* written apart and do not ask the same.                                     *)
(*                                                                         *)
(* An address is [proto, kind, at]: the text before ://, whether the rest is  *)
(* an ip:port (socket), a host:port (name), a path, empty or junk, and which   *)
(* address it is.  A file is "missing", "empty" (an empty path), "junk" (no     *)
(* PEM section in it, or a key that is not the certificate's) or "pem".  The     *)
(* pattern of a location is "plain", a "regex", a "parameter" {id}, a           *)
(* "repetition" x{2}, or has a "bad parameter" {a b}.                           *)
(***************************************************************************)
EXTENDS AddressFilter

CONSTANT None  \* an option the configuration leaves out

ASSUME NoneAssumption == None \notin {"given", ""}

-----------------------------------------------------------------------------
(* The configuration of an engine, as far as validation and start look at it.  *)

Option(S) == S \cup {None}

\* Whatever follows unix:// is a path.
AddressShape ==
  {a \in [proto : {"tcp", "unix", "http", "https", "other"},
          kind : {"socket", "name", "path", "empty", "junk"}, at : STRING] :
     a.proto = "unix" => a.kind \in {"path", "empty"}}

LocationShape ==
  [path : {"rooted", "bare", "empty"}, mode : {"Full", "Prefix", "Regex", "PrefixRegex"},
   pattern : {"plain", "regex", "parameter", "repetition", "bad parameter"},
   provider : Option({"proxy", "mock", "static"}), response : BOOLEAN,
   root : Option({"directory", "empty"})]

File == {"missing", "empty", "junk", "pem"}
TlsShape == [cert : File, key : File, mutual : BOOLEAN, ca : Option(File)]

AuthShape ==
  [kind : {"header", "jwt", "other"}, enabled : BOOLEAN,
   value : Option({"given", ""}), secret : Option({"given", ""})]

ManagementShape == [listen : Option(AddressShape), enabled : BOOLEAN, db : STRING]

RuleShape == [family : {4, 6, None}, bits : Nat, prefix : Option(Nat)]

EngineShape ==
  [type : {"tcp", "http", "forward"}, listen : AddressShape, target : AddressShape,
   locations : SUBSET LocationShape, tls : Option(TlsShape), auth : Option(AuthShape),
   upstream : Option(AddressShape), allow : SUBSET RuleShape, deny : SUBSET RuleShape,
   management : Option(ManagementShape)]

-----------------------------------------------------------------------------
(* validate_engine_config.                                                   *)

ValidListen(a) ==
  \/ a.proto = "tcp" /\ a.kind = "socket"
  \/ a.proto = "unix" /\ a.kind # "empty"

ValidTarget(a) ==
  \/ a.proto = "tcp" /\ a.kind = "socket"
  \/ a.proto = "unix" /\ a.kind # "empty"
  \/ a.proto \in {"http", "https"} /\ a.kind \in {"socket", "name"}

TypeFits(e) ==
  CASE e.type = "tcp"     -> e.listen.proto = "tcp" /\ e.target.proto = "tcp"
    [] e.type = "http"    -> {e.listen.proto, e.target.proto} \subseteq {"tcp", "unix"}
    [] e.type = "forward" -> e.listen.proto = "tcp"

\* The location as the regular expression it is taken for: the braces of a parameter
\* are a repetition without a number, which does not compile.
RawPatternCompiles(loc) == loc.pattern \in {"plain", "regex", "repetition"}

ValidPath(loc) ==
  /\ loc.path # "empty"
  /\ loc.mode \in {"Prefix", "PrefixRegex"} => loc.path = "rooted"
  /\ loc.mode \in {"Regex", "PrefixRegex"} => RawPatternCompiles(loc)

\* A location of which only the provider is looked at.
ValidProvider(loc) ==
  /\ loc.provider = "mock" => loc.response
  /\ loc.provider = "static" => loc.root = "directory"

ValidLocation(loc) == ValidPath(loc) /\ ValidProvider(loc)

\* The files have to be there; what is in them is not looked at.
ValidTls(tls) ==
  /\ tls.cert \in {"junk", "pem"} /\ tls.key \in {"junk", "pem"}
  /\ (tls.mutual /\ tls.ca # None) => tls.ca \in {"junk", "pem"}

\* A disabled authentication is not looked at.
ValidAuth(auth) ==
  \/ ~auth.enabled
  \/ auth.kind = "header" /\ auth.value # None
  \/ auth.kind = "jwt" /\ auth.secret = "given"

\* validate_cidr: here a rule needs its prefix.
ValidCidr(rule) == rule.family \in {4, 6} /\ rule.prefix # None /\ IsRule(rule, None)

ValidUpstream(upstream) == upstream.kind # "junk"

Given(option, Valid(_)) == option # None => Valid(option)

\* A validation that leaves the locations to the router.
ValidatesButLocations(e) ==
  /\ ValidListen(e.listen) /\ ValidTarget(e.target) /\ TypeFits(e)
  /\ Given(e.tls, ValidTls) /\ Given(e.auth, ValidAuth) /\ Given(e.upstream, ValidUpstream)
  /\ \A rule \in e.allow \cup e.deny : ValidCidr(rule)

Validates(e) ==
  /\ ValidListen(e.listen) /\ ValidTarget(e.target) /\ TypeFits(e)
  /\ \A loc \in e.locations : ValidLocation(loc)
  /\ Given(e.tls, ValidTls) /\ Given(e.auth, ValidAuth) /\ Given(e.upstream, ValidUpstream)
  /\ \A rule \in e.allow \cup e.deny : ValidCidr(rule)

-----------------------------------------------------------------------------
(* What starting the engine asks.                                            *)

\* Address::parse, for the TCP engine.
AddressParses(a) == (a.proto = "tcp" /\ a.kind = "socket") \/ a.proto = "unix"

\* Cidr::parse: an address with or without a prefix that fits.
FilterBuilds(e) == \A rule \in e.allow \cup e.deny : IsRule(rule, None)

\* IpFilter::from_config.
Filtered(e) == e.allow # {} \/ e.deny # {}
Rules(rules) == {Parsed(rule, None) : rule \in rules}

\* pattern_to_regex: a parameter becomes a group of its name, everything else that is
\* special in a regular expression is escaped; what stands between braces and is no
\* name, a number among it, fails.
RouteCompiles(loc) ==
  loc.mode \in {"Regex", "PrefixRegex"} => loc.pattern \notin {"repetition", "bad parameter"}

\* HttpRequestHandler::new: the secret is asked for although the check is disabled.
AuthBuilds(auth) == auth.kind = "jwt" => auth.secret # None

HandlerBuilds(e) ==
  /\ \A loc \in e.locations : RouteCompiles(loc)
  /\ Given(e.auth, AuthBuilds)

\* TlsConfig::from_pem_files: a certificate and the key that belongs to it.
PairLoads(tls) == tls.cert = "pem" /\ tls.key = "pem"

\* TlsConfig::with_client_ca.
CaLoads(tls) == tls.ca = "pem"

\* HttpServer::new_with_tls: a mutual configuration needs the CA of its clients.
TlsBuilds(tls) == PairLoads(tls) /\ (tls.mutual => tls.ca # None /\ CaLoads(tls))

\* Everything the engine checks before it binds.
Builds(e) ==
  CASE e.type = "tcp"  -> AddressParses(e.listen) /\ AddressParses(e.target) /\ FilterBuilds(e)
    [] e.type = "http" -> HandlerBuilds(e) /\ FilterBuilds(e) /\ Given(e.tls, TlsBuilds)
    [] e.type = "forward" -> TRUE

\* Whether the listen address can be bound at all: StreamListener::new wants one of
\* the two schemes, the forward engine strips either and binds a TCP address.
Bindable(e) ==
  IF e.type = "forward" THEN e.listen.kind \in {"socket", "name"}
  ELSE \/ e.listen.proto = "tcp" /\ e.listen.kind \in {"socket", "name"}
       \/ e.listen.proto = "unix" /\ e.listen.kind = "path"

-----------------------------------------------------------------------------
\* What the strict validation lets pass and the start refuses: a repetition, which the
\* router takes for a parameter, a secret missing from an authentication that is switched
\* off, files that make no key pair, and mutual TLS without a CA.
PassesUnbuilt(e) ==
  /\ e.type = "http"
  /\ \/ \E loc \in e.locations : ~RouteCompiles(loc) /\ loc.pattern = "repetition"
     \/ e.auth # None /\ ~e.auth.enabled /\ ~AuthBuilds(e.auth)
     \/ e.tls # None /\ ~TlsBuilds(e.tls)
=============================================================================
