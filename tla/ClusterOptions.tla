--------------------------- MODULE ClusterOptions ---------------------------
(***************************************************************************)
(* How the options of createInstance reach the C++ core: the constructor   *)
(* of Cluster copies and validates them, _connect merges them with those   *)
(* of the connection string (lib/cluster.ts), and jsConnect merges the     *)
(* result with the core's own defaults (src/connection.cpp).               *)
(*                                                                         *)
(* A timeout is modelled by where it came from: the name of the option     *)
(* that supplied it, "connstr" or "default". The nameserver and the port   *)
(* of the DNS options and the credential are JavaScript values, converted  *)
(* as Marshalling says. The core's parser of connection strings is         *)
(* external.                                                               *)
(***************************************************************************)
EXTENDS Marshalling, FiniteSets

CONSTANTS
    Inputs,   \* the calls of createInstance to consider
    Names,    \* texts: nameservers, user names, passwords
    Ports     \* numbers that are passed as a port

TimeoutOption == {"connectTimeout", "socketConnectTimeout", "resolveTimeout",
                  "dispatchTimeout", "queryTimeout", "managementTimeout"}
CoreTimeout == {"connect_timeout", "socket_connect_timeout", "resolve_timeout",
                "dispatch_timeout", "query_timeout", "management_timeout"}
Trust == {"capella", "pemFile", "pemString", "platform", "certificates"}

\* One call of createInstance: the options, and what the connection string has.
Call == [timeouts : [TimeoutOption -> {"absent", "zero", "positive", "negative"}],
         security : {"absent", "given"},
         trust : SUBSET Trust,               \* the trust options that are truthy
         noCertificates : BOOLEAN,           \* trustOnlyCertificates is an empty array
         disableVerification : BOOLEAN,
         nameserver : {Undefined} \cup {Text(s) : s \in Names},
         port : {Undefined} \cup {Number(n) : n \in Ports},
         dnsTimeout : {"absent", "zero", "number", "duration", "garbage"},
         credential : [username : {Text(s) : s \in Names}, password : {Text(s) : s \in Names}],
         strTimeouts : SUBSET CoreTimeout,
         strPemFile : {"absent", "empty", "file"},   \* security.trust_only_pem_file
         strDnsTimeout : {"absent", "duration", "garbage", "repeated"},
         strParse : {"ok", "warnings", "error"}]           \* the core's verdict

ASSUME InputsAssumption == Inputs \subseteq Call /\ Ports \subseteq Int

VARIABLES
    phase,       \* how far createInstance has come
    call,        \* its arguments
    timeouts,    \* Cluster._queryTimeout and its like, by field
    dsn,         \* the timeouts in dsnObj.options when conn.connect is called
    dnsConfig,   \* Cluster._dnsConfig, its dnsSrvTimeout by source and form
    security,    \* CppClusterSecurityOptions, and the verification option
    core,        \* what the cluster is opened with
    error        \* what createInstance throws

vars == <<phase, call, timeouts, dsn, dnsConfig, security, core, error>>

Field == {"_bootstrapTimeout", "_connectTimeout", "_resolveTimeout",
          "_dispatchTimeout", "_queryTimeout", "_managementTimeout"}
NoTimeouts == [f \in Field |-> "absent"]
NoDns == [given |-> FALSE, nameserver |-> Undefined, port |-> Undefined,
          source |-> "default", form |-> "absent"]
NoSecurity == [trust |-> {}, onlyCapella |-> FALSE, verify |-> TRUE]
DefaultDns == [nameserver |-> "from resolv.conf", port |-> 53]
NoCredentials == [username |-> "", password |-> "", allowed_sasl_mechanisms |-> Absent]
NotOpened == [timeouts |-> [t \in CoreTimeout |-> "default"], trust |-> {},
              verify |-> TRUE, dnsTimeout |-> "default", dns |-> DefaultDns,
              credentials |-> NoCredentials]

Init ==
    /\ phase = "new" /\ call \in Inputs
    /\ timeouts = NoTimeouts /\ dsn = [t \in CoreTimeout |-> "default"]
    /\ dnsConfig = NoDns
    /\ security = NoSecurity
    /\ core = NotOpened
    /\ error = "none"

Throw(e) ==
    /\ phase' = "threw" /\ error' = e
    /\ UNCHANGED <<call, timeouts, dsn, dnsConfig, security, core>>

-----------------------------------------------------------------------------
(* The constructor of Cluster *)

\* Bug: the two connect timeouts, whose fields are named after each other's
\* option, are mixed up.
SameNamedOption(field) ==
    CASE field = "_bootstrapTimeout"  -> "socketConnectTimeout"
      [] field = "_connectTimeout"    -> "connectTimeout"
      [] field = "_resolveTimeout"    -> "resolveTimeout"
      [] field = "_dispatchTimeout"   -> "dispatchTimeout"
      [] field = "_queryTimeout"      -> "queryTimeout"
      [] field = "_managementTimeout" -> "managementTimeout"

\* Which option each private field keeps.
OptionOf(field) ==
    CASE field = "_bootstrapTimeout"  -> "connectTimeout"
      [] field = "_connectTimeout"    -> "socketConnectTimeout"
      [] field = "_resolveTimeout"    -> "resolveTimeout"
      [] field = "_dispatchTimeout"   -> "dispatchTimeout"
      [] field = "_queryTimeout"      -> "queryTimeout"
      [] field = "_managementTimeout" -> "managementTimeout"

\* _validateTimeoutOptions: 0 is accepted, and later treated as absent.
TimeoutsAreValid == \A o \in TimeoutOption : call.timeouts[o] # "negative"

Kept(field) ==
    IF call.timeouts[OptionOf(field)] = "positive" THEN OptionOf(field) ELSE "absent"

\* The DNS options are kept when at least one of them is truthy.
HasDns ==
    ToBool(call.nameserver) \/ ToBool(call.port) \/ call.dnsTimeout \notin {"absent", "zero"}

KeptDns ==
    IF ~HasDns THEN NoDns
    ELSE [given |-> TRUE, nameserver |-> call.nameserver, port |-> call.port,
          source |-> IF call.dnsTimeout = "absent" THEN "default" ELSE "option",
          form |-> call.dnsTimeout]

Construct ==
    /\ phase = "new" /\ TimeoutsAreValid
    /\ phase' = "constructed"
    /\ timeouts' = [f \in Field |-> Kept(f)]
    /\ dnsConfig' = KeptDns
    /\ UNCHANGED <<call, dsn, security, core, error>>

ConstructThrows ==
    phase = "new" /\ ~TimeoutsAreValid /\ Throw("Error")

-----------------------------------------------------------------------------
(* _connect *)

\* Which field each option of the connection string is filled from; the field
\* of the management timeout is read by nothing.
FieldOf(t) ==
    CASE t = "connect_timeout"        -> "_bootstrapTimeout"
      [] t = "socket_connect_timeout" -> "_connectTimeout"
      [] t = "resolve_timeout"        -> "_resolveTimeout"
      [] t = "dispatch_timeout"       -> "_dispatchTimeout"
      [] t = "query_timeout"          -> "_queryTimeout"
      [] OTHER                        -> "none"

\* Bugs: an option replaces what the connection string says; an option that is
\* not set is forwarded all the same; both connect timeouts look for one key.
OptionWins(t) ==
    IF FieldOf(t) \in Field /\ timeouts[FieldOf(t)] # "absent" THEN timeouts[FieldOf(t)]
    ELSE IF t \in call.strTimeouts THEN "connstr" ELSE "default"
ForwardsUnset(t) ==
    IF t \in call.strTimeouts THEN "connstr"
    ELSE IF FieldOf(t) \in Field THEN timeouts[FieldOf(t)] ELSE "default"
LooksForOneKey(t) ==
    IF t \in call.strTimeouts THEN "connstr"
    ELSE IF t = "socket_connect_timeout" /\ "connect_timeout" \in call.strTimeouts
    THEN "default"
    ELSE IF FieldOf(t) \in Field /\ timeouts[FieldOf(t)] # "absent"
    THEN timeouts[FieldOf(t)] ELSE "default"

\* The connection string wins over the option, the option over the default.
Forwarded(t) ==
    IF t \in call.strTimeouts THEN "connstr"
    ELSE IF FieldOf(t) \in Field /\ timeouts[FieldOf(t)] # "absent"
    THEN timeouts[FieldOf(t)] ELSE "default"

\* Without securityOptions the constructor supplies trustOnlyCapella.
Requested == IF call.security = "absent" THEN {"capella"} ELSE call.trust

\* Bug: the count of trust options stops at two of the five.
CountsTwo == Cardinality(Requested \cap {"capella", "pemFile"}) > 1

\* A pem file in the connection string, be it an empty value, makes _connect skip
\* the trust options.
HasStrPemFile == call.strPemFile # "absent"
TooManyTrusts == Cardinality(Requested) > 1

\* CppClusterSecurityOptions: exactly one option, "capella" when none is given.
SecurityOptions ==
    IF HasStrPemFile THEN NoSecurity
    ELSE [trust |-> Requested \ {"capella"},
          onlyCapella |-> Requested \subseteq {"capella"},
          verify |-> ~(call.security = "given" /\ call.disableVerification)]

\* A DNS timeout in the connection string replaces that of the options, if it is
\* a string: a repeated one is an array of strings, and stays where it is.
WithStringDns(dns) ==
    IF call.strDnsTimeout \in {"absent", "repeated"} THEN dns
    ELSE [given |-> TRUE, nameserver |-> dns.nameserver, port |-> dns.port,
          source |-> "connstr", form |-> call.strDnsTimeout]

Connect ==
    /\ phase = "constructed"
    /\ HasStrPemFile \/ ~TooManyTrusts
    /\ phase' = "connecting"
    /\ dsn' = [t \in CoreTimeout |-> Forwarded(t)]
    /\ dnsConfig' = WithStringDns(dnsConfig)
    /\ security' = SecurityOptions
    /\ UNCHANGED <<call, timeouts, core, error>>

ConnectThrows ==
    /\ phase = "constructed"
    /\ ~HasStrPemFile /\ TooManyTrusts
    /\ Throw("InvalidArgumentError")

-----------------------------------------------------------------------------
(* jsConnect *)

\* The core trusts Capella until it is told something else; the flag of a pem
\* file is also set when the connection string supplied the file. No certificates,
\* and a pem file without a name, are no trust.
CoreTrust ==
    (IF call.noCertificates THEN security.trust \ {"certificates"} ELSE security.trust)
        \cup (IF security.onlyCapella THEN {"capella"} ELSE {})
        \cup (IF call.strPemFile = "file" THEN {"pemFile"} ELSE {})

\* Bug: a duration that cannot be parsed is taken for the default.
AcceptsGarbage == TRUE

DnsIsValid == dnsConfig.form # "garbage"

\* What jsConnect writes into the JavaScript object for an option that is not set:
\* the core's default, converted. It is converted back with the rest.
Filled(v, default) == IF IsUnset(v) THEN default ELSE v

\* Where the core's DNS timeout comes from: the DNS options, if they have one; if
\* not, jsConnect leaves or copies what the parser found in the connection string.
CoreDnsTimeout ==
    IF dnsConfig.source = "default" /\ call.strDnsTimeout = "repeated"
    THEN "connstr" ELSE dnsConfig.source

CoreDns ==
    IF ~dnsConfig.given THEN DefaultDns
    ELSE ToDnsConfig(Filled(dnsConfig.nameserver, Text(DefaultDns.nameserver)),
                     Filled(dnsConfig.port, Number(DefaultDns.port)))

\* _connect adds the mechanism to the user's name and password.
CoreCredentials ==
    ToCredentials(call.credential.username, call.credential.password, Array(<<Text("PLAIN")>>))

\* The warnings and errors of the core's parser; "Invalid option" becomes an
\* InvalidArgumentError in _connect.
JsConnect ==
    /\ phase = "connecting"
    /\ call.strParse = "ok" /\ DnsIsValid
    /\ phase' = "opened"
    /\ core' = [timeouts |-> dsn, trust |-> CoreTrust, verify |-> security.verify,
                dnsTimeout |-> CoreDnsTimeout, dns |-> CoreDns,
                credentials |-> CoreCredentials]
    /\ UNCHANGED <<call, timeouts, dsn, dnsConfig, security, error>>

JsConnectThrows ==
    /\ phase = "connecting"
    /\ \/ call.strParse = "warnings" /\ Throw("InvalidArgumentError")
       \/ call.strParse = "error" /\ Throw("Error")
       \/ call.strParse = "ok" /\ ~DnsIsValid /\ Throw("InvalidArgumentError")

Next ==
    \/ Construct \/ ConstructThrows
    \/ Connect \/ ConnectThrows
    \/ JsConnect \/ JsConnectThrows

Spec == Init /\ [][Next]_vars

-----------------------------------------------------------------------------
(* Properties *)

TypeOK ==
    /\ phase \in {"new", "constructed", "connecting", "opened", "threw"}
    /\ call \in Call
    /\ timeouts \in [Field -> TimeoutOption \cup {"absent"}]
    /\ dsn \in [CoreTimeout -> TimeoutOption \cup {"connstr", "default"}]
    /\ dnsConfig.source \in {"default", "option", "connstr"}
    /\ dnsConfig.form \in {"absent", "zero", "number", "duration", "garbage"}
    /\ security \in [trust : SUBSET Trust, onlyCapella : BOOLEAN, verify : BOOLEAN]
    /\ core.trust \subseteq Trust /\ core.verify \in BOOLEAN
    /\ error \in {"none", "Error", "InvalidArgumentError"}

Opened == phase = "opened"

\* The core timeout that the documentation of each option names
\* (lib/cluster.ts:38-68 and the translations at lib/cluster.ts:403-412).
Documented(o) ==
    CASE o = "connectTimeout"       -> "connect_timeout"
      [] o = "socketConnectTimeout" -> "socket_connect_timeout"
      [] o = "resolveTimeout"       -> "resolve_timeout"
      [] o = "dispatchTimeout"      -> "dispatch_timeout"
      [] o = "queryTimeout"         -> "query_timeout"
      [] o = "managementTimeout"    -> "management_timeout"

\* No core timeout is ever set from an option documented for another one, in
\* spite of the fields that are named after each other's option.
TimeoutsAreNotMixed ==
    Opened => \A o \in TimeoutOption, t \in CoreTimeout :
                  core.timeouts[t] = o => t = Documented(o)

\* A timeout of the connection string is never overridden by an option
\* (lib/cluster.ts:400), nor by the default. The DNS one is no exception as long as
\* it is given once; repeated, it yields to a timeout of the DNS options, and to
\* nothing else.
ConnectionStringWins ==
    Opened => /\ \A t \in call.strTimeouts : core.timeouts[t] = "connstr"
              /\ call.strDnsTimeout \in {"duration", "garbage"} => core.dnsTimeout = "connstr"
              /\ call.strDnsTimeout = "repeated" =>
                     core.dnsTimeout = IF HasDns /\ call.dnsTimeout # "absent"
                                       THEN "option" ELSE "connstr"

\* What the options and the connection string ask to trust: a pem file of the
\* connection string before an option, Capella when nothing is asked for.
Asked == IF HasStrPemFile THEN {"pemFile"}
         ELSE IF Requested = {} THEN {"capella"} ELSE Requested

\* A trust in nothing: a pem file without a name, or no certificates.
AskedIsEmpty ==
    call.strPemFile = "empty" \/ (Asked = {"certificates"} /\ call.noCertificates)

\* The cluster is opened with the one trust that was asked for and never with
\* two. What is asked for may be empty, which _connect does not notice: then no
\* trust is in force, and none takes its place, neither Capella, which is the
\* core's default, nor an option that the connection string has overruled.
OneTrust ==
    Opened => /\ Cardinality(Asked) = 1
              /\ core.trust = IF AskedIsEmpty THEN {} ELSE Asked

\* A DNS timeout that cannot be parsed, from either place, opens nothing.
BadDnsRefused ==
    Opened => /\ call.strDnsTimeout # "garbage"
              /\ call.strDnsTimeout # "duration" => call.dnsTimeout # "garbage"

\* A timeout option that is given and that the connection string leaves alone
\* becomes the core's, whatever else is given: all but managementTimeout, which is
\* documented like the others (lib/cluster.ts:49-52) and reaches nothing.
OptionsReachCore ==
    Opened => \A o \in TimeoutOption :
        (call.timeouts[o] = "positive" /\ Documented(o) \notin call.strTimeouts) =>
            core.timeouts[Documented(o)] = IF o = "managementTimeout" THEN "default" ELSE o

\* A nameserver, a port and a credential are the core's as they were given, across
\* two languages and a 16-bit integer; what is not given stays the core's
\* own, although jsConnect writes it to the JavaScript object and back as soon
\* as another DNS option is set (src/connection.cpp:154-198).
DnsArrives ==
    Opened =>
        /\ call.port.js = "number" /\ call.port.num \in 1..MaxUint16 => core.dns.port = call.port.num
        /\ IsUndefined(call.port) => core.dns.port = DefaultDns.port
        /\ ToBool(call.nameserver) => core.dns.nameserver = call.nameserver.text
        /\ IsUndefined(call.nameserver) => core.dns.nameserver = DefaultDns.nameserver
        /\ core.credentials = [username |-> call.credential.username.text,
                               password |-> call.credential.password.text,
                               allowed_sasl_mechanisms |-> Present(<<"PLAIN">>)]
=============================================================================
