------------------------ MODULE ClusterOptionsProofs ------------------------
(***************************************************************************)
(* For every set of calls of createInstance: no option reaches the core as *)
(* another one or gets lost, the connection string wins, no trust but the  *)
(* one asked for is in force, and no unparseable DNS timeout opens a       *)
(* cluster.                                                                *)
(***************************************************************************)
EXTENDS ClusterOptions, FiniteSetTheorems, TLAPS

\* What each step has established for the next one, as a function of the call.
Constructed ==
    /\ timeouts = [f \in Field |-> Kept(f)]
    /\ dnsConfig = KeptDns
Connecting ==
    /\ timeouts = [f \in Field |-> Kept(f)]
    /\ dsn = [t \in CoreTimeout |-> Forwarded(t)]
    /\ dnsConfig = WithStringDns(KeptDns)
    /\ security = SecurityOptions
    /\ HasStrPemFile \/ ~TooManyTrusts
CoreIsGiven ==
    core = [timeouts |-> dsn, trust |-> CoreTrust, verify |-> security.verify,
            dnsTimeout |-> CoreDnsTimeout, dns |-> CoreDns, credentials |-> CoreCredentials]

IInv ==
    /\ call \in Call
    /\ phase \in {"new", "constructed", "connecting", "opened", "threw"}
    /\ phase = "constructed" => Constructed
    /\ phase \in {"connecting", "opened"} => Connecting
    /\ phase = "opened" => CoreIsGiven /\ DnsIsValid

LEMMA InitIInv == Init => IInv
BY InputsAssumption DEF Init, IInv

LEMMA NextIInv == IInv /\ [Next]_vars => IInv'
<1> SUFFICES ASSUME IInv, [Next]_vars PROVE IInv'
  OBVIOUS
<1>1. CASE Construct
  BY <1>1 DEF Construct, IInv, Constructed, Kept, KeptDns, HasDns
<1>2. CASE ConstructThrows
  BY <1>2 DEF ConstructThrows, Throw, IInv
<1>3. CASE Connect
  <2>1. Constructed /\ call' = call /\ timeouts' = timeouts /\ phase' = "connecting"
    BY <1>3 DEF Connect, IInv
  <2>2. (\A f \in Field : Kept(f)' = Kept(f)) /\ (\A t \in CoreTimeout : Forwarded(t)' = Forwarded(t))
    BY <2>1 DEF Kept, Forwarded
  <2>3. dnsConfig' = WithStringDns(KeptDns)'
    BY <1>3, <2>1 DEF Connect, Constructed, WithStringDns, KeptDns, HasDns
  <2>4. security' = SecurityOptions' /\ (HasStrPemFile \/ ~TooManyTrusts)'
    BY <1>3, <2>1 DEF Connect, SecurityOptions, HasStrPemFile, TooManyTrusts, Requested
  <2>5. Connecting'
    BY <1>3, <2>1, <2>2, <2>3, <2>4 DEF Connect, Constructed, Connecting
  <2> QED
    BY <2>1, <2>5 DEF IInv
<1>4. CASE ConnectThrows
  BY <1>4 DEF ConnectThrows, Throw, IInv
<1>5. CASE JsConnect
  <2>1. /\ Connecting /\ phase' = "opened" /\ DnsIsValid
        /\ UNCHANGED <<call, timeouts, dsn, dnsConfig, security>>
    BY <1>5 DEF JsConnect, IInv
  <2>2. Connecting'
    BY <2>1 DEF Connecting, Kept, Forwarded, WithStringDns, KeptDns, HasDns,
                SecurityOptions, HasStrPemFile, TooManyTrusts, Requested
  <2>3. CoreIsGiven' /\ DnsIsValid'
    BY <1>5, <2>1 DEF JsConnect, CoreIsGiven, CoreTrust, DnsIsValid, CoreDns, CoreDnsTimeout,
                     CoreCredentials
  <2> QED
    BY <2>1, <2>2, <2>3 DEF IInv
<1>6. CASE JsConnectThrows
  BY <1>6 DEF JsConnectThrows, Throw, IInv
<1>7. CASE UNCHANGED vars
  BY <1>7 DEF vars, IInv, Constructed, Connecting, CoreIsGiven, Kept, Forwarded,
              WithStringDns, KeptDns, HasDns, SecurityOptions, HasStrPemFile, TooManyTrusts,
              Requested,
              CoreTrust, CoreDns, CoreDnsTimeout, CoreCredentials, DnsIsValid
<1> QED
  BY <1>1, <1>2, <1>3, <1>4, <1>5, <1>6, <1>7 DEF Next

\* The arguments stay what they are, and each step has the results of the one
\* before it.
LEMMA InvariantHolds == Spec => []IInv
BY InitIInv, NextIInv, PTL DEF Spec

-----------------------------------------------------------------------------

\* No core timeout is set from an option documented for another one, in spite of
\* the fields _bootstrapTimeout and _connectTimeout (lib/cluster.ts:403-412).
THEOREM TimeoutNames == Spec => []TimeoutsAreNotMixed
<1>1. IInv => TimeoutsAreNotMixed
  <2> SUFFICES ASSUME IInv, Opened, NEW o \in TimeoutOption, NEW t \in CoreTimeout,
                      core.timeouts[t] = o
               PROVE  t = Documented(o)
    BY DEF TimeoutsAreNotMixed
  <2>1. Forwarded(t) = o /\ o \notin {"connstr", "default", "absent"}
    BY DEF IInv, Opened, Connecting, CoreIsGiven, TimeoutOption
  <2>2. FieldOf(t) \in Field /\ timeouts[FieldOf(t)] = o
    BY <2>1 DEF Forwarded
  <2>3. OptionOf(FieldOf(t)) = o
    BY <2>1, <2>2 DEF IInv, Opened, Connecting, Kept
  <2> QED
    BY <2>2, <2>3 DEF FieldOf, OptionOf, Documented, CoreTimeout, TimeoutOption, Field
<1> QED
  BY <1>1, InvariantHolds, PTL

\* A timeout option that is given reaches the core timeout it is documented for,
\* all but managementTimeout.
THEOREM OptionsArrive == Spec => []OptionsReachCore
<1>1. IInv => OptionsReachCore
  <2> SUFFICES ASSUME IInv, Opened, NEW o \in TimeoutOption,
                      call.timeouts[o] = "positive", Documented(o) \notin call.strTimeouts
               PROVE  core.timeouts[Documented(o)] =
                          IF o = "managementTimeout" THEN "default" ELSE o
    BY DEF OptionsReachCore
  <2> DEFINE t == Documented(o)
  <2>1. t \in CoreTimeout /\ o # "absent"
    BY DEF Documented, CoreTimeout, TimeoutOption
  <2>2. core.timeouts[t] = Forwarded(t)
    BY <2>1 DEF IInv, Opened, Connecting, CoreIsGiven
  <2>3. CASE o = "managementTimeout"
    <3>1. FieldOf(t) \notin Field
      BY <2>3 DEF FieldOf, Documented, Field
    <3> QED
      BY <2>2, <2>3, <3>1 DEF Forwarded
  <2>4. CASE o # "managementTimeout"
    <3>1. FieldOf(t) \in Field /\ OptionOf(FieldOf(t)) = o
      BY <2>4 DEF FieldOf, OptionOf, Documented, Field, TimeoutOption
    <3>2. timeouts[FieldOf(t)] = o
      BY <3>1 DEF IInv, Opened, Connecting, Kept
    <3> QED
      BY <2>1, <2>2, <2>4, <3>1, <3>2 DEF Forwarded
  <2> QED
    BY <2>3, <2>4
<1> QED
  BY <1>1, InvariantHolds, PTL

\* A timeout of the connection string is never overridden, the DNS one included
\* if it is given once; repeated, it yields only to the DNS options.
THEOREM Precedence == Spec => []ConnectionStringWins
<1>1. IInv => ConnectionStringWins
  <2> SUFFICES ASSUME IInv, Opened PROVE ConnectionStringWins
    BY DEF ConnectionStringWins
  <2>1. Connecting /\ CoreIsGiven /\ call.strTimeouts \subseteq CoreTimeout
    BY DEF IInv, Opened, Call
  <2>2. \A t \in call.strTimeouts : core.timeouts[t] = "connstr"
    BY <2>1 DEF Connecting, CoreIsGiven, Forwarded
  <2>3. core.dnsTimeout = CoreDnsTimeout /\ dnsConfig = WithStringDns(KeptDns)
    BY <2>1 DEF Connecting, CoreIsGiven
  <2>4. call.strDnsTimeout \in {"duration", "garbage"} => core.dnsTimeout = "connstr"
    BY <2>3 DEF CoreDnsTimeout, WithStringDns
  <2>5. call.strDnsTimeout = "repeated" =>
            core.dnsTimeout = IF HasDns /\ call.dnsTimeout # "absent"
                              THEN "option" ELSE "connstr"
    BY <2>3 DEF CoreDnsTimeout, WithStringDns, KeptDns, NoDns
  <2> QED
    BY <2>2, <2>4, <2>5 DEF ConnectionStringWins
<1> QED
  BY <1>1, InvariantHolds, PTL

\* A DNS timeout that cannot be parsed, from either place, opens nothing.
THEOREM NoGarbage == Spec => []BadDnsRefused
<1>1. IInv => BadDnsRefused
  <2> SUFFICES ASSUME IInv, Opened PROVE BadDnsRefused
    BY DEF BadDnsRefused
  <2>1. dnsConfig = WithStringDns(KeptDns) /\ dnsConfig.form # "garbage"
    BY DEF IInv, Opened, Connecting, DnsIsValid
  <2>2. call.strDnsTimeout \in {"absent", "duration", "garbage", "repeated"}
    BY DEF IInv, Call
  <2>3. call.strDnsTimeout # "garbage"
    BY <2>1, <2>2 DEF WithStringDns
  <2>4. ASSUME call.strDnsTimeout \in {"absent", "repeated"}, call.dnsTimeout = "garbage"
        PROVE  FALSE
    <3>1. HasDns
      BY <2>4 DEF HasDns
    <3> QED
      BY <2>1, <2>4, <3>1 DEF WithStringDns, KeptDns
  <2> QED
    BY <2>2, <2>3, <2>4 DEF BadDnsRefused
<1> QED
  BY <1>1, InvariantHolds, PTL

\* A set of options that are not too many is empty or has one member.
LEMMA NotTooMany ==
    ASSUME NEW S \in SUBSET Trust, ~(Cardinality(S) > 1)
    PROVE  S = {} \/ \E x : S = {x}
<1>1. IsFiniteSet(S)
  <2>1. IsFiniteSet(Trust)
    <3>1. IsFiniteSet({}) /\ \A T, x : IsFiniteSet(T) => IsFiniteSet(T \cup {x})
      BY FS_EmptySet, FS_AddElement
    <3>2. IsFiniteSet((((({} \cup {"capella"}) \cup {"pemFile"}) \cup {"pemString"})
                          \cup {"platform"}) \cup {"certificates"})
      BY <3>1, Zenon
    <3>3. Trust = (((({} \cup {"capella"}) \cup {"pemFile"}) \cup {"pemString"})
                          \cup {"platform"}) \cup {"certificates"}
      BY DEF Trust
    <3> QED
      BY <3>2, <3>3
  <2> QED
    BY <2>1, FS_Subset
<1> SUFFICES ASSUME NEW x \in S, NEW y \in S PROVE x = y
  OBVIOUS
<1> SUFFICES ASSUME x # y PROVE FALSE
  OBVIOUS
<1>2. IsFiniteSet({y}) /\ IsFiniteSet({x, y}) /\ Cardinality({x, y}) = 2
  <2>1. IsFiniteSet({y}) /\ Cardinality({y}) = 1
    BY FS_Singleton
  <2>2. {x, y} = {y} \cup {x} /\ x \notin {y}
    OBVIOUS
  <2> QED
    BY <2>1, <2>2, FS_AddElement
<1>3. Cardinality({x, y}) <= Cardinality(S)
  BY <1>1, FS_Subset
<1>4. Cardinality(S) \in Nat
  BY <1>1, FS_CardinalityType
<1> QED
  BY <1>2, <1>3, <1>4

\* The cluster is opened with the one trust that was asked for, or with none if
\* what was asked for is empty: never with two, and never with another one
\* (lib/cluster.ts:456-507, src/connection.cpp:108-152).
THEOREM TrustIsUnique == Spec => []OneTrust
<1>1. IInv => OneTrust
  <2> SUFFICES ASSUME IInv, Opened PROVE OneTrust
    BY DEF OneTrust
  <2>1. /\ core.trust = CoreTrust /\ security = SecurityOptions
        /\ HasStrPemFile \/ ~TooManyTrusts
        /\ Requested \in SUBSET Trust
        /\ call.strPemFile \in {"absent", "empty", "file"}
    BY DEF IInv, Opened, Connecting, CoreIsGiven, Call, Requested, Trust
  <2>2. CASE HasStrPemFile
    <3>1. Asked = {"pemFile"} /\ (AskedIsEmpty <=> call.strPemFile = "empty")
      BY <2>2 DEF Asked, AskedIsEmpty
    <3>2. security.trust = {} /\ ~security.onlyCapella
      BY <2>1, <2>2 DEF SecurityOptions, NoSecurity
    <3>3. core.trust = IF call.strPemFile = "empty" THEN {} ELSE {"pemFile"}
      BY <2>1, <2>2, <3>2 DEF CoreTrust, HasStrPemFile
    <3> QED
      BY <3>1, <3>3, FS_Singleton DEF OneTrust
  <2>3. CASE ~HasStrPemFile
    <3>1. Requested = {} \/ \E x : Requested = {x}
      BY <2>1, <2>3, NotTooMany DEF TooManyTrusts
    <3>2. PICK x : Asked = {x} /\ (Requested = {} => x = "capella")
      BY <2>3, <3>1 DEF Asked
    <3>3. /\ security.trust = Asked \ {"capella"}
          /\ security.onlyCapella <=> Asked = {"capella"}
      BY <2>1, <2>3, <3>1, <3>2 DEF SecurityOptions, Asked
    <3>4. AskedIsEmpty <=> x = "certificates" /\ call.noCertificates
      BY <2>3, <3>2 DEF AskedIsEmpty, HasStrPemFile
    <3>5. core.trust = IF AskedIsEmpty THEN {} ELSE {x}
      <4>1. call.strPemFile # "file"
        BY <2>3 DEF HasStrPemFile
      <4>2. CASE x = "capella"
        BY <2>1, <3>2, <3>3, <3>4, <4>1, <4>2 DEF CoreTrust
      <4>3. CASE x # "capella"
        BY <2>1, <3>2, <3>3, <3>4, <4>1, <4>3 DEF CoreTrust
      <4> QED
        BY <4>2, <4>3
    <3> QED
      BY <3>2, <3>5, FS_Singleton DEF OneTrust
  <2> QED
    BY <2>2, <2>3
<1> QED
  BY <1>1, InvariantHolds, PTL

\* A JavaScript text is converted to itself, and back.
LEMMA TextArrives == \A t : ToText(Text(t)) = t
BY DEF ToText, Text

\* A 16-bit number is converted to itself.
LEMMA NumberArrives ==
    ASSUME NEW n \in 0..MaxUint16
    PROVE  ToUint16(Number(n)) = n
<1>1. MaxUint16 \in Nat
  BY DEF MaxUint16
<1>2. n \in 0..MaxUint16 /\ n % (MaxUint16 + 1) = n
  BY <1>1
<1>3. ToInt64(Number(n)) = n
  BY DEF ToInt64, Number
<1> QED
  BY <1>2, <1>3 DEF ToUint16

LEMMA NumberIsTrue ==
    ASSUME NEW n \in Int, n # 0
    PROVE  ToBool(Number(n))
<1>1. Number(n).js = "number" /\ Number(n).num # 0
  BY DEF Number
<1> QED
  BY <1>1, Zenon DEF ToBool

\* A nameserver, a port and a credential are the core's as they were given, and
\* what is not given stays the core's own (src/connection.cpp:154-198).
THEOREM ValuesArrive == Spec => []DnsArrives
<1>1. IInv => DnsArrives
  <2> SUFFICES ASSUME IInv, Opened PROVE DnsArrives
    BY Zenon DEF DnsArrives
  <2>1. /\ core.dns = CoreDns /\ core.credentials = CoreCredentials
        /\ dnsConfig = WithStringDns(KeptDns)
    BY DEF IInv, Opened, Connecting, CoreIsGiven
  <2>2. /\ call.port = Undefined \/ \E n \in Int : call.port = Number(n)
        /\ call.nameserver = Undefined \/ \E t : call.nameserver = Text(t)
        /\ \E u, w : call.credential = [username |-> Text(u), password |-> Text(w)]
    BY InputsAssumption DEF IInv, Call
  <2>3. /\ HasDns => /\ dnsConfig.given
                     /\ dnsConfig.nameserver = call.nameserver
                     /\ dnsConfig.port = call.port
        /\ ~HasDns => dnsConfig.nameserver = Undefined /\ dnsConfig.port = Undefined
    <3>1. CASE HasDns
      BY <2>1, <3>1 DEF WithStringDns, KeptDns
    <3>2. CASE ~HasDns
      BY <2>1, <3>2 DEF WithStringDns, KeptDns, NoDns
    <3> QED
      BY <3>1, <3>2
  <2>4. /\ core.dns.port = IF dnsConfig.given
                           THEN ToUint16(Filled(dnsConfig.port, Number(DefaultDns.port)))
                           ELSE DefaultDns.port
        /\ core.dns.nameserver =
               IF dnsConfig.given
               THEN ToText(Filled(dnsConfig.nameserver, Text(DefaultDns.nameserver)))
               ELSE DefaultDns.nameserver
    BY <2>1 DEF CoreDns, ToDnsConfig
  <2>5. ToUint16(Number(DefaultDns.port)) = DefaultDns.port
    <3>1. DefaultDns.port \in 0..MaxUint16
      BY DEF DefaultDns, MaxUint16
    <3> QED
      BY <3>1, NumberArrives
  <2>6. ASSUME call.port.js = "number", call.port.num \in 1..MaxUint16
        PROVE  core.dns.port = call.port.num
    <3>1. PICK n \in Int : call.port = Number(n)
      <4>1. Undefined.js # "number"
        BY DEF Undefined
      <4>2. ASSUME call.port = Undefined PROVE FALSE
        BY <2>6, <4>1, <4>2, Zenon
      <4> QED
        BY <2>2, <4>2, Zenon
    <3>2. n \in 1..MaxUint16
      <4>1. Number(n).num = n
        BY DEF Number
      <4> QED
        BY <2>6, <3>1, <4>1, Zenon
    <3>3. dnsConfig.given /\ dnsConfig.port = Number(n)
      <4>1. ToBool(Number(n))
        BY <3>2, NumberIsTrue
      <4>2. HasDns
        BY <3>1, <4>1, Zenon DEF HasDns
      <4> QED
        BY <2>3, <3>1, <4>2, Zenon
    <3>4. Filled(Number(n), Number(DefaultDns.port)) = Number(n)
      BY DEF Filled, IsUnset, Number
    <3>5. ToUint16(Number(n)) = n
      <4>1. n \in 0..MaxUint16
        BY <3>2
      <4> QED
        BY <4>1, NumberArrives
    <3> QED
      BY <2>4, <3>1, <3>3, <3>4, <3>5 DEF Number
  <2>7. ASSUME IsUndefined(call.port) PROVE core.dns.port = DefaultDns.port
    <3>1. call.port = Undefined
      <4>1. ASSUME NEW n \in Int, call.port = Number(n) PROVE FALSE
        BY <2>7, <4>1 DEF IsUndefined, Number
      <4> QED
        BY <2>2, <4>1
    <3>2. Filled(Undefined, Number(DefaultDns.port)) = Number(DefaultDns.port)
      BY DEF Filled, IsUnset, Undefined
    <3> QED
      BY <2>3, <2>4, <2>5, <3>1, <3>2
  <2>8. ASSUME ToBool(call.nameserver) PROVE core.dns.nameserver = call.nameserver.text
    <3>1. PICK t : call.nameserver = Text(t)
      <4>1. ~ToBool(Undefined)
        BY DEF Undefined, ToBool
      <4>2. ASSUME call.nameserver = Undefined PROVE FALSE
        BY <2>8, <4>1, <4>2, Zenon
      <4> QED
        BY <2>2, <4>2, Zenon
    <3>2. dnsConfig.given /\ dnsConfig.nameserver = Text(t)
      BY <2>3, <2>8, <3>1, Zenon DEF HasDns
    <3>3. Filled(Text(t), Text(DefaultDns.nameserver)) = Text(t)
      BY DEF Filled, IsUnset, Text
    <3> QED
      BY <2>4, <3>1, <3>2, <3>3, TextArrives DEF Text
  <2>9. ASSUME IsUndefined(call.nameserver) PROVE core.dns.nameserver = DefaultDns.nameserver
    <3>1. call.nameserver = Undefined
      <4>1. ASSUME NEW t, call.nameserver = Text(t) PROVE FALSE
        BY <2>9, <4>1 DEF IsUndefined, Text
      <4> QED
        BY <2>2, <4>1
    <3>2. Filled(Undefined, Text(DefaultDns.nameserver)) = Text(DefaultDns.nameserver)
      BY DEF Filled, IsUnset, Undefined
    <3> QED
      BY <2>3, <2>4, <3>1, <3>2, TextArrives
  <2>10. core.credentials = [username |-> call.credential.username.text,
                             password |-> call.credential.password.text,
                             allowed_sasl_mechanisms |-> Present(<<"PLAIN">>)]
    <3>1. PICK u, w : call.credential = [username |-> Text(u), password |-> Text(w)]
      BY <2>2
    <3> DEFINE plain == Array(<<Text("PLAIN")>>)
    <3>2. ToTexts(plain) = <<"PLAIN">>
      <4>1. ~IsUnset(plain) /\ plain.items = <<Text("PLAIN")>>
        BY DEF IsUnset, Array
      <4>2. ToTexts(plain) = [i \in 1..Len(plain.items) |-> ToText(plain.items[i])]
        BY <4>1 DEF ToTexts
      <4> QED
        BY <4>1, <4>2, TextArrives
    <3>3. ToOptional(plain, ToTexts(plain)) = Present(<<"PLAIN">>)
      BY <3>2 DEF ToOptional, IsUndefined, Array
    <3>4. /\ call.credential.username = Text(u) /\ call.credential.password = Text(w)
          /\ Text(u).text = u /\ Text(w).text = w
      BY <3>1 DEF Text
    <3>5. CoreCredentials = [username |-> ToText(Text(u)), password |-> ToText(Text(w)),
                             allowed_sasl_mechanisms |-> Present(<<"PLAIN">>)]
      BY <3>3, <3>4 DEF CoreCredentials, ToCredentials
    <3> QED
      BY <2>1, <3>4, <3>5, TextArrives
  <2> QED
    BY <2>6, <2>7, <2>8, <2>9, <2>10 DEF DnsArrives
<1> QED
  BY <1>1, InvariantHolds, PTL

-----------------------------------------------------------------------------

LEMMA OptionNames ==
    /\ \A f \in Field : OptionOf(f) \in TimeoutOption
    /\ Requested \subseteq Trust \/ call \notin Call
<1>1. \A f \in Field : OptionOf(f) \in TimeoutOption
  BY DEF OptionOf, Field, TimeoutOption
<1>2. Requested \subseteq Trust \/ call \notin Call
  BY DEF Requested, Call, Trust
<1> QED
  BY <1>1, <1>2

\* Whatever the arguments, every stage of createInstance hands on values of the
\* kinds the next one expects.
THEOREM OptionsTypeCorrect == Spec => []TypeOK
<1>1. Init => TypeOK
  BY InputsAssumption
     DEF Init, TypeOK, NoTimeouts, NoDns, NoSecurity, NotOpened, Field, CoreTimeout
<1>2. TypeOK /\ [Next]_vars => TypeOK'
  <2> SUFFICES ASSUME TypeOK, [Next]_vars PROVE TypeOK'
    OBVIOUS
  <2>0. call \in Call /\ Requested \subseteq Trust
    BY OptionNames DEF TypeOK
  <2>1. CASE Construct
    <3>1. timeouts' \in [Field -> TimeoutOption \cup {"absent"}]
      BY <2>1, OptionNames DEF Construct, Kept
    <3>2. /\ dnsConfig'.source \in {"default", "option", "connstr"}
          /\ dnsConfig'.form \in {"absent", "zero", "number", "duration", "garbage"}
      BY <2>0, <2>1 DEF Construct, KeptDns, NoDns, Call
    <3> QED
      BY <2>1, <3>1, <3>2 DEF Construct, TypeOK
  <2>2. CASE Connect
    <3>1. dsn' \in [CoreTimeout -> TimeoutOption \cup {"connstr", "default"}]
      BY <2>2 DEF Connect, Forwarded, TypeOK
    <3>2. /\ dnsConfig'.source \in {"default", "option", "connstr"}
          /\ dnsConfig'.form \in {"absent", "zero", "number", "duration", "garbage"}
      BY <2>0, <2>2 DEF Connect, WithStringDns, TypeOK, Call
    <3>3. security' \in [trust : SUBSET Trust, onlyCapella : BOOLEAN, verify : BOOLEAN]
      BY <2>0, <2>2 DEF Connect, SecurityOptions, NoSecurity
    <3> QED
      BY <2>2, <3>1, <3>2, <3>3 DEF Connect, TypeOK
  <2>3. CASE JsConnect
    <3>1. core'.trust \subseteq Trust /\ core'.verify \in BOOLEAN
      BY <2>3 DEF JsConnect, CoreTrust, TypeOK, Trust
    <3> QED
      BY <2>3, <3>1 DEF JsConnect, TypeOK
  <2>4. CASE ConstructThrows \/ ConnectThrows \/ JsConnectThrows
    BY <2>4 DEF ConstructThrows, ConnectThrows, JsConnectThrows, Throw, TypeOK
  <2>5. CASE UNCHANGED vars
    BY <2>5 DEF vars, TypeOK
  <2> QED
    BY <2>1, <2>2, <2>3, <2>4, <2>5 DEF Next
<1> QED
  BY <1>1, <1>2, PTL DEF Spec
=============================================================================
