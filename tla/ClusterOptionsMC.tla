-------------------------- MODULE ClusterOptionsMC --------------------------
\* The calls of createInstance that the runs of ClusterOptions consider: every
\* combination of timeouts with plain security, every combination of trust,
\* verification and DNS timeouts with plain timeouts, and every combination of
\* the DNS options and credentials with the rest plain.
EXTENDS ClusterOptions

SomeNames == {"", "ns", "user"}
SomePorts == {-1, 0, 1, 53, 32767, 32768, 65535, 65536, 70000}

PlainTimeouts == [o \in TimeoutOption |-> "absent"]
PlainCredential == [username |-> Text("user"), password |-> Text("")]

SomeTimeouts ==
    [TimeoutOption -> {"absent", "positive"}]
        \cup {[PlainTimeouts EXCEPT ![o] = v] : o \in TimeoutOption, v \in {"zero", "negative"}}

TimeoutCalls ==
    [timeouts : SomeTimeouts, strTimeouts : SUBSET CoreTimeout,
     dnsTimeout : {"absent", "number"}, strDnsTimeout : {"absent", "duration"},
     security : {"absent"}, trust : {{}}, disableVerification : {FALSE},
     nameserver : {Undefined}, port : {Undefined}, credential : {PlainCredential},
     noCertificates : {FALSE}, strPemFile : {"absent"}, strParse : {"ok"}]

\* With securityOptions, or without, when no trust is given.
SecurityCalls(given, trusts) ==
    [security : {given}, trust : trusts, disableVerification : BOOLEAN,
     noCertificates : BOOLEAN, strPemFile : {"absent", "empty", "file"},
     dnsTimeout : {"absent", "number", "duration", "garbage"},
     strDnsTimeout : {"absent", "duration", "garbage", "repeated"},
     strParse : {"ok", "warnings", "error"},
     timeouts : {PlainTimeouts}, strTimeouts : {{}},
     nameserver : {Undefined}, port : {Undefined}, credential : {PlainCredential}]

DnsCalls ==
    [nameserver : {Undefined} \cup {Text(s) : s \in SomeNames},
     port : {Undefined} \cup {Number(i) : i \in SomePorts},
     dnsTimeout : {"absent", "zero", "number"},
     strDnsTimeout : {"absent", "duration", "repeated"},
     credential : [username : {Text(s) : s \in SomeNames}, password : {Text(s) : s \in SomeNames}],
     timeouts : {PlainTimeouts}, strTimeouts : {{}}, security : {"absent"}, trust : {{}},
     disableVerification : {FALSE}, noCertificates : {FALSE}, strPemFile : {"absent"},
     strParse : {"ok"}]

Calls ==
    TimeoutCalls \cup SecurityCalls("given", SUBSET Trust) \cup SecurityCalls("absent", {{}})
        \cup DnsCalls
=============================================================================
