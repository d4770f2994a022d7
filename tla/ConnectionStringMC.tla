------------------------- MODULE ConnectionStringMC -------------------------
\* The connection strings that the runs of ConnectionString parse: a blank one,
\* refused ones, and every sequence of up to MaxTokens tokens as options.
EXTENDS ConnectionString

CONSTANTS MaxTokens, Tokens

Text(scheme, hosts, query) ==
    [scheme |-> scheme, hostPart |-> hosts # <<>>, hosts |-> hosts, bucket |-> "b",
     query |-> query]

OneHost == <<[name |-> "localhost", port |-> 0]>>

SomeTexts ==
    {Blank, Text("other", OneHost, <<>>), Text("couchbases", <<>>, <<>>)}
        \cup {Text("none", OneHost \o <<[name |-> "k", port |-> p]>>, <<>>) :
                  p \in {NoPort, 9011}}
        \cup {[Text("couchbases", <<>>, <<>>) EXCEPT !.hostPart = TRUE]}
        \cup {Text("couchbases", OneHost, q) :
                  q \in UNION {[1..n -> Tokens] : n \in 0..MaxTokens}}

\* A few long ones: repeated options, srv beside its translation, escapes.
LongTexts ==
    {Text("couchbases", OneHost, q) :
        q \in {<<"k", "=", "v", "&", "k", "=", "k", "?", "k", "=">>,
               <<"srv", "=", "v", "&", "enable_dns_srv", "=", "k", "&", "srv", "=", "k">>,
               <<"%26", "k", "=", "%3D", "=", "%26", "v", "&", "v">>}}

AllTexts == SomeTexts \cup LongTexts
=============================================================================
