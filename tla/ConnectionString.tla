-------------------------- MODULE ConnectionString --------------------------
(***************************************************************************)
(* ConnSpec.parse and ConnSpec.toString (lib/connspec.ts), as a sequence   *)
(* of calls: parse splits the options with a regular expression that all   *)
(* calls share, and that remembers where its last match ended (kvMatcher   *)
(* and its lastIndex).                                                     *)
(*                                                                         *)
(* A connection string is modelled after partsMatcher and hostMatcher have *)
(* split it: scheme, whether it has a host part and the hosts found there, *)
(* bucket, and its options as a sequence of tokens, each a name, one of    *)
(* the characters that mean something, or such a character escaped.        *)
(***************************************************************************)
EXTENDS Integers, Sequences, FiniteSets, Functions, SequencesExt

CONSTANTS
    Name,        \* plain tokens
    Inherited,   \* names that every JavaScript object has a property of
    Texts        \* the connection strings the application may parse

Special == {"=", "&", "?"}
Escaped == {"%3D", "%26", "%3F"}
NoPort == -1
Token == Name \cup Special \cup Escaped

\* The options as parse reports them, unescaped: a value is the list of the
\* values of its key, a list of one for the code's plain string.
Host == [name : Name, port : Nat]
HostText == [name : Name, port : Nat \cup {NoPort}]
Blank == [scheme |-> "blank", hostPart |-> FALSE, hosts |-> <<>>, bucket |-> "",
          query |-> <<>>]

ASSUME ConstantsAssumption ==
    /\ Inherited \subseteq Name /\ {"srv", "enable_dns_srv", "localhost"} \subseteq Name
    /\ Name \cap (Special \cup Escaped) = {}
    /\ \A t \in Texts :
          /\ t.scheme \in {"blank", "none", "couchbases", "other"}
          /\ t.hostPart \in BOOLEAN /\ t.hosts \in Seq(HostText) /\ t.query \in Seq(Token)
          /\ t.hosts # <<>> => t.hostPart
          /\ t.scheme = "blank" => t = Blank

VARIABLES
    phase,     \* "idle", or "parsing" the options
    text,      \* the string being parsed, or parsed last
    spec,      \* the ConnSpec
    outcome,   \* of the last parse: "none", "spec", or "threw"
    lastIndex, \* kvMatcher.lastIndex
    startedAt, \* lastIndex when the parse began
    written    \* the ConnSpec that `text` was written from by toString, if any

vars == <<phase, text, spec, outcome, lastIndex, startedAt, written>>

NoSpec == [hosts |-> <<>>, bucket |-> "", options |-> <<>>]
DefaultSpec == [hosts |-> <<[name |-> "localhost", port |-> 0]>>, bucket |-> "",
                options |-> <<>>]

Init ==
    /\ phase = "idle" /\ text = Blank /\ spec = NoSpec /\ outcome = "none"
    /\ lastIndex = 0 /\ startedAt = 0
    /\ written = NoSpec

-----------------------------------------------------------------------------
(* qs.escape and qs.unescape *)

Code == [c \in Special |-> CASE c = "=" -> "%3D" [] c = "&" -> "%26" [] c = "?" -> "%3F"]
Mapped(tokens, code) ==
    [i \in DOMAIN tokens |-> IF tokens[i] \in DOMAIN code THEN code[tokens[i]] ELSE tokens[i]]
Escape(tokens) == Mapped(tokens, Code)
Unescape(tokens) == Mapped(tokens, AntiFunction(Code))

-----------------------------------------------------------------------------
(* parse *)

\* Where the first of a set of tokens is, from a position on; past the end when
\* there is none.
First(query, tokens, from) ==
    CHOOSE i \in from..Len(query) + 1 :
        /\ i = Len(query) + 1 \/ query[i] \in tokens
        /\ \A j \in from..(i - 1) : query[j] \notin tokens

\* kvMatcher.exec, /([^=]*)=([^&?]*)[&?]?/g: from an index on, a key up to the
\* next "=", which may hold separators, and a value up to the next separator.
Matches(query, at) == \E i \in (at + 1)..Len(query) : query[i] = "="
Match(query, at) ==
    LET equals == First(query, {"="}, at + 1)
        separator == First(query, {"&", "?"}, equals + 1)
    IN  [key   |-> Unescape(SubSeq(query, at + 1, equals - 1)),
         value |-> Unescape(SubSeq(query, equals + 1, separator - 1)),
         next  |-> IF separator > Len(query) THEN Len(query) ELSE separator]

\* The match of this turn of the loop.
Found == Match(text.query, lastIndex)

\* `optKey in spec.options` is true of an inherited property, too.
IsInherited(key) == \E n \in Inherited : key = <<n>>

\* Bug: a repeated option replaces the earlier one.
Replaced(options, key, value) ==
    [k \in DOMAIN options \cup {key} |-> IF k = key THEN <<value>> ELSE options[k]]

\* The values an option has so far.
ValuesSoFar(options, key) == IF key \in DOMAIN options THEN options[key] ELSE <<>>

\* An option that is there already becomes a list.
Added(options, key, value) ==
    [k \in DOMAIN options \cup {key} |->
        IF k = key THEN Append(ValuesSoFar(options, key), value) ELSE options[k]]

\* Bug: the old name is kept beside the new one.
Renamed(options) ==
    IF <<"srv">> \notin DOMAIN options THEN options
    ELSE [k \in DOMAIN options \cup {<<"enable_dns_srv">>} |->
             IF k = <<"enable_dns_srv">> THEN options[<<"srv">>] ELSE options[k]]

\* "srv" is passed on under the core's name for it.
Translated(options) ==
    IF <<"srv">> \notin DOMAIN options THEN options
    ELSE [k \in (DOMAIN options \ {<<"srv">>}) \cup {<<"enable_dns_srv">>} |->
             IF k = <<"enable_dns_srv">> THEN options[<<"srv">>] ELSE options[k]]

\* A port that is not written is 0.
HostsOf(hosts) ==
    [i \in DOMAIN hosts |-> [hosts[i] EXCEPT !.port = IF @ = NoPort THEN 0 ELSE @]]

\* parse returns a spec, or throws.
Return(result) ==
    /\ phase' = "idle" /\ spec' = result /\ outcome' = "spec"
Throw ==
    /\ phase' = "idle" /\ spec' = NoSpec /\ outcome' = "threw"

\* parse is called with a string, written by the application or by toString.
Parse(t, from) ==
    /\ phase = "idle"
    /\ text' = t /\ written' = from
    /\ startedAt' = lastIndex
    /\ UNCHANGED lastIndex
    /\ \/ t = Blank /\ Return(DefaultSpec)
       \/ /\ t.scheme = "other" \/ (t # Blank /\ ~t.hostPart)
          /\ Throw
       \/ /\ t.scheme \in {"none", "couchbases"} /\ t.hostPart
          /\ LET start == [hosts |-> HostsOf(t.hosts), bucket |-> t.bucket, options |-> <<>>]
             IN IF t.query = <<>> THEN Return(start)
                ELSE phase' = "parsing" /\ spec' = start /\ UNCHANGED outcome

\* One turn of the loop: kvMatcher finds an option.
Option ==
    /\ phase = "parsing" /\ Matches(text.query, lastIndex) /\ ~IsInherited(Found.key)
    /\ spec' = [spec EXCEPT !.options = Added(@, Found.key, Found.value)]
    /\ lastIndex' = Found.next
    /\ UNCHANGED <<phase, text, outcome, startedAt, written>>

\* What an option inherits is no list: push is not a function. The exception
\* leaves the loop, and kvMatcher where it is.
InheritedOption ==
    /\ phase = "parsing" /\ Matches(text.query, lastIndex) /\ IsInherited(Found.key)
    /\ Throw
    /\ lastIndex' = Found.next
    /\ UNCHANGED <<text, startedAt, written>>

\* Bug: the loop ends without the exec that finds nothing and resets lastIndex.
IndexKept == lastIndex

\* An exec that finds nothing resets lastIndex, and ends the loop.
IndexReset == 0

OptionsEnd ==
    /\ phase = "parsing" /\ ~Matches(text.query, lastIndex)
    /\ Return([spec EXCEPT !.options = Translated(@)])
    /\ lastIndex' = IndexReset
    /\ UNCHANGED <<text, startedAt, written>>

-----------------------------------------------------------------------------
(* toString *)

\* Bug: an option's value is written as it is.
PairUnescaped(key, value) == Escape(key) \o <<"=">> \o value

\* Each value of each option is written as a pair of its own.
Pair(key, value) == Escape(key) \o <<"=">> \o Escape(value)

\* The pairs to write: the keys may come in any order, the values of one key in
\* theirs.
Listed(options) ==
    LET keys == SetToSeq(DOMAIN options)
    IN  FlattenSeq([i \in DOMAIN keys |->
            [j \in DOMAIN options[keys[i]] |->
                [key |-> keys[i], value |-> options[keys[i]][j]]]])

Joined(pairs) ==
    FlattenSeq([i \in DOMAIN pairs |->
        (IF i = 1 THEN <<>> ELSE <<"&">>) \o Pair(pairs[i].key, pairs[i].value)])

\* A port of 0 is not written.
WrittenHost(host) == [host EXCEPT !.port = IF @ = 0 THEN NoPort ELSE @]

Stringify ==
    [scheme |-> "couchbases", hostPart |-> TRUE,
     hosts |-> [i \in DOMAIN spec.hosts |-> WrittenHost(spec.hosts[i])],
     bucket |-> spec.bucket, query |-> Joined(Listed(spec.options))]

\* _connect parses the string, writes it and hands it to the core; it does not
\* parse it again (lib/cluster.ts:395-398). Who reads what was written is the core's
\* own parser, external, and taken here to read as ConnSpec.parse does.
ParseWritten == outcome = "spec" /\ spec.hosts # <<>> /\ Parse(Stringify, spec)

\* Nothing is written of a string whose host part held only separators.
WriteRefused ==
    /\ phase = "idle" /\ outcome = "spec" /\ spec.hosts = <<>>
    /\ Throw
    /\ UNCHANGED <<text, lastIndex, startedAt, written>>

-----------------------------------------------------------------------------
Next ==
    \/ \E t \in Texts : Parse(t, NoSpec)
    \/ ParseWritten \/ WriteRefused
    \/ Option \/ InheritedOption \/ OptionsEnd

Spec == Init /\ [][Next]_vars
-----------------------------------------------------------------------------
(* Properties *)

TypeOK ==
    /\ phase \in {"idle", "parsing"} /\ outcome \in {"none", "spec", "threw"}
    /\ text.query \in Seq(Token)
    /\ lastIndex \in Nat /\ startedAt \in Nat
    /\ spec.hosts \in Seq(Host)
    /\ \A key \in DOMAIN spec.options :
          /\ key \in Seq(Name \cup Special)
          /\ key # <<"srv">> \/ phase = "parsing"
          /\ spec.options[key] \in Seq(Seq(Name \cup Special)) \ {<<>>}

\* toString loses nothing: parsing what it writes gives the same spec again,
\* also with repeated options and with separators in keys and values. What the
\* core is given is what the application wrote.
RoundTrip == (outcome = "spec" /\ phase = "idle" /\ written # NoSpec) => spec = written

\* A parse that returns leaves the shared matcher at the start of the next
\* string, whatever happened before it.
MatcherIsReset == (phase = "idle" /\ outcome = "spec" /\ text.query # <<>>) => lastIndex = 0

\* What the options of a string mean, read off it without the matcher: its
\* pairs in order, and for each key all its values in order.
PairsFrom(query) ==
    LET pairs[at \in 0..Len(query)] ==
            IF Matches(query, at)
            THEN <<[key |-> Match(query, at).key, value |-> Match(query, at).value]>>
                     \o pairs[Match(query, at).next]
            ELSE <<>>
    IN  pairs

\* The values of a key in the first n of a sequence of pairs, for each n.
ValuesIn(pairs, key) ==
    LET values[n \in 0..Len(pairs)] ==
            IF n = 0 THEN <<>>
            ELSE IF pairs[n].key = key THEN Append(values[n - 1], pairs[n].value)
            ELSE values[n - 1]
    IN  values

\* The options that the first n pairs give.
Grouped(pairs, n) ==
    [key \in {pairs[i].key : i \in 1..n} |-> ValuesIn(pairs, key)[n]]

Meaning(query) == Grouped(PairsFrom(query)[0], Len(PairsFrom(query)[0]))

\* A parse that finds the matcher at the start reports every option with all its
\* values in order, under the core's names.
ParseIsComplete ==
    (phase = "idle" /\ outcome = "spec" /\ startedAt = 0) =>
        spec.options = Translated(Meaning(text.query))
=============================================================================
