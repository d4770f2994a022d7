----------------------- MODULE ConnectionStringProofs -----------------------
(***************************************************************************)
(* For every set of connection strings, in every order: a parse ends, each *)
(* turn of its loop moving the matcher on; when it returns it leaves the   *)
(* shared matcher at its start; and when it found it there it reports      *)
(* every option with all its values.                                       *)
(*                                                                         *)
(* The argument for the last: what the matcher has still to find are the   *)
(* pairs of the string from lastIndex on, what it has found are the first  *)
(* of them, grouped (ReadSoFar). The recursive definitions of the          *)
(* specification are unfolded by InductionLemmas.                          *)
(***************************************************************************)
EXTENDS ConnectionString, InductionLemmas, SequenceTheorems, TLAPS

\* The three escapes, read in both directions.
LEMMA Codes ==
    /\ DOMAIN Code = Special
    /\ Code["="] = "%3D" /\ Code["&"] = "%26" /\ Code["?"] = "%3F"
    /\ DOMAIN AntiFunction(Code) = Escaped
    /\ \A c \in Special : AntiFunction(Code)[Code[c]] = c
<1>1. /\ DOMAIN Code = Special
      /\ Code["="] = "%3D" /\ Code["&"] = "%26" /\ Code["?"] = "%3F"
  BY DEF Code, Special
<1>2. {Code[c] : c \in DOMAIN Code} = Escaped
  BY <1>1 DEF Special, Escaped
<1>3. DOMAIN AntiFunction(Code) = Escaped
  BY <1>2 DEF AntiFunction, Inverse, Range
<1>4. ASSUME NEW c \in Special PROVE AntiFunction(Code)[Code[c]] = c
  <2>1. AntiFunction(Code)[Code[c]] = CHOOSE d \in DOMAIN Code : Code[d] = Code[c]
    BY <1>1, <1>2 DEF AntiFunction, Inverse, Range
  <2>2. \A d \in DOMAIN Code : Code[d] = Code[c] => d = c
    BY <1>1 DEF Special
  <2> QED
    BY <1>1, <2>1, <2>2
<1> QED
  BY <1>1, <1>3, <1>4 DEF Special

\* What qs.escape does to keys and values, qs.unescape undoes: the tokens that
\* come out are those that went in.
THEOREM EscapeIsUndone ==
    ASSUME NEW tokens \in Seq(Name \cup Special)
    PROVE  Unescape(Escape(tokens)) = tokens
<1>1. DOMAIN Escape(tokens) = DOMAIN tokens /\ DOMAIN Unescape(Escape(tokens)) = DOMAIN tokens
  BY DEF Escape, Unescape, Mapped
<1>2. ASSUME NEW i \in DOMAIN tokens PROVE Unescape(Escape(tokens))[i] = tokens[i]
  <2>1. tokens[i] \in Name \cup Special
    OBVIOUS
  <2>2. CASE tokens[i] \in Special
    <3>1. Escape(tokens)[i] = Code[tokens[i]] /\ Code[tokens[i]] \in Escaped
      BY <2>2, Codes DEF Escape, Mapped, Special, Escaped
    <3> QED
      BY <1>1, <2>2, <3>1, Codes DEF Unescape, Mapped
  <2>3. CASE tokens[i] \in Name
    <3>1. tokens[i] \notin Special \cup Escaped
      BY <2>3, ConstantsAssumption
    <3>2. Escape(tokens)[i] = tokens[i]
      BY <3>1, Codes DEF Escape, Mapped
    <3> QED
      BY <1>1, <3>1, <3>2, Codes DEF Unescape, Mapped
  <2> QED
    BY <2>1, <2>2, <2>3
<1> QED
  BY <1>1, <1>2 DEF Unescape, Mapped

-----------------------------------------------------------------------------
(* Types of the operators of parse and toString *)

Plain == Seq(Name \cup Special)
PairOfTexts == [key : Plain, value : Plain]

\* Where the first token of a kind is, or the end: it is there, in its range, and
\* no token of the kind is before it.
LEMMA FirstIsFirst ==
    ASSUME NEW query, Len(query) \in Nat, NEW tokens, NEW from \in 1..(Len(query) + 1)
    PROVE  LET i == First(query, tokens, from)
           IN  /\ i \in from..(Len(query) + 1)
               /\ i = Len(query) + 1 \/ query[i] \in tokens
               /\ \A j \in from..(i - 1) : query[j] \notin tokens
<1> DEFINE T == {i \in from..(Len(query) + 1) : i = Len(query) + 1 \/ query[i] \in tokens}
<1>1. T \subseteq Nat /\ Len(query) + 1 \in T
  OBVIOUS
<1>2. PICK i \in T : \A j \in T : i <= j
  <2> HIDE DEF T
  <2> QED
    BY <1>1, LeastNatural
<1>3. ASSUME NEW j \in from..(i - 1) PROVE query[j] \notin tokens
  BY <1>2, <1>3
<1>4. \E k \in from..(Len(query) + 1) :
          /\ k = Len(query) + 1 \/ query[k] \in tokens
          /\ \A j \in from..(k - 1) : query[j] \notin tokens
  BY <1>2, <1>3
<1> QED
  BY <1>4 DEF First

\* Unescaped tokens mean nothing to the matcher any more, and escaped ones are
\* tokens.
LEMMA UnescapeType ==
    ASSUME NEW tokens \in Seq(Token)
    PROVE  Unescape(tokens) \in Plain
<1>1. ASSUME NEW i \in 1..Len(tokens) PROVE Unescape(tokens)[i] \in Name \cup Special
  <2>1. tokens[i] \in Token
    OBVIOUS
  <2>2. CASE tokens[i] \in Escaped
    BY <2>2, Codes DEF Unescape, Mapped, Escaped, Special
  <2>3. CASE tokens[i] \notin Escaped
    BY <2>1, <2>3, Codes DEF Unescape, Mapped, Token
  <2> QED
    BY <2>2, <2>3
<1>2. Unescape(tokens) = [i \in 1..Len(tokens) |-> Unescape(tokens)[i]]
  BY DEF Unescape, Mapped
<1> QED
  BY <1>1, <1>2 DEF Plain

LEMMA EscapeType ==
    ASSUME NEW tokens \in Plain
    PROVE  /\ Escape(tokens) \in Seq(Token) /\ Len(Escape(tokens)) = Len(tokens)
           /\ \A i \in 1..Len(tokens) : Escape(tokens)[i] \notin Special
<1>1. ASSUME NEW i \in 1..Len(tokens)
      PROVE  Escape(tokens)[i] \in Token /\ Escape(tokens)[i] \notin Special
  <2>1. tokens[i] \in Name \cup Special
    BY DEF Plain
  <2>2. CASE tokens[i] \in Special
    BY <2>2, Codes DEF Escape, Mapped, Escaped, Special, Token
  <2>3. CASE tokens[i] \notin Special
    BY <2>1, <2>3, Codes DEF Escape, Mapped, Token
  <2> QED
    BY <2>2, <2>3
<1>2. Len(tokens) \in Nat /\ Escape(tokens) = [i \in 1..Len(tokens) |-> Escape(tokens)[i]]
  BY DEF Escape, Mapped, Plain
<1> QED
  BY <1>1, <1>2

\* A match moves the matcher on, within the string, and gives unescaped texts.
LEMMA MatchType ==
    ASSUME NEW query \in Seq(Token), NEW at \in Nat, Matches(query, at)
    PROVE  /\ Match(query, at).key \in Plain /\ Match(query, at).value \in Plain
           /\ Match(query, at).next \in (at + 1)..Len(query)
<1> DEFINE equals == First(query, {"="}, at + 1)
           separator == First(query, {"&", "?"}, equals + 1)
<1>1. Len(query) \in Nat /\ at + 1 \in 1..Len(query)
  BY DEF Matches
<1>2. equals \in (at + 1)..Len(query)
  <2>1. PICK i \in (at + 1)..Len(query) : query[i] = "="
    BY DEF Matches
  <2>2. /\ equals \in (at + 1)..(Len(query) + 1)
        /\ \A j \in (at + 1)..(equals - 1) : query[j] \notin {"="}
    <3> HIDE DEF equals
    <3>1. at + 1 \in 1..(Len(query) + 1)
      BY <1>1
    <3> QED
      BY <1>1, <3>1, FirstIsFirst DEF equals
  <2> HIDE DEF equals
  <2> QED
    BY <1>1, <2>1, <2>2
<1>3. separator \in (equals + 1)..(Len(query) + 1)
  <2> HIDE DEF equals, separator
  <2>1. equals + 1 \in 1..(Len(query) + 1)
    BY <1>1, <1>2
  <2> QED
    BY <1>1, <2>1, FirstIsFirst DEF separator
<1>4. /\ Match(query, at).key = Unescape(SubSeq(query, at + 1, equals - 1))
      /\ Match(query, at).value = Unescape(SubSeq(query, equals + 1, separator - 1))
      /\ Match(query, at).next = IF separator > Len(query) THEN Len(query) ELSE separator
  BY DEF Match
<1> HIDE DEF equals, separator
<1>5. /\ SubSeq(query, at + 1, equals - 1) \in Seq(Token)
      /\ SubSeq(query, equals + 1, separator - 1) \in Seq(Token)
  <2>1. /\ \A i \in (at + 1)..(equals - 1) : query[i] \in Token
        /\ \A i \in (equals + 1)..(separator - 1) : query[i] \in Token
    BY <1>1, <1>2, <1>3
  <2>2. /\ at + 1 \in Int /\ equals - 1 \in Int
        /\ equals + 1 \in Int /\ separator - 1 \in Int
    BY <1>1, <1>2, <1>3
  <2> QED
    BY <2>1, <2>2, SubSeqProperties
<1>6. /\ Unescape(SubSeq(query, at + 1, equals - 1)) \in Plain
      /\ Unescape(SubSeq(query, equals + 1, separator - 1)) \in Plain
  BY <1>5, UnescapeType
<1>7. Match(query, at).next \in (at + 1)..Len(query)
  BY <1>1, <1>2, <1>3, <1>4
<1> QED
  BY <1>4, <1>6, <1>7

\* The options of a ConnSpec: finitely many, each with a value at least.
IsOptions(options) ==
    /\ IsFiniteSet(DOMAIN options) /\ options = [key \in DOMAIN options |-> options[key]]
    /\ \A key \in DOMAIN options : key \in Plain /\ options[key] \in Seq(Plain) \ {<<>>}

LEMMA NoOptions == IsOptions(<<>>) /\ DOMAIN <<>> = {}
<1>1. DOMAIN <<>> = {}
  OBVIOUS
<1> QED
  BY <1>1, FS_EmptySet DEF IsOptions

LEMMA AddedType ==
    ASSUME NEW options, IsOptions(options), NEW key \in Plain, NEW value \in Plain
    PROVE  IsOptions(Added(options, key, value))
<1> DEFINE added == Added(options, key, value)
           values == Append(ValuesSoFar(options, key), value)
<1>1. added = [k \in DOMAIN options \cup {key} |-> IF k = key THEN values ELSE options[k]]
  BY DEF Added
<1>2. values \in Seq(Plain) \ {<<>>}
  <2>1. ValuesSoFar(options, key) \in Seq(Plain)
    BY DEF ValuesSoFar, IsOptions
  <2> QED
    BY <2>1, AppendProperties
<1>3. IsFiniteSet(DOMAIN added)
  BY <1>1, FS_AddElement DEF IsOptions
<1> HIDE DEF added, values
<1>4. ASSUME NEW k \in DOMAIN added PROVE k \in Plain /\ added[k] \in Seq(Plain) \ {<<>>}
  BY <1>1, <1>2 DEF IsOptions
<1>5. added = [k \in DOMAIN added |-> added[k]]
  BY <1>1
<1>6. IsOptions(added)
  BY <1>3, <1>4, <1>5 DEF IsOptions
<1> QED
  BY <1>6 DEF added

LEMMA TranslatedType ==
    ASSUME NEW options, IsOptions(options)
    PROVE  IsOptions(Translated(options)) /\ <<"srv">> \notin DOMAIN Translated(options)
<1> DEFINE srv == <<"srv">>
           translation == <<"enable_dns_srv">>
           translated == Translated(options)
           keys == (DOMAIN options \ {srv}) \cup {translation}
<1>1. srv # translation /\ translation \in Plain
  BY ConstantsAssumption DEF Plain
<1>2. translated = IF srv \notin DOMAIN options THEN options
                   ELSE [k \in keys |-> IF k = translation THEN options[srv] ELSE options[k]]
  BY DEF Translated
<1>3. IsFiniteSet(keys)
  BY FS_AddElement, FS_RemoveElement DEF IsOptions
<1>4. srv \notin keys
  BY <1>1
<1> HIDE DEF srv, translation, translated
<1>5. CASE srv \in DOMAIN options
  <2>1. translated = [k \in keys |-> IF k = translation THEN options[srv] ELSE options[k]]
    BY <1>2, <1>5
  <2>2. ASSUME NEW k \in keys PROVE k \in Plain /\ translated[k] \in Seq(Plain) \ {<<>>}
    BY <1>1, <1>5, <2>1 DEF IsOptions
  <2> HIDE DEF keys
  <2>3. DOMAIN translated = keys /\ translated = [k \in keys |-> translated[k]]
    BY <2>1
  <2>4. IsOptions(translated)
    BY <1>3, <2>2, <2>3 DEF IsOptions
  <2> QED
    BY <1>4, <2>3, <2>4 DEF srv, translated
<1>6. CASE srv \notin DOMAIN options
  BY <1>2, <1>6 DEF srv, translated
<1> QED
  BY <1>5, <1>6

\* What toString writes of an option is a pair of its own, and every pair written
\* is an option's.
LEMMA ListedType ==
    ASSUME NEW options, IsOptions(options)
    PROVE  Listed(options) \in Seq(PairOfTexts)
<1> DEFINE keys == SetToSeq(DOMAIN options)
           pairsOf(i) == [j \in DOMAIN options[keys[i]] |->
                             [key |-> keys[i], value |-> options[keys[i]][j]]]
           seqs == [i \in DOMAIN keys |-> pairsOf(i)]
<1>1. keys \in Seq(DOMAIN options)
  BY SetToSeqIsList DEF IsOptions
<1>2. ASSUME NEW i \in 1..Len(keys) PROVE pairsOf(i) \in Seq(PairOfTexts)
  <2>1. keys[i] \in DOMAIN options
    BY <1>1
  <2> HIDE DEF keys
  <2>2. keys[i] \in Plain /\ options[keys[i]] \in Seq(Plain)
    BY <2>1 DEF IsOptions
  <2>3. ASSUME NEW j \in 1..Len(options[keys[i]])
        PROVE  [key |-> keys[i], value |-> options[keys[i]][j]] \in PairOfTexts
    BY <2>2 DEF PairOfTexts
  <2> QED
    BY <2>2, <2>3
<1>3. seqs \in Seq(Seq(PairOfTexts))
  <2>1. Len(keys) \in Nat /\ DOMAIN keys = 1..Len(keys)
    BY <1>1
  <2> HIDE DEF keys, pairsOf
  <2> QED
    BY <1>2, <2>1
<1>4. Listed(options) = FlattenSeq(seqs)
  BY DEF Listed
<1> HIDE DEF seqs
<1> QED
  BY <1>3, <1>4, FlattenSeqType

LEMMA JoinedType ==
    ASSUME NEW pairs \in Seq(PairOfTexts)
    PROVE  Joined(pairs) \in Seq(Token)
<1> DEFINE piece(i) == (IF i = 1 THEN <<>> ELSE <<"&">>)
                           \o Pair(pairs[i].key, pairs[i].value)
           pieces == [i \in DOMAIN pairs |-> piece(i)]
<1>1. ASSUME NEW i \in 1..Len(pairs) PROVE piece(i) \in Seq(Token)
  <2>1. pairs[i].key \in Plain /\ pairs[i].value \in Plain
    <3>1. pairs[i] \in PairOfTexts
      OBVIOUS
    <3> QED
      BY <3>1 DEF PairOfTexts
  <2>2. Escape(pairs[i].key) \in Seq(Token) /\ Escape(pairs[i].value) \in Seq(Token)
    BY <2>1, EscapeType
  <2>3. <<"=">> \in Seq(Token) /\ <<"&">> \in Seq(Token)
    BY DEF Token, Special
  <2>4. Pair(pairs[i].key, pairs[i].value) \in Seq(Token)
    BY <2>2, <2>3 DEF Pair
  <2> QED
    BY <2>3, <2>4
<1>2. pieces \in Seq(Seq(Token))
  <2> HIDE DEF piece
  <2> QED
    BY <1>1
<1>3. Joined(pairs) = FlattenSeq(pieces)
  BY DEF Joined
<1> HIDE DEF pieces
<1> QED
  BY <1>2, <1>3, FlattenSeqType

LEMMA HostTypes ==
    /\ \A hosts \in Seq(HostText) : HostsOf(hosts) \in Seq(Host)
    /\ \A hosts \in Seq(Host) : [i \in DOMAIN hosts |-> WrittenHost(hosts[i])] \in Seq(HostText)
<1>1. ASSUME NEW hosts \in Seq(HostText) PROVE HostsOf(hosts) \in Seq(Host)
  <2> DEFINE host(i) == [hosts[i] EXCEPT !.port = IF @ = NoPort THEN 0 ELSE @]
  <2>1. ASSUME NEW i \in 1..Len(hosts) PROVE host(i) \in Host
    <3>1. hosts[i] \in HostText
      OBVIOUS
    <3> QED
      BY <3>1 DEF HostText, Host, NoPort
  <2>2. HostsOf(hosts) = [i \in 1..Len(hosts) |-> host(i)] /\ Len(hosts) \in Nat
    BY DEF HostsOf
  <2> HIDE DEF host
  <2> QED
    BY <2>1, <2>2
<1>2. ASSUME NEW hosts \in Seq(Host)
      PROVE  [i \in DOMAIN hosts |-> WrittenHost(hosts[i])] \in Seq(HostText)
  <2>1. ASSUME NEW i \in 1..Len(hosts) PROVE WrittenHost(hosts[i]) \in HostText
    <3>1. hosts[i] \in Host
      OBVIOUS
    <3> QED
      BY <3>1 DEF HostText, Host, WrittenHost, NoPort
  <2> QED
    BY <2>1
<1> QED
  BY <1>1, <1>2

-----------------------------------------------------------------------------
(* The type invariant *)

IsSpec(s) ==
    /\ s = [hosts |-> s.hosts, bucket |-> s.bucket, options |-> s.options]
    /\ s.hosts \in Seq(Host) /\ IsOptions(s.options)

\* The options are finitely many: else toString could not list them.
TypeInv ==
    /\ phase \in {"idle", "parsing"} /\ outcome \in {"none", "spec", "threw"}
    /\ text.query \in Seq(Token)
    /\ lastIndex \in Nat /\ startedAt \in Nat
    /\ IsSpec(spec)
    /\ phase = "idle" => <<"srv">> \notin DOMAIN spec.options

LEMMA TypeInvIsEnough == TypeInv => TypeOK
BY DEF TypeInv, TypeOK, IsSpec, IsOptions, Plain

LEMMA InitialSpecs ==
    /\ IsSpec(NoSpec) /\ DOMAIN NoSpec.options = {}
    /\ IsSpec(DefaultSpec) /\ DOMAIN DefaultSpec.options = {}
<1>1. IsSpec(NoSpec) /\ DOMAIN NoSpec.options = {}
  BY NoOptions DEF IsSpec, NoSpec
<1>2. IsSpec(DefaultSpec) /\ DOMAIN DefaultSpec.options = {}
  <2>1. [name |-> "localhost", port |-> 0] \in Host
    BY ConstantsAssumption DEF Host
  <2> QED
    BY <2>1, NoOptions DEF IsSpec, DefaultSpec
<1> QED
  BY <1>1, <1>2

LEMMA ParseTypes ==
    ASSUME TypeInv, NEW t, NEW from, Parse(t, from),
           t.hosts \in Seq(HostText), t.query \in Seq(Token)
    PROVE  TypeInv'
<1> DEFINE start == [hosts |-> HostsOf(t.hosts), bucket |-> t.bucket, options |-> <<>>]
<1>1. IsSpec(start) /\ DOMAIN start.options = {}
  BY HostTypes, NoOptions DEF IsSpec
<1>2. /\ text'.query \in Seq(Token) /\ lastIndex' \in Nat /\ startedAt' \in Nat
  BY DEF Parse, TypeInv
<1> HIDE DEF start
<1>3. CASE Throw
  BY <1>2, <1>3, InitialSpecs DEF Throw, TypeInv
<1>4. CASE Return(DefaultSpec)
  BY <1>2, <1>4, InitialSpecs DEF Return, TypeInv
<1>5. CASE Return(start)
  BY <1>1, <1>2, <1>5 DEF Return, TypeInv
<1>6. CASE phase' = "parsing" /\ spec' = start /\ UNCHANGED outcome
  BY <1>1, <1>2, <1>6 DEF TypeInv
<1> QED
  BY <1>3, <1>4, <1>5, <1>6 DEF Parse, start

LEMMA StringifyType ==
    ASSUME TypeInv
    PROVE  Stringify.hosts \in Seq(HostText) /\ Stringify.query \in Seq(Token)
<1>1. spec.hosts \in Seq(Host) /\ IsOptions(spec.options)
  BY DEF TypeInv, IsSpec
<1>2. Joined(Listed(spec.options)) \in Seq(Token)
  BY <1>1, ListedType, JoinedType
<1>3. [i \in DOMAIN spec.hosts |-> WrittenHost(spec.hosts[i])] \in Seq(HostText)
  BY <1>1, HostTypes
<1> QED
  BY <1>2, <1>3 DEF Stringify

LEMMA TypeInvHolds == Spec => []TypeInv
<1>1. Init => TypeInv
  <2> SUFFICES ASSUME Init PROVE TypeInv
    OBVIOUS
  <2>1. Blank.query \in Seq(Token)
    BY DEF Blank
  <2> QED
    BY <2>1, InitialSpecs DEF Init, TypeInv
<1>2. TypeInv /\ [Next]_vars => TypeInv'
  <2> SUFFICES ASSUME TypeInv, [Next]_vars PROVE TypeInv'
    OBVIOUS
  <2>1. ASSUME NEW t \in Texts, Parse(t, NoSpec) PROVE TypeInv'
    BY <2>1, ConstantsAssumption, ParseTypes
  <2>2. CASE ParseWritten
    BY <2>2, StringifyType, ParseTypes DEF ParseWritten
  <2>3. CASE WriteRefused
    BY <2>3, InitialSpecs DEF WriteRefused, Throw, TypeInv
  <2>4. CASE Option
    <3>1. Found.key \in Plain /\ Found.value \in Plain /\ Found.next \in Nat
      BY <2>4, MatchType DEF Option, Found, TypeInv
    <3>2. /\ spec'.options = Added(spec.options, Found.key, Found.value)
          /\ IsSpec(spec')
      BY <2>4, <3>1, AddedType DEF Option, TypeInv, IsSpec
    <3> QED
      BY <2>4, <3>1, <3>2 DEF Option, TypeInv
  <2>5. CASE InheritedOption
    <3>1. Found.next \in Nat
      BY <2>5, MatchType DEF InheritedOption, Found, TypeInv
    <3> QED
      BY <2>5, <3>1, InitialSpecs DEF InheritedOption, Throw, TypeInv
  <2>6. CASE OptionsEnd
    <3>1. IsSpec([spec EXCEPT !.options = Translated(@)])
      BY TranslatedType DEF TypeInv, IsSpec
    <3>2. <<"srv">> \notin DOMAIN [spec EXCEPT !.options = Translated(@)].options
      BY TranslatedType DEF TypeInv, IsSpec
    <3> QED
      BY <2>6, <3>1, <3>2 DEF OptionsEnd, Return, IndexReset, TypeInv
  <2>7. CASE UNCHANGED vars
    BY <2>7 DEF vars, TypeInv
  <2> QED
    BY <2>1, <2>2, <2>3, <2>4, <2>5, <2>6, <2>7 DEF Next
<1> QED
  BY <1>1, <1>2, PTL DEF Spec

\* Whatever is parsed and written, in any order, the ConnSpec keeps its type
\* (lib/connspec.ts:25): unescaped keys, no empty list of values, and once parse
\* has returned no option under the name "srv".
THEOREM TypeCorrect == Spec => []TypeOK
BY TypeInvHolds, TypeInvIsEnough, PTL

\* A turn of the loop that does not leave it moves the matcher on, inside the
\* string it is parsing.
ParseMovesOn ==
    [][(phase = "parsing" /\ phase' = "parsing") =>
          text' = text /\ lastIndex' \in (lastIndex + 1)..Len(text.query)]_vars

\* A parse of any string ends after at most as many turns as the string has
\* tokens, wherever it finds the shared matcher: no match is empty, so that
\* `while (match)` cannot spin (lib/connspec.ts:93-110).
THEOREM EveryParseEnds == Spec => ParseMovesOn
<1> DEFINE A == (phase = "parsing" /\ phase' = "parsing") =>
                    text' = text /\ lastIndex' \in (lastIndex + 1)..Len(text.query)
<1>1. ASSUME TypeInv, [Next]_vars PROVE [A]_vars
  <2>1. CASE \E t \in Texts : Parse(t, NoSpec)
    BY <2>1 DEF Parse
  <2>2. CASE ParseWritten \/ WriteRefused
    BY <2>2 DEF ParseWritten, Parse, WriteRefused
  <2>3. CASE Option
    <3>1. Found.next \in (lastIndex + 1)..Len(text.query)
      BY <1>1, <2>3, MatchType DEF Option, Found, TypeInv
    <3> QED
      BY <2>3, <3>1 DEF Option
  <2>4. CASE InheritedOption
    BY <2>4 DEF InheritedOption, Throw
  <2>5. CASE OptionsEnd
    BY <2>5 DEF OptionsEnd, Return
  <2> QED
    BY <1>1, <2>1, <2>2, <2>3, <2>4, <2>5 DEF Next
<1>2. TypeInv /\ [Next]_vars => [A]_vars
  BY <1>1
<1> QED
  BY <1>2, TypeInvHolds, PTL DEF Spec, ParseMovesOn

-----------------------------------------------------------------------------
(* What a string means *)

\* The pairs of a string, from each index on: the recursion ends because each
\* match moves on.
LEMMA PairsFromSolves ==
    ASSUME NEW query \in Seq(Token)
    PROVE  /\ PairsFrom(query) = [at \in 0..Len(query) |-> PairsFrom(query)[at]]
           /\ \A at \in 0..Len(query) :
                 PairsFrom(query)[at] =
                     IF Matches(query, at)
                     THEN <<[key |-> Match(query, at).key, value |-> Match(query, at).value]>>
                              \o PairsFrom(query)[Match(query, at).next]
                     ELSE <<>>
<1> DEFINE n == Len(query)
           pair(at) == <<[key |-> Match(query, at).key, value |-> Match(query, at).value]>>
           next(at) == Match(query, at).next
           Solves(g, m) == g = [at \in m..n |-> IF Matches(query, at) THEN pair(at) \o g[next(at)]
                                                ELSE <<>>]
           S == {m \in 0..n : \E g : Solves(g, m)}
<1>1. n \in Nat
  OBVIOUS
<1>2. ASSUME NEW at \in 0..n, Matches(query, at) PROVE next(at) \in (at + 1)..n
  BY <1>2, MatchType
<1> HIDE DEF n, pair, next
<1>3. n \in S
  <2>1. ASSUME NEW at \in n..n PROVE ~Matches(query, at)
    BY <1>1, <1>2
  <2>2. Solves([at \in n..n |-> <<>>], n)
    BY <2>1
  <2>3. n \in 0..n
    BY <1>1
  <2> HIDE DEF Solves
  <2> QED
    BY <2>2, <2>3
<1>4. ASSUME NEW m \in (0 + 1)..n, m \in S PROVE m - 1 \in S
  <2>1. PICK g : Solves(g, m)
    BY <1>4
  <2> DEFINE Body(h, at) == IF Matches(query, at) THEN pair(at) \o h[next(at)] ELSE <<>>
             h == [at \in (m - 1)..n |-> IF at = m - 1 THEN Body(g, at) ELSE g[at]]
  <2>2. ASSUME NEW at \in m..n PROVE g[at] = Body(g, at) /\ h[at] = g[at]
    <3>1. g[at] = Body(g, at)
      BY <2>1
    <3>2. at \in (m - 1)..n /\ at # m - 1
      BY <1>1
    <3>3. h[at] = g[at]
      <4> HIDE DEF Body
      <4> QED
        BY <3>2
    <3> HIDE DEF h, Body
    <3> QED
      BY <3>1, <3>3
  <2>3. ASSUME NEW at \in (m - 1)..n PROVE Body(h, at) = Body(g, at)
    <3>1. CASE Matches(query, at)
      <4>1. next(at) \in m..n
        BY <1>1, <1>2, <3>1
      <4>2. h[next(at)] = g[next(at)]
        BY <2>2, <4>1
      <4> HIDE DEF h
      <4> QED
        BY <4>2
    <3>2. CASE ~Matches(query, at)
      BY <3>2
    <3> QED
      BY <3>1, <3>2
  <2>4. ASSUME NEW at \in (m - 1)..n PROVE h[at] = Body(h, at)
    <3>1. CASE at = m - 1
      <4>1. h[at] = Body(g, at)
        BY <3>1
      <4> HIDE DEF h, Body
      <4> QED
        BY <2>3, <4>1
    <3>2. CASE at # m - 1
      <4>1. at \in m..n
        BY <1>1, <3>2
      <4> HIDE DEF h, Body
      <4> QED
        BY <2>2, <2>3, <4>1
    <3> QED
      BY <3>1, <3>2
  <2>5. h = [at \in (m - 1)..n |-> h[at]]
    OBVIOUS
  <2>6. Solves(h, m - 1)
    <3> HIDE DEF h
    <3> QED
      BY <2>4, <2>5
  <2>7. m - 1 \in 0..n
    BY <1>1
  <2> QED
    BY <2>6, <2>7
<1>5. PICK g : Solves(g, 0)
  <2>1. 0 \in S
    <3> HIDE DEF S
    <3>1. 0..n \subseteq S
      BY <1>1, <1>3, <1>4, InductionDown
    <3> QED
      BY <1>1, <3>1
  <2> QED
    BY <2>1
<1>6. Solves(PairsFrom(query), 0)
  BY <1>5 DEF PairsFrom, n, pair, next
<1>7. PairsFrom(query) = [at \in 0..n |-> PairsFrom(query)[at]]
  BY <1>6
<1> QED
  BY <1>6, <1>7 DEF n, pair, next

LEMMA PairsFromType ==
    ASSUME NEW query \in Seq(Token)
    PROVE  PairsFrom(query) \in [0..Len(query) -> Seq(PairOfTexts)]
<1> DEFINE S == {at \in 0..Len(query) : \A i \in at..Len(query) :
                                            PairsFrom(query)[i] \in Seq(PairOfTexts)}
<1>1. ASSUME NEW at \in 0..Len(query),
             \A i \in (at + 1)..Len(query) : PairsFrom(query)[i] \in Seq(PairOfTexts)
      PROVE  PairsFrom(query)[at] \in Seq(PairOfTexts)
  <2>1. CASE Matches(query, at)
    <3> DEFINE pair == [key |-> Match(query, at).key, value |-> Match(query, at).value]
    <3>1. pair \in PairOfTexts /\ Match(query, at).next \in (at + 1)..Len(query)
      BY <2>1, MatchType DEF PairOfTexts
    <3>2. PairsFrom(query)[at] = <<pair>> \o PairsFrom(query)[Match(query, at).next]
      BY <2>1, PairsFromSolves
    <3> HIDE DEF pair
    <3>3. PairsFrom(query)[Match(query, at).next] \in Seq(PairOfTexts)
      BY <1>1, <3>1
    <3> QED
      BY <3>1, <3>2, <3>3
  <2>2. CASE ~Matches(query, at)
    BY <2>2, PairsFromSolves
  <2> QED
    BY <2>1, <2>2
<1>2. Len(query) \in S
  BY <1>1
<1>3. ASSUME NEW at \in (0 + 1)..Len(query), at \in S PROVE at - 1 \in S
  <2>1. at - 1 \in 0..Len(query) /\ Len(query) \in Nat
    OBVIOUS
  <2>2. PairsFrom(query)[at - 1] \in Seq(PairOfTexts)
    BY <1>1, <1>3, <2>1
  <2> QED
    BY <1>3, <2>1, <2>2
<1>4. 0..Len(query) \subseteq S
  <2> HIDE DEF S
  <2> QED
    BY <1>2, <1>3, InductionDown, LenProperties
<1>5. \A at \in 0..Len(query) : PairsFrom(query)[at] \in Seq(PairOfTexts)
  BY <1>4
<1> QED
  BY <1>5, PairsFromSolves

\* The values of a key are collected from the front, one pair at a time.
LEMMA ValuesInSteps ==
    ASSUME NEW pairs \in Seq(PairOfTexts), NEW key
    PROVE  /\ ValuesIn(pairs, key) \in [0..Len(pairs) -> Seq(Plain)]
           /\ ValuesIn(pairs, key)[0] = <<>>
           /\ \A n \in 1..Len(pairs) :
                 ValuesIn(pairs, key)[n] =
                     IF pairs[n].key = key
                     THEN Append(ValuesIn(pairs, key)[n - 1], pairs[n].value)
                     ELSE ValuesIn(pairs, key)[n - 1]
<1> DEFINE m == Len(pairs)
           step == [n \in (0 + 1)..m |-> [v \in Seq(Plain) |->
                       IF pairs[n].key = key THEN Append(v, pairs[n].value) ELSE v]]
           Solves(g) == g = [n \in 0..m |->
                                IF n = 0 THEN <<>>
                                ELSE IF pairs[n].key = key THEN Append(g[n - 1], pairs[n].value)
                                ELSE g[n - 1]]
<1>1. m \in Nat /\ \A n \in 1..m : pairs[n].value \in Plain
  <2>1. \A n \in 1..m : pairs[n] \in PairOfTexts
    OBVIOUS
  <2> QED
    BY <2>1 DEF PairOfTexts
<1>2. ASSUME NEW n \in (0 + 1)..m, NEW v \in Seq(Plain)
      PROVE  /\ step[n][v] = IF pairs[n].key = key THEN Append(v, pairs[n].value) ELSE v
             /\ step[n][v] \in Seq(Plain)
  BY <1>1
<1>3. PICK f : IsRecursive(f, 0, m, Seq(Plain), <<>>, step)
  <2>1. \A n \in (0 + 1)..m : step[n] \in [Seq(Plain) -> Seq(Plain)]
    BY <1>1
  <2>2. <<>> \in Seq(Plain) /\ 0 \in Nat /\ m \in Nat /\ 0 <= m
    BY <1>1
  <2> HIDE DEF m, step
  <2> QED
    BY <2>1, <2>2, Recursion
<1> HIDE DEF m, step
<1>4. f \in [0..m -> Seq(Plain)] /\ f[0] = <<>>
  BY <1>3 DEF IsRecursive
<1>5. ASSUME NEW n \in 1..m
      PROVE  f[n] = IF pairs[n].key = key THEN Append(f[n - 1], pairs[n].value) ELSE f[n - 1]
  <2>1. n \in (0 + 1)..m /\ n - 1 \in 0..m
    BY <1>1
  <2>2. f[n] = step[n][f[n - 1]] /\ f[n - 1] \in Seq(Plain)
    BY <1>3, <1>4, <2>1 DEF IsRecursive
  <2> QED
    BY <1>2, <2>1, <2>2
<1>6. Solves(f)
  <2>1. ASSUME NEW n \in 0..m
        PROVE  f[n] = IF n = 0 THEN <<>>
                      ELSE IF pairs[n].key = key THEN Append(f[n - 1], pairs[n].value)
                      ELSE f[n - 1]
    <3>1. n # 0 => n \in 1..m
      BY <1>1
    <3> QED
      BY <1>4, <1>5, <3>1
  <2>2. f = [n \in 0..m |-> f[n]]
    BY <1>4
  <2> QED
    BY <2>1, <2>2
<1>7. Solves(ValuesIn(pairs, key))
  BY <1>6 DEF ValuesIn, m
<1>8. ValuesIn(pairs, key) = f
  <2> DEFINE g == ValuesIn(pairs, key)
  <2>1. g = [n \in 0..m |-> g[n]] /\ g[0] = <<>>
    BY <1>1, <1>7
  <2>2. ASSUME NEW n \in (0 + 1)..m, g[n - 1] \in Seq(Plain) PROVE g[n] = step[n][g[n - 1]]
    <3>1. n \in 0..m /\ n # 0
      BY <1>1
    <3>2. g[n] = IF pairs[n].key = key THEN Append(g[n - 1], pairs[n].value) ELSE g[n - 1]
      BY <1>7, <3>1
    <3> HIDE DEF g
    <3> QED
      BY <1>2, <2>2, <3>2
  <2> HIDE DEF g
  <2>3. TakesSteps(g, 0, m, Seq(Plain), <<>>, step)
    BY <2>1, <2>2 DEF TakesSteps
  <2>4. g = f
    BY <1>1, <1>3, <2>3, RecursionIsUnique
  <2> QED
    BY <2>4 DEF g
<1> QED
  BY <1>4, <1>5, <1>8 DEF m

\* A key that none of the first pairs has, has no values there.
LEMMA NoPairNoValues ==
    ASSUME NEW pairs \in Seq(PairOfTexts), NEW key, NEW n \in 0..Len(pairs),
           \A i \in 1..n : pairs[i].key # key
    PROVE  ValuesIn(pairs, key)[n] = <<>>
<1> DEFINE S == {i \in 0..n : ValuesIn(pairs, key)[i] = <<>>}
<1>1. n \in Nat /\ Len(pairs) \in Nat
  OBVIOUS
<1>2. 0 \in S
  BY <1>1, ValuesInSteps
<1>3. ASSUME NEW i \in 0..(n - 1), i \in S PROVE i + 1 \in S
  <2>1. i + 1 \in 1..n /\ i + 1 \in 1..Len(pairs) /\ i + 1 \in 0..n /\ (i + 1) - 1 = i
    BY <1>1
  <2>2. pairs[i + 1].key # key
    BY <2>1
  <2>3. ValuesIn(pairs, key)[i + 1] = ValuesIn(pairs, key)[i]
    BY <2>1, <2>2, ValuesInSteps
  <2> QED
    BY <1>3, <2>1, <2>3
<1>4. n \in S
  <2> HIDE DEF S
  <2>1. 0..n \subseteq S
    BY <1>1, <1>2, <1>3, InductionUp
  <2> QED
    BY <1>1, <2>1
<1> QED
  BY <1>4

\* One pair more is one option more: what parse does in a turn of its loop, done
\* to what the pairs before it give, is what the pairs up to it give.
LEMMA GroupedStep ==
    ASSUME NEW pairs \in Seq(PairOfTexts), NEW n \in 1..Len(pairs)
    PROVE  Grouped(pairs, n) = Added(Grouped(pairs, n - 1), pairs[n].key, pairs[n].value)
<1> DEFINE key == pairs[n].key
           value == pairs[n].value
           before == {pairs[i].key : i \in 1..(n - 1)}
           options == Grouped(pairs, n - 1)
           now == {pairs[i].key : i \in 1..n}
<1>1. n \in Nat /\ n - 1 \in 0..Len(pairs) /\ Len(pairs) \in Nat
  OBVIOUS
<1>2. now = before \cup {key}
  <2>1. \A i \in 1..n : i \in 1..(n - 1) \/ i = n
    BY <1>1
  <2>2. \A i \in 1..(n - 1) : i \in 1..n
    BY <1>1
  <2> QED
    BY <1>1, <2>1, <2>2
<1>3. options = [k \in before |-> ValuesIn(pairs, k)[n - 1]]
  BY DEF Grouped
<1>4. Grouped(pairs, n) = [k \in now |-> ValuesIn(pairs, k)[n]]
  BY DEF Grouped
<1>5. ASSUME NEW k \in now
      PROVE  ValuesIn(pairs, k)[n] =
                 IF k = key THEN Append(ValuesSoFar(options, key), value) ELSE options[k]
  <2>1. CASE k = key
    <3>1. ValuesIn(pairs, key)[n] = Append(ValuesIn(pairs, key)[n - 1], value)
      BY ValuesInSteps
    <3>2. ValuesSoFar(options, key) = ValuesIn(pairs, key)[n - 1]
      <4>1. CASE key \in before
        <5> HIDE DEF options, before, key
        <5> QED
          BY <1>3, <4>1 DEF ValuesSoFar
      <4>2. CASE key \notin before
        <5>1. ValuesIn(pairs, key)[n - 1] = <<>>
          BY <1>1, <4>2, NoPairNoValues
        <5> HIDE DEF options, before, key
        <5> QED
          BY <1>3, <4>2, <5>1 DEF ValuesSoFar
      <4> QED
        BY <4>1, <4>2
    <3> HIDE DEF options, before, key, value
    <3> QED
      BY <2>1, <3>1, <3>2
  <2>2. CASE k # key
    <3>1. ValuesIn(pairs, k)[n] = ValuesIn(pairs, k)[n - 1]
      BY <2>2, ValuesInSteps
    <3> HIDE DEF options, before, now, key, value
    <3>2. k \in before
      BY <1>2, <2>2
    <3> QED
      BY <1>3, <2>2, <3>1, <3>2
  <2> QED
    BY <2>1, <2>2
<1>6. Added(options, key, value) =
          [k \in before \cup {key} |->
              IF k = key THEN Append(ValuesSoFar(options, key), value) ELSE options[k]]
  <2> HIDE DEF options, before, key, value
  <2> QED
    BY <1>3 DEF Added
<1>7. Grouped(pairs, n) = Added(options, key, value)
  <2> HIDE DEF options, before, now, key, value
  <2> QED
    BY <1>2, <1>4, <1>5, <1>6
<1> QED
  BY <1>7

-----------------------------------------------------------------------------
(* ParseIsComplete *)

\* An exec that matches takes the next pair of those that are left.
LEMMA ReadStep ==
    ASSUME NEW query \in Seq(Token), NEW at \in 0..Len(query),
           NEW pairs \in Seq(PairOfTexts), NEW n \in 0..Len(pairs),
           PairsFrom(query)[at] = SubSeq(pairs, n + 1, Len(pairs))
    PROVE  /\ Matches(query, at) =>
                  /\ n + 1 \in 1..Len(pairs)
                  /\ pairs[n + 1].key = Match(query, at).key
                  /\ pairs[n + 1].value = Match(query, at).value
                  /\ Match(query, at).next \in 0..Len(query)
                  /\ PairsFrom(query)[Match(query, at).next]
                        = SubSeq(pairs, (n + 1) + 1, Len(pairs))
           /\ ~Matches(query, at) => n = Len(pairs)
<1> DEFINE m == Len(pairs)
           left == SubSeq(pairs, n + 1, m)
<1>1. m \in Nat /\ n \in Nat /\ n <= m /\ Len(query) \in Nat
  OBVIOUS
<1>2. /\ left \in Seq(PairOfTexts) /\ Len(left) = m - n
      /\ \A i \in 1..(m - n) : left[i] = pairs[n + i]
  <2>1. \A i \in (n + 1)..m : pairs[i] \in PairOfTexts
    BY <1>1
  <2>2. n + 1 \in Int /\ m \in Int
    BY <1>1
  <2>3. /\ left \in Seq(PairOfTexts)
        /\ Len(left) = IF n + 1 <= m THEN m - (n + 1) + 1 ELSE 0
        /\ \A i \in 1..(m - (n + 1) + 1) : left[i] = pairs[n + 1 + i - 1]
    BY <2>1, <2>2, SubSeqProperties
  <2> HIDE DEF m, left
  <2>4. \A i \in 1..(m - n) : left[i] = pairs[n + i]
    BY <1>1, <2>3
  <2> QED
    BY <1>1, <2>3, <2>4
<1>3. CASE Matches(query, at)
  <2> DEFINE pair == [key |-> Match(query, at).key, value |-> Match(query, at).value]
             rest == PairsFrom(query)[Match(query, at).next]
  <2>1. left = <<pair>> \o rest
    BY <1>3, PairsFromSolves
  <2>2. Match(query, at).next \in 0..Len(query) /\ pair \in PairOfTexts
    BY <1>1, <1>3, MatchType DEF PairOfTexts
  <2>3. rest \in Seq(PairOfTexts)
    BY <2>2, PairsFromType
  <2> HIDE DEF m, left, pair, rest
  <2>4. /\ Len(left) = 1 + Len(rest) /\ left[1] = pair
        /\ \A i \in 1..Len(rest) : left[i + 1] = rest[i]
    BY <2>1, <2>2, <2>3
  <2>5. n + 1 \in 1..m /\ pairs[n + 1] = pair
    BY <1>1, <1>2, <2>3, <2>4
  <2>6. rest = SubSeq(pairs, (n + 1) + 1, m)
    <3> DEFINE later == SubSeq(pairs, (n + 1) + 1, m)
    <3>1. \A i \in ((n + 1) + 1)..m : pairs[i] \in PairOfTexts
      BY <1>1 DEF m
    <3>2. (n + 1) + 1 \in Int /\ m \in Int
      BY <1>1
    <3>3. /\ later \in Seq(PairOfTexts)
          /\ Len(later) = IF (n + 1) + 1 <= m THEN m - ((n + 1) + 1) + 1 ELSE 0
          /\ \A i \in 1..(m - ((n + 1) + 1) + 1) : later[i] = pairs[(n + 1) + 1 + i - 1]
      BY <3>1, <3>2, SubSeqProperties
    <3> HIDE DEF later
    <3>4. Len(later) = Len(rest)
      <4>1. Len(rest) = m - (n + 1) /\ n + 1 <= m
        <5>1. Len(rest) \in Nat /\ Len(left) = 1 + Len(rest)
          BY <2>3, <2>4
        <5>2. Len(left) = m - n
          BY <1>2
        <5>3. \A k \in Nat : m - n = 1 + k => k = m - (n + 1) /\ n + 1 <= m
          BY <1>1
        <5> QED
          BY <5>1, <5>2, <5>3
      <4>2. Len(later) = m - (n + 1)
        BY <1>1, <3>3, <4>1
      <4> QED
        BY <4>1, <4>2
    <3>5. ASSUME NEW i \in 1..Len(later) PROVE later[i] = rest[i]
      <4>1. later[i] = pairs[n + (i + 1)]
        BY <1>1, <1>2, <2>3, <2>4, <3>3, <3>4
      <4>2. rest[i] = left[i + 1] /\ i + 1 \in 1..(m - n)
        BY <1>1, <1>2, <2>3, <2>4, <3>4
      <4> QED
        BY <1>2, <4>1, <4>2
    <3>6. later = rest
      BY <2>3, <3>3, <3>4, <3>5, SeqEqual
    <3> QED
      BY <3>6 DEF later
  <2> QED
    BY <1>3, <2>2, <2>5, <2>6 DEF m, pair, rest
<1>4. CASE ~Matches(query, at)
  <2>1. left = <<>>
    BY <1>4, PairsFromSolves
  <2> HIDE DEF left, m
  <2>2. n = m
    BY <1>1, <1>2, <2>1
  <2> QED
    BY <1>4, <2>2 DEF m
<1> QED
  BY <1>3, <1>4

\* A string without options means none.
LEMMA EmptyMeaning ==
    Grouped(PairsFrom(<<>>)[0], 0) = <<>> /\ Meaning(<<>>) = <<>> /\ Translated(<<>>) = <<>>
<1>1. <<>> \in Seq(Token) /\ Len(<<>>) = 0 /\ ~Matches(<<>>, 0)
  BY DEF Matches
<1>2. PairsFrom(<<>>)[0] = <<>>
  <2> DEFINE query == <<>>
  <2>1. query \in Seq(Token) /\ 0 \in 0..Len(query) /\ ~Matches(query, 0)
    BY <1>1
  <2> HIDE DEF query
  <2>2. PairsFrom(query)[0] = <<>>
    BY <2>1, PairsFromSolves
  <2> QED
    BY <2>2 DEF query
<1>3. \A pairs : Grouped(pairs, 0) = <<>>
  BY DEF Grouped
<1>4. Translated(<<>>) = <<>>
  BY DEF Translated
<1> QED
  BY <1>1, <1>2, <1>3, <1>4 DEF Meaning

\* Within the loop of a parse that found the matcher at the start, the options
\* read so far are those of the first pairs, and the matcher stands where the
\* others begin.
ReadSoFar(query, options, at) ==
    LET pairs == PairsFrom(query)[0]
    IN  /\ at \in 0..Len(query)
        /\ \E n \in 0..Len(pairs) :
               /\ options = Grouped(pairs, n)
               /\ PairsFrom(query)[at] = SubSeq(pairs, n + 1, Len(pairs))

Reading ==
    (phase = "parsing" /\ startedAt = 0) => ReadSoFar(text.query, spec.options, lastIndex)

LEMMA ReadFromStart ==
    ASSUME NEW query \in Seq(Token)
    PROVE  ReadSoFar(query, <<>>, 0)
<1> DEFINE pairs == PairsFrom(query)[0]
<1>1. pairs \in Seq(PairOfTexts)
  BY PairsFromType
<1>2. Len(query) \in Nat /\ Len(pairs) \in Nat
  BY <1>1
<1>3. <<>> = Grouped(pairs, 0)
  BY DEF Grouped
<1>4. pairs = SubSeq(pairs, 0 + 1, Len(pairs))
  <2> HIDE DEF pairs
  <2> QED
    BY <1>1, SubSeqFull
<1> QED
  BY <1>2, <1>3, <1>4 DEF ReadSoFar

LEMMA ReadOne ==
    ASSUME NEW query \in Seq(Token), NEW options, NEW at,
           ReadSoFar(query, options, at), Matches(query, at)
    PROVE  LET m == Match(query, at)
           IN  ReadSoFar(query, Added(options, m.key, m.value), m.next)
<1> DEFINE pairs == PairsFrom(query)[0]
           m == Match(query, at)
<1>1. pairs \in Seq(PairOfTexts) /\ Len(pairs) \in Nat
  BY PairsFromType
<1>2. PICK n \in 0..Len(pairs) :
          /\ options = Grouped(pairs, n)
          /\ PairsFrom(query)[at] = SubSeq(pairs, n + 1, Len(pairs))
  BY DEF ReadSoFar
<1>3. at \in 0..Len(query)
  BY DEF ReadSoFar
<1> HIDE DEF pairs
<1>4. /\ n + 1 \in 1..Len(pairs)
      /\ pairs[n + 1].key = m.key /\ pairs[n + 1].value = m.value
      /\ m.next \in 0..Len(query)
      /\ PairsFrom(query)[m.next] = SubSeq(pairs, (n + 1) + 1, Len(pairs))
  BY <1>1, <1>2, <1>3, ReadStep
<1> HIDE DEF m
<1>5. Added(options, m.key, m.value) = Grouped(pairs, n + 1)
  <2>1. (n + 1) - 1 = n
    OBVIOUS
  <2> QED
    BY <1>1, <1>2, <1>4, <2>1, GroupedStep
<1>6. n + 1 \in 0..Len(pairs)
  BY <1>1, <1>4
<1>7. ReadSoFar(query, Added(options, m.key, m.value), m.next)
  BY <1>4, <1>5, <1>6 DEF ReadSoFar, pairs
<1> QED
  BY <1>7 DEF m

LEMMA ReadAll ==
    ASSUME NEW query \in Seq(Token), NEW options, NEW at,
           ReadSoFar(query, options, at), ~Matches(query, at)
    PROVE  options = Meaning(query)
<1> DEFINE pairs == PairsFrom(query)[0]
<1>1. pairs \in Seq(PairOfTexts) /\ at \in 0..Len(query)
  BY PairsFromType DEF ReadSoFar
<1>2. PICK n \in 0..Len(pairs) :
          /\ options = Grouped(pairs, n)
          /\ PairsFrom(query)[at] = SubSeq(pairs, n + 1, Len(pairs))
  BY DEF ReadSoFar
<1>3. n = Len(pairs)
  <2> HIDE DEF pairs
  <2> QED
    BY <1>1, <1>2, ReadStep
<1> QED
  BY <1>2, <1>3 DEF Meaning

\* A parse that finds kvMatcher at its start reports every option of the string,
\* each with all its values in order and under the core's name
\* (lib/connspec.ts:93-120).
THEOREM EveryOptionIsParsed == Spec => []ParseIsComplete
<1> DEFINE Inv == Reading /\ ParseIsComplete
<1>1. Init => Inv
  BY DEF Init, Reading, ParseIsComplete
<1>2. TypeInv /\ Inv /\ [Next]_vars => Inv'
  <2> SUFFICES ASSUME TypeInv, Reading, ParseIsComplete, [Next]_vars PROVE Inv'
    OBVIOUS
  <2>1. ASSUME NEW t, NEW from, Parse(t, from), t.query \in Seq(Token) PROVE Inv'
    <3>1. text' = t /\ startedAt' = lastIndex /\ lastIndex' = lastIndex
      BY <2>1 DEF Parse
    <3>2. CASE t = Blank /\ Return(DefaultSpec)
      <4>1. spec'.options = <<>> /\ phase' = "idle" /\ text'.query = <<>>
        BY <3>1, <3>2 DEF Return, DefaultSpec, Blank
      <4> QED
        BY <4>1, EmptyMeaning DEF Reading, ParseIsComplete
    <3>3. CASE Throw
      BY <3>3 DEF Throw, Reading, ParseIsComplete
    <3>4. CASE t.query = <<>> /\ phase' = "idle" /\ spec'.options = <<>>
      BY <3>1, <3>4, EmptyMeaning DEF Reading, ParseIsComplete
    <3>5. CASE phase' = "parsing" /\ spec'.options = <<>>
      BY <2>1, <3>1, <3>5, ReadFromStart DEF Reading, ParseIsComplete
    <3> QED
      BY <2>1, <3>2, <3>3, <3>4, <3>5 DEF Parse, Return
  <2>2. ASSUME NEW t \in Texts, Parse(t, NoSpec) PROVE Inv'
    BY <2>1, <2>2, ConstantsAssumption
  <2>3. CASE ParseWritten
    BY <2>1, <2>3, StringifyType DEF ParseWritten
  <2>4. CASE WriteRefused
    BY <2>4 DEF WriteRefused, Throw, Reading, ParseIsComplete
  <2>5. CASE Option
    <3>1. spec'.options = Added(spec.options, Found.key, Found.value)
      BY <2>5 DEF Option, TypeInv, IsSpec
    <3>2. startedAt = 0 => ReadSoFar(text.query, spec'.options, lastIndex')
      BY <2>5, <3>1, ReadOne DEF Option, Found, Reading, TypeInv
    <3> QED
      BY <2>5, <3>2 DEF Option, Reading, ParseIsComplete
  <2>6. CASE InheritedOption
    BY <2>6 DEF InheritedOption, Throw, Reading, ParseIsComplete
  <2>7. CASE OptionsEnd
    <3>1. spec'.options = Translated(spec.options)
      BY <2>7 DEF OptionsEnd, Return, TypeInv, IsSpec
    <3>2. startedAt = 0 => spec.options = Meaning(text.query)
      BY <2>7, ReadAll DEF OptionsEnd, Reading, TypeInv
    <3> QED
      BY <2>7, <3>1, <3>2 DEF OptionsEnd, Return, Reading, ParseIsComplete
  <2>8. CASE UNCHANGED vars
    BY <2>8 DEF vars, Reading, ParseIsComplete
  <2> QED
    BY <2>2, <2>3, <2>4, <2>5, <2>6, <2>7, <2>8 DEF Next
<1> QED
  BY <1>1, <1>2, TypeInvHolds, PTL DEF Spec

-----------------------------------------------------------------------------

\* A parse that returns leaves lastIndex of kvMatcher at 0 (lib/connspec.ts:93),
\* whatever was parsed before: also after a parse that threw inside its loop.
THEOREM MatcherStartsAnew == Spec => []MatcherIsReset
<1>1. Init => MatcherIsReset
  BY DEF Init, MatcherIsReset
<1>2. MatcherIsReset /\ [Next]_vars => MatcherIsReset'
  <2> SUFFICES ASSUME MatcherIsReset, [Next]_vars PROVE MatcherIsReset'
    OBVIOUS
  <2>1. ASSUME NEW t, NEW from, Parse(t, from) PROVE MatcherIsReset'
    <3>1. CASE t = Blank
      BY <2>1, <3>1 DEF Parse, Blank, MatcherIsReset
    <3>2. CASE Throw
      BY <3>2 DEF Throw, MatcherIsReset
    <3>3. CASE t # Blank /\ ~Throw
      BY <2>1, <3>3 DEF Parse, Return, MatcherIsReset
    <3> QED
      BY <3>1, <3>2, <3>3
  <2>2. CASE ParseWritten
    BY <2>1, <2>2 DEF ParseWritten
  <2>3. CASE WriteRefused
    BY <2>3 DEF WriteRefused, Throw, MatcherIsReset
  <2>4. CASE Option
    BY <2>4 DEF Option, MatcherIsReset
  <2>5. CASE InheritedOption
    BY <2>5 DEF InheritedOption, Throw, MatcherIsReset
  <2>6. CASE OptionsEnd
    BY <2>6 DEF OptionsEnd, Return, IndexReset, MatcherIsReset
  <2>7. CASE UNCHANGED vars
    BY <2>7 DEF vars, MatcherIsReset
  <2> QED
    BY <2>1, <2>2, <2>3, <2>4, <2>5, <2>6, <2>7 DEF Next
<1> QED
  BY <1>1, <1>2, PTL DEF Spec
=============================================================================
