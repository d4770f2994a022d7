----------------------------- MODULE Marshalling -----------------------------
(***************************************************************************)
(* How values cross between JavaScript and C++: the conversion templates   *)
(* js_to_cbpp and cbpp_to_js that the addon instantiates                   *)
(* (src/jstocbpp_cpptypes.hpp, src/jstocbpp_basic.hpp), as operators.      *)
(*                                                                         *)
(* A JavaScript value is a record tagged with its type. Numbers are        *)
(* integers well inside what int64 and double hold exactly (a fraction is  *)
(* cut off by Int64Value), or NaN or an infinity. A text is opaque, and    *)
(* none of those used spells a number; the text of a value that is no      *)
(* primitive stands for whatever its toString gives.                       *)
(* A std::optional is a sequence of at most one element, a std::map a      *)
(* function on its keys.                                                   *)
(***************************************************************************)
EXTENDS Integers, Sequences
LOCAL INSTANCE TLC

Undefined == [js |-> "undefined"]
Null      == [js |-> "null"]
NaN       == [js |-> "nan"]
Infinity(sign) == [js |-> "infinity", sign |-> sign]
Bool(b)   == [js |-> "boolean", bool |-> b]
Number(n) == [js |-> "number", num |-> n]
Text(s)   == [js |-> "string", text |-> s]
Array(s)  == [js |-> "array", items |-> s]
Object(f) == [js |-> "object", props |-> f]

IsUndefined(v) == v.js = "undefined"
IsUnset(v) == v.js \in {"undefined", "null"}

Absent == <<>>
Present(v) == <<v>>

-----------------------------------------------------------------------------
(* From JavaScript *)

\* ToBoolean.
ToBool(v) ==
    \/ v.js = "boolean" /\ v.bool
    \/ v.js = "number" /\ v.num # 0
    \/ v.js = "string" /\ v.text # ""
    \/ v.js \in {"infinity", "array", "object", "function"}

\* Napi's ToNumber().Int64Value(): 0 for what is no finite number.
ToInt64(v) ==
    IF v.js = "number" THEN v.num
    ELSE IF v.js = "boolean" /\ v.bool THEN 1 ELSE 0

MaxUint16 == 65535

\* Bug: the cast keeps a sign.
ToInt16(v) == ((ToInt64(v) + 32768) % (MaxUint16 + 1)) - 32768

\* static_cast<std::uint16_t>, the one cast that narrows a value of the caller.
ToUint16(v) == ToInt64(v) % (MaxUint16 + 1)

\* An enumeration: the enumerator of that value, if there is one.
ToEnum(v) == ToInt64(v)

\* ToString of a value that is neither a string nor unset.
Spelling(v) ==
    IF v.js = "boolean" THEN IF v.bool THEN "true" ELSE "false"
    ELSE IF v.js = "number" THEN ToString(v.num)
    ELSE IF v.js = "nan" THEN "NaN"
    ELSE IF v.js = "infinity" THEN v.sign \o "Infinity"
    ELSE v.js

\* std::string, and the json_string that wraps it.
ToText(v) == IF v.js = "string" THEN v.text ELSE IF IsUnset(v) THEN "" ELSE Spelling(v)

ToMilliseconds(v) == IF IsUnset(v) THEN 0 ELSE ToInt64(v)

\* std::optional: only undefined is absent; null is converted. The value is
\* converted as the type it is an optional of.
ToOptional(v, converted) == IF IsUndefined(v) THEN Absent ELSE Present(converted)

\* std::vector and std::map of texts.
ToTexts(v) ==
    IF IsUnset(v) THEN <<>> ELSE [i \in 1..Len(v.items) |-> ToText(v.items[i])]

ToTextMap(v) ==
    IF IsUnset(v) THEN <<>> ELSE [k \in DOMAIN v.props |-> ToText(v.props[k])]

\* cluster_credentials, of the fields that lib/ sets.
ToCredentials(username, password, mechanisms) ==
    [username |-> ToText(username), password |-> ToText(password),
     allowed_sasl_mechanisms |-> ToOptional(mechanisms, ToTexts(mechanisms))]

\* dns_config, without its timeout.
ToDnsConfig(nameserver, port) ==
    [nameserver |-> ToText(nameserver), port |-> ToUint16(port)]

-----------------------------------------------------------------------------
(* To JavaScript *)

NanosInMilli == 1000000

\* Bug: the duration is rounded up.
RoundedUp(ns) == Number((ns + NanosInMilli - 1) \div NanosInMilli)

\* A duration of C++ becomes whole milliseconds: the division cuts off.
FromNanoseconds(ns) == Number(ns \div NanosInMilli)
=============================================================================
