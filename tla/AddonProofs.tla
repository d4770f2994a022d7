----------------------------- MODULE AddonProofs -----------------------------
(***************************************************************************)
(* For any number of JavaScript environments, any queries, any failures of *)
(* the core and any release of it: each environment has its own classes,   *)
(* every answer is heard, an environment that has ended is left alone, an  *)
(* error keeps its meaning, a log level has a logger, metadata arrives and *)
(* the core is asked what the application asked.                           *)
(*                                                                         *)
(* The invariant says of each environment what the stage of its call means *)
(* for its promise, its stream and its error (Phase), and of a settled     *)
(* query that its error is the one of the core's last answer (Meaning).    *)
(***************************************************************************)
EXTENDS Addon, TLAPS

Exported == \A n \in Enumeration : IsExported(release[n])

Domains ==
    /\ DOMAIN answer = Env /\ DOMAIN error = Env /\ DOMAIN metadata = Env

\* Which classes an environment has, and where its native result comes from.
Classes(e) ==
    /\ env[e] = "loaded" => addonData[e].queryResult = e /\ Exported
    /\ env[e] \in {"none", "failed"} => call[e] = "none" /\ promise[e] = "none"
    /\ object[e] \in {NoObject, e}

\* What the stage of a call means for the promise and the stream.
Phase(e) ==
    /\ call[e] = "none" =>
           promise[e] # "pending" /\ stream[e] = "none" /\ answer[e] = NoError
    /\ promise[e] = "none" => call[e] = "none" /\ error[e] = NothingThrown
    /\ call[e] \in {"query", "query answered"} =>
           promise[e] = "pending" /\ stream[e] = "none" /\ error[e] = NothingThrown
    /\ call[e] \in {"open", "row", "row answered", "end answered", "error answered"} =>
           promise[e] = "resolved" /\ error[e] = NothingThrown
    /\ call[e] \in {"lost", "discarded"} => env[e] = "gone" /\ error[e] = NothingThrown
    /\ call[e] \in {"over", "dropped"} => promise[e] # "pending"
    /\ call[e] \in {"lost", "discarded"} => promise[e] # "rejected"
    /\ stream[e] = "open" /\ call[e] = "over" => LacksProperties(answer[e])

Meaning(e) ==
    answer[e] # NoError =>
        /\ answer[e].category = "columnar_errc" =>
               /\ answer[e].name \in ErrorName
               /\ answer[e].value = release["columnar_errc"][answer[e].name]
        /\ answer[e].properties # Absent =>
               answer[e].properties = Present(PropertiesToJs(answer[e].properties[1]))
        /\ (error[e] # NothingThrown /\ answer[e].category = "columnar_errc"
                /\ ~LacksProperties(answer[e]))
               => error[e].class = Documented(answer[e].name) /\ error[e].message
        /\ error[e].class = "QueryError" => error[e].server = answer[e].properties
        /\ IsCanceled(answer[e]) /\ call[e] # "dropped" => promise[e] # "rejected"

IInv ==
    /\ TypeOK /\ Domains /\ LogsGoSomewhere
    /\ \A e \in Env : Classes(e) /\ Phase(e) /\ Meaning(e)

\* Everything the invariant says of one environment stays as it is.
Same(e) ==
    /\ env'[e] = env[e] /\ addonData'[e] = addonData[e] /\ call'[e] = call[e]
    /\ answer'[e] = answer[e] /\ object'[e] = object[e] /\ promise'[e] = promise[e]
    /\ stream'[e] = stream[e] /\ error'[e] = error[e] /\ metadata'[e] = metadata[e]

-----------------------------------------------------------------------------
(* What errorFromCpp makes of an error *)

\* Only an error whose number is query_error's and that has no properties makes
\* errorFromCpp throw a TypeError.
LEMMA OnlyLackingThrows ==
    ASSUME NEW cause, Thrown(cause) = TypeError
    PROVE  LacksProperties(cause)
BY DEF Thrown, ErrorFromCpp, ErrorToJs, QueryErrorOf, Plain, TypeError, LacksProperties,
       IsCanceled, Absent, Present

\* An application always gets an error, and a canceled query is told so.
LEMMA AlwaysDelivered ==
    ASSUME NEW cause
    PROVE  /\ Delivered(cause).class # "none"
           /\ IsCanceled(cause) => Delivered(cause).class = "OperationCanceledError"
BY OnlyLackingThrows
   DEF Delivered, SecondCall, Thrown, ErrorFromCpp, ErrorToJs, QueryErrorOf, Plain, TypeError,
       LacksProperties, IsCanceled, Absent, Present

LEMMA ErrcIsExported ==
    ASSUME Exported, release \in Releases
    PROVE  \A m, n \in ErrorName :
               release["columnar_errc"][m] = release["columnar_errc"][n] => m = n
<1>1. "columnar_errc" \in Enumeration /\ Enumerators["columnar_errc"] = ErrorName
  BY DEF Enumeration, Enumerators
<1>2. release["columnar_errc"] \in [ErrorName -> Int]
  BY <1>1, ReleasesAssumption
<1> QED
  BY <1>1, <1>2 DEF Exported, IsExported

\* An error of the columnar core, however its release numbers it, is of the class
\* documented for its name.
LEMMA ColumnarMeaning ==
    ASSUME Exported, release \in Releases,
           NEW cause, cause.category = "columnar_errc", cause.name \in ErrorName,
           cause.value = release["columnar_errc"][cause.name], ~LacksProperties(cause)
    PROVE  /\ Thrown(cause).class = Documented(cause.name) /\ Thrown(cause).message
           /\ Delivered(cause) = Thrown(cause)
<1> DEFINE errc == release["columnar_errc"]
<1>1. /\ errc["generic"] = cause.value => cause.name = "generic"
      /\ errc["invalid_credential"] = cause.value => cause.name = "invalid_credential"
      /\ errc["timeout"] = cause.value => cause.name = "timeout"
      /\ errc["query_error"] = cause.value => cause.name = "query_error"
  BY ErrcIsExported DEF ErrorName
<1>2. ErrorToJs(cause).client_err_code = Absent
  BY DEF ErrorToJs
<1>3. ErrorToJs(cause).code = Present(errc[cause.name]) /\ ErrorToJs(cause).message_and_ctx
  BY DEF ErrorToJs
<1>4. cause.name = "query_error" => ErrorToJs(cause).query_error_properties # Absent
  BY DEF ErrorToJs, LacksProperties, IsCanceled, Absent, Present
<1>5. Thrown(cause).class = Documented(cause.name) /\ Thrown(cause).message
  BY <1>1, <1>2, <1>3, <1>4
     DEF Thrown, ErrorFromCpp, QueryErrorOf, Plain, Documented, ErrorName, Absent, Present
<1>6. Delivered(cause) = Thrown(cause)
  BY OnlyLackingThrows DEF Delivered
<1> QED
  BY <1>5, <1>6

\* A QueryError carries what the server sent.
LEMMA ServerAnswers ==
    ASSUME NEW cause,
           cause.properties # Absent =>
               cause.properties = Present(PropertiesToJs(cause.properties[1]))
    PROVE  /\ Thrown(cause).class = "QueryError" => Thrown(cause).server = cause.properties
           /\ Delivered(cause).class = "QueryError" => Delivered(cause).server = cause.properties
<1>1. ErrorToJs(cause).query_error_properties = cause.properties
  BY DEF ErrorToJs
<1>2. Thrown(cause).class = "QueryError" => Thrown(cause).server = cause.properties
  BY <1>1 DEF Thrown, ErrorFromCpp, QueryErrorOf, Plain, TypeError
<1>3. SecondCall(Thrown(cause)).class # "QueryError"
  BY DEF SecondCall, ErrorFromCpp, TypeErrorJs, Plain, Absent, Present
<1> QED
  BY <1>2, <1>3 DEF Delivered

\* The core's answer is named and numbered as this release does.
LEMMA ErrorsOfFailures ==
    ASSUME NEW e \in Env, NEW f \in Failures[e]
    PROVE  /\ ErrorOf(f).category = "columnar_errc" =>
                  /\ ErrorOf(f).name \in ErrorName
                  /\ ErrorOf(f).value = release["columnar_errc"][ErrorOf(f).name]
           /\ ErrorOf(f).properties # Absent =>
                  ErrorOf(f).properties = Present(PropertiesToJs(ErrorOf(f).properties[1]))
<1>1. "columnar_errc" \in Enumeration
  BY DEF Enumeration, Enumerators
<1> QED
  BY <1>1, FailuresAssumption DEF ErrorOf

-----------------------------------------------------------------------------
(* The invariant *)

LEMMA InitIInv == Init => IInv
<1> SUFFICES ASSUME Init PROVE IInv
  OBVIOUS
<1>1. TypeOK
  BY DEF Init, TypeOK, NoConstructors, Stage
<1>2. Domains /\ LogsGoSomewhere
  BY DEF Init, Domains, LogsGoSomewhere
<1>3. \A e \in Env : Classes(e) /\ Phase(e) /\ Meaning(e)
  BY DEF Init, Classes, Phase, Meaning
<1> QED
  BY <1>1, <1>2, <1>3 DEF IInv

\* What is the same of an environment is still right of it.
LEMMA SameIsKept ==
    ASSUME NEW e \in Env, Same(e), release' = release, Classes(e), Phase(e), Meaning(e)
    PROVE  (Classes(e) /\ Phase(e) /\ Meaning(e))'
<1>1. Exported' = Exported /\ LacksProperties(answer[e])' = LacksProperties(answer[e])
  BY DEF Same, Exported, LacksProperties
<1>2. Classes(e)'
  BY <1>1 DEF Same, Classes
<1>3. Phase(e)'
  BY <1>1 DEF Same, Phase
<1>4. Meaning(e)'
  BY <1>1 DEF Same, Meaning
<1> QED
  BY <1>2, <1>3, <1>4

\* A step of one environment that leaves the others as they are.
LEMMA OneEnvironment ==
    ASSUME IInv, NEW e \in Env, TypeOK', Domains', LogsGoSomewhere', release' = release,
           \A d \in Env \ {e} : Same(d), (Classes(e) /\ Phase(e) /\ Meaning(e))'
    PROVE  IInv'
<1>1. ASSUME NEW f \in Env PROVE (Classes(f) /\ Phase(f) /\ Meaning(f))'
  <2>1. CASE f = e
    BY <2>1
  <2>2. CASE f # e
    <3>1. Same(f) /\ Classes(f) /\ Phase(f) /\ Meaning(f)
      BY <2>2 DEF IInv
    <3> QED
      BY <3>1, SameIsKept
  <2> QED
    BY <2>1, <2>2
<1> QED
  BY <1>1 DEF IInv

\* Loading the addon gives an environment its classes, or fails it.
LEMMA Loads ==
    ASSUME IInv, NEW e \in Env, LoadAddon(e)
    PROVE  IInv'
<1>1. Classes(e) /\ Phase(e) /\ Meaning(e) /\ release \in Releases
      /\ env[e] \in {"none", "loaded", "failed", "gone"}
  BY DEF IInv, TypeOK
<1>2. /\ env[e] = "none"
      /\ \/ env'[e] = "loaded" /\ addonData'[e].queryResult = e /\ Exported
         \/ env'[e] = "failed"
      /\ call'[e] = call[e] /\ answer'[e] = answer[e] /\ object'[e] = object[e]
      /\ promise'[e] = promise[e] /\ stream'[e] = stream[e] /\ error'[e] = error[e]
  BY DEF LoadAddon, Constructors, Exported, IInv, TypeOK, Domains, queryVars
<1>3. TypeOK' /\ Domains' /\ LogsGoSomewhere' /\ release' = release
  <2>1. logger' \in [console : {"none", "open", "shut"}, protocol : BOOLEAN,
                    level : {"trace", "debug", "info", "warn", "err", "critical", "off"}]
        /\ LogsGoSomewhere'
    BY DEF LoadAddon, IInv, TypeOK, LogsGoSomewhere, Level, Console
  <2>2. /\ env' \in [Env -> {"none", "loaded", "failed", "gone"}]
        /\ addonData' \in [Env -> [connection : Env \cup {NoObject},
                                   queryResult : Env \cup {NoObject}]]
    BY DEF LoadAddon, IInv, TypeOK, Constructors
  <2> QED
    BY <2>1, <2>2 DEF LoadAddon, IInv, TypeOK, Domains, queryVars
<1>4. \A d \in Env \ {e} : Same(d)
  BY DEF LoadAddon, Constructors, Exported, IInv, TypeOK, Domains, Same, queryVars
<1>5. /\ Exported' = Exported
      /\ answer'[e] = answer[e] => LacksProperties(answer[e])' = LacksProperties(answer[e])
  BY <1>3 DEF LacksProperties, Exported
<1>6. Classes(e)'
  BY <1>1, <1>2, <1>3, <1>5 DEF Classes
<1>7. Phase(e)'
  BY <1>1, <1>2, <1>3, <1>5 DEF Phase, Classes
<1>8. Meaning(e)'
  BY <1>1, <1>2, <1>3, <1>5 DEF Meaning, Phase, Classes, LacksProperties
<1> QED
  BY <1>3, <1>4, <1>6, <1>7, <1>8, OneEnvironment

\* The loggers are the process's.
LEMMA ProtocolLogged ==
    ASSUME IInv, NEW e \in Env, EnableProtocolLogger(e)
    PROVE  IInv'
<1>1. Classes(e) /\ Phase(e) /\ Meaning(e) /\ release \in Releases
      /\ env[e] \in {"none", "loaded", "failed", "gone"}
  BY DEF IInv, TypeOK
<1>2. /\ env'[e] = env[e] /\ addonData'[e] = addonData[e] /\ call'[e] = call[e]
      /\ answer'[e] = answer[e] /\ object'[e] = object[e] /\ promise'[e] = promise[e]
      /\ stream'[e] = stream[e] /\ error'[e] = error[e]
  BY DEF EnableProtocolLogger, IInv, TypeOK, Domains, queryVars
<1>3. TypeOK' /\ Domains' /\ LogsGoSomewhere' /\ release' = release
  BY <1>1 DEF EnableProtocolLogger, IInv, TypeOK, Stage, Domains, LogsGoSomewhere, queryVars
<1>4. \A d \in Env \ {e} : Same(d)
  BY DEF EnableProtocolLogger, IInv, TypeOK, Domains, Same, queryVars
<1>5. /\ Exported' = Exported
      /\ answer'[e] = answer[e] => LacksProperties(answer[e])' = LacksProperties(answer[e])
  BY <1>3 DEF LacksProperties, Exported
<1>6. Classes(e)'
  BY <1>1, <1>2, <1>3, <1>5 DEF Classes
<1>7. Phase(e)'
  BY <1>1, <1>2, <1>3, <1>5 DEF Phase, Classes
<1>8. Meaning(e)'
  BY <1>1, <1>2, <1>3, <1>5 DEF Meaning, Phase, Classes, LacksProperties
<1> QED
  BY <1>3, <1>4, <1>6, <1>7, <1>8, OneEnvironment

\* The loggers are the process's.
LEMMA LoggerShut ==
    ASSUME IInv, NEW e \in Env, ShutdownLogger(e)
    PROVE  IInv'
<1>1. Classes(e) /\ Phase(e) /\ Meaning(e) /\ release \in Releases
      /\ env[e] \in {"none", "loaded", "failed", "gone"}
  BY DEF IInv, TypeOK
<1>2. /\ env'[e] = env[e] /\ addonData'[e] = addonData[e] /\ call'[e] = call[e]
      /\ answer'[e] = answer[e] /\ object'[e] = object[e] /\ promise'[e] = promise[e]
      /\ stream'[e] = stream[e] /\ error'[e] = error[e]
  BY DEF ShutdownLogger, IInv, TypeOK, Domains, queryVars
<1>3. TypeOK' /\ Domains' /\ LogsGoSomewhere' /\ release' = release
  BY <1>1 DEF ShutdownLogger, IInv, TypeOK, Stage, Domains, LogsGoSomewhere, queryVars
<1>4. \A d \in Env \ {e} : Same(d)
  BY DEF ShutdownLogger, IInv, TypeOK, Domains, Same, queryVars
<1>5. /\ Exported' = Exported
      /\ answer'[e] = answer[e] => LacksProperties(answer[e])' = LacksProperties(answer[e])
  BY <1>3 DEF LacksProperties, Exported
<1>6. Classes(e)'
  BY <1>1, <1>2, <1>3, <1>5 DEF Classes
<1>7. Phase(e)'
  BY <1>1, <1>2, <1>3, <1>5 DEF Phase, Classes
<1>8. Meaning(e)'
  BY <1>1, <1>2, <1>3, <1>5 DEF Meaning, Phase, Classes, LacksProperties
<1> QED
  BY <1>3, <1>4, <1>6, <1>7, <1>8, OneEnvironment

\* A query that is not sent.
LEMMA Throws ==
    ASSUME IInv, NEW e \in Env, NEW q, ExecuteQueryThrows(e, q)
    PROVE  IInv'
<1>1. Classes(e) /\ Phase(e) /\ Meaning(e) /\ release \in Releases
      /\ env[e] \in {"none", "loaded", "failed", "gone"}
  BY DEF IInv, TypeOK
<1>2. /\ call[e] = "none" /\ env[e] = "loaded" /\ promise[e] = "none"
      /\ promise'[e] = "thrown"
      /\ env'[e] = env[e] /\ addonData'[e] = addonData[e] /\ call'[e] = call[e]
      /\ answer'[e] = answer[e] /\ object'[e] = object[e] /\ stream'[e] = stream[e]
      /\ error'[e] = error[e]
  BY DEF ExecuteQueryThrows, CanQuery, IInv, TypeOK, Domains, queryVars
<1>3. TypeOK' /\ Domains' /\ LogsGoSomewhere' /\ release' = release
  BY <1>1 DEF ExecuteQueryThrows, CanQuery, IInv, TypeOK, Stage, Domains, LogsGoSomewhere, queryVars
<1>4. \A d \in Env \ {e} : Same(d)
  BY DEF ExecuteQueryThrows, CanQuery, IInv, TypeOK, Domains, Same, queryVars
<1>5. /\ Exported' = Exported
      /\ answer'[e] = answer[e] => LacksProperties(answer[e])' = LacksProperties(answer[e])
  BY <1>3 DEF LacksProperties, Exported
<1>6. Classes(e)'
  BY <1>1, <1>2, <1>3, <1>5 DEF Classes
<1>7. Phase(e)'
  BY <1>1, <1>2, <1>3, <1>5 DEF Phase, Classes
<1>8. Meaning(e)'
  BY <1>1, <1>2, <1>3, <1>5 DEF Meaning, Phase, Classes, LacksProperties
<1> QED
  BY <1>3, <1>4, <1>6, <1>7, <1>8, OneEnvironment

\* A query that is rejected before it is sent.
LEMMA RejectsInvalid ==
    ASSUME IInv, NEW e \in Env, NEW q, ExecuteQueryInvalid(e, q)
    PROVE  IInv'
<1>1. Classes(e) /\ Phase(e) /\ Meaning(e) /\ release \in Releases
      /\ env[e] \in {"none", "loaded", "failed", "gone"}
  BY DEF IInv, TypeOK
<1>2. /\ call[e] = "none" /\ env[e] = "loaded" /\ promise[e] = "none"
      /\ promise'[e] = "rejected"
      /\ error'[e] = PlainError
      /\ env'[e] = env[e] /\ addonData'[e] = addonData[e] /\ call'[e] = call[e]
      /\ answer'[e] = answer[e] /\ object'[e] = object[e] /\ stream'[e] = stream[e]
  BY DEF ExecuteQueryInvalid, CanQuery, IInv, TypeOK, Domains, queryVars
<1>3. TypeOK' /\ Domains' /\ LogsGoSomewhere' /\ release' = release
  BY <1>1 DEF ExecuteQueryInvalid, CanQuery, IInv, TypeOK, Stage, Domains, LogsGoSomewhere, queryVars
<1>4. \A d \in Env \ {e} : Same(d)
  BY DEF ExecuteQueryInvalid, CanQuery, IInv, TypeOK, Domains, Same, queryVars
<1>5. /\ Exported' = Exported
      /\ answer'[e] = answer[e] => LacksProperties(answer[e])' = LacksProperties(answer[e])
  BY <1>3 DEF LacksProperties, Exported
<1>6. Classes(e)'
  BY <1>1, <1>2, <1>3, <1>5 DEF Classes
<1>7. Phase(e)'
  BY <1>1, <1>2, <1>3, <1>5 DEF Phase, Classes
<1>8. Meaning(e)'
  BY <1>1, <1>2, <1>3, <1>5 DEF Meaning, Phase, Classes, LacksProperties
<1> QED
  BY <1>3, <1>4, <1>6, <1>7, <1>8, OneEnvironment

\* A query is sent.
LEMMA Sends ==
    ASSUME IInv, NEW e \in Env, NEW q, ExecuteQuery(e, q)
    PROVE  IInv'
<1>1. Classes(e) /\ Phase(e) /\ Meaning(e) /\ release \in Releases
      /\ env[e] \in {"none", "loaded", "failed", "gone"}
  BY DEF IInv, TypeOK
<1>2. /\ call[e] = "none" /\ env[e] = "loaded" /\ promise[e] = "none"
      /\ call'[e] = "query"
      /\ promise'[e] = "pending"
      /\ object'[e] = addonData[e].queryResult
      /\ env'[e] = env[e] /\ addonData'[e] = addonData[e] /\ answer'[e] = answer[e]
      /\ stream'[e] = stream[e] /\ error'[e] = error[e]
  BY DEF ExecuteQuery, SendQuery, CanQuery, IInv, TypeOK, Domains, queryVars
<1>3. TypeOK' /\ Domains' /\ LogsGoSomewhere' /\ release' = release
  BY <1>1 DEF ExecuteQuery, SendQuery, CanQuery, IInv, TypeOK, Stage, Domains, LogsGoSomewhere, queryVars
<1>4. \A d \in Env \ {e} : Same(d)
  BY DEF ExecuteQuery, SendQuery, CanQuery, IInv, TypeOK, Domains, Same, queryVars
<1>5. /\ Exported' = Exported
      /\ answer'[e] = answer[e] => LacksProperties(answer[e])' = LacksProperties(answer[e])
  BY <1>3 DEF LacksProperties, Exported
<1>6. Classes(e)'
  BY <1>1, <1>2, <1>3, <1>5 DEF Classes
<1>7. Phase(e)'
  BY <1>1, <1>2, <1>3, <1>5 DEF Phase, Classes
<1>8. Meaning(e)'
  BY <1>1, <1>2, <1>3, <1>5 DEF Meaning, Phase, Classes, LacksProperties
<1> QED
  BY <1>3, <1>4, <1>6, <1>7, <1>8, OneEnvironment

\* A query the core refuses.
LEMMA Refuses ==
    ASSUME IInv, NEW e \in Env, NEW q, NEW f \in Failures[e], ExecuteQueryRefused(e, q, f)
    PROVE  IInv'
<1>1. Classes(e) /\ Phase(e) /\ Meaning(e) /\ release \in Releases
      /\ env[e] \in {"none", "loaded", "failed", "gone"}
  BY DEF IInv, TypeOK
<1>2. /\ call[e] = "none" /\ env[e] = "loaded" /\ promise[e] = "none"
      /\ call'[e] = "dropped"
      /\ promise'[e] = "rejected"
      /\ object'[e] = addonData[e].queryResult
      /\ answer'[e] = ErrorOf(f)
      /\ error'[e] = Thrown(ErrorOf(f))
      /\ env'[e] = env[e] /\ addonData'[e] = addonData[e] /\ stream'[e] = stream[e]
  BY DEF ExecuteQueryRefused, SendQuery, CanQuery, IInv, TypeOK, Domains, queryVars
<1>3. TypeOK' /\ Domains' /\ LogsGoSomewhere' /\ release' = release
  BY <1>1 DEF ExecuteQueryRefused, SendQuery, CanQuery, IInv, TypeOK, Stage, Domains, LogsGoSomewhere, queryVars
<1>4. \A d \in Env \ {e} : Same(d)
  BY DEF ExecuteQueryRefused, SendQuery, CanQuery, IInv, TypeOK, Domains, Same, queryVars
<1>5. /\ Exported' = Exported
      /\ answer'[e] = answer[e] => LacksProperties(answer[e])' = LacksProperties(answer[e])
  BY <1>3 DEF LacksProperties, Exported
<1>6. Classes(e)'
  BY <1>1, <1>2, <1>3, <1>5 DEF Classes
<1>7. Phase(e)'
  BY <1>1, <1>2, <1>3, <1>5 DEF Phase, Classes
<1>8. Meaning(e)'
  BY <1>1, <1>2, <1>3, <1>5, ErrorsOfFailures, ColumnarMeaning, ServerAnswers, AlwaysDelivered DEF Meaning, Phase, Classes, LacksProperties
<1> QED
  BY <1>3, <1>4, <1>6, <1>7, <1>8, OneEnvironment

\* The io thread hands over the answer of a query.
LEMMA AnswersQuery ==
    ASSUME IInv, NEW e \in Env, CoreAnswersQuery(e)
    PROVE  IInv'
<1>1. Classes(e) /\ Phase(e) /\ Meaning(e) /\ release \in Releases
      /\ env[e] \in {"none", "loaded", "failed", "gone"}
  BY DEF IInv, TypeOK
<1>2. /\ call[e] = "query"
      /\ call'[e] = IF env[e] = "loaded" THEN "query answered" ELSE "lost"
      /\ answer'[e] = answer[e] \/ \E f \in Failures[e] : answer'[e] = ErrorOf(f)
      /\ env'[e] = env[e] /\ addonData'[e] = addonData[e] /\ object'[e] = object[e]
      /\ promise'[e] = promise[e] /\ stream'[e] = stream[e] /\ error'[e] = error[e]
  BY DEF CoreAnswersQuery, Invoke, IInv, TypeOK, Domains, queryVars
<1>3. TypeOK' /\ Domains' /\ LogsGoSomewhere' /\ release' = release
  BY <1>1 DEF CoreAnswersQuery, Invoke, IInv, TypeOK, Stage, Domains, LogsGoSomewhere, queryVars
<1>4. \A d \in Env \ {e} : Same(d)
  BY DEF CoreAnswersQuery, Invoke, IInv, TypeOK, Domains, Same, queryVars
<1>5. /\ Exported' = Exported
      /\ answer'[e] = answer[e] => LacksProperties(answer[e])' = LacksProperties(answer[e])
  BY <1>3 DEF LacksProperties, Exported
<1>6. Classes(e)'
  BY <1>1, <1>2, <1>3, <1>5 DEF Classes
<1>7. Phase(e)'
  BY <1>1, <1>2, <1>3, <1>5 DEF Phase, Classes
<1>8. Meaning(e)'
  <2>1. error'[e] = NothingThrown /\ promise'[e] # "rejected"
    BY <1>1, <1>2 DEF Phase
  <2>2. CASE answer'[e] = answer[e]
    BY <1>1, <1>3, <2>1, <2>2 DEF Meaning, NothingThrown
  <2>3. CASE \E f \in Failures[e] : answer'[e] = ErrorOf(f)
    BY <1>3, <2>1, <2>3, ErrorsOfFailures DEF Meaning, NothingThrown
  <2> QED
    BY <1>2, <2>2, <2>3
<1> QED
  BY <1>3, <1>4, <1>6, <1>7, <1>8, OneEnvironment

\* The answer of a query is a result.
LEMMA Resolves ==
    ASSUME IInv, NEW e \in Env, QueryResolves(e)
    PROVE  IInv'
<1>1. Classes(e) /\ Phase(e) /\ Meaning(e) /\ release \in Releases
      /\ env[e] \in {"none", "loaded", "failed", "gone"}
  BY DEF IInv, TypeOK
<1>2. /\ call[e] = "query answered" /\ env[e] = "loaded"
      /\ call'[e] = "open"
      /\ promise'[e] = "resolved"
      /\ stream'[e] \in {"open", "aborted"}
      /\ env'[e] = env[e] /\ addonData'[e] = addonData[e] /\ answer'[e] = answer[e]
      /\ object'[e] = object[e] /\ error'[e] = error[e]
  BY DEF QueryResolves, Runs, IInv, TypeOK, Domains, queryVars
<1>3. TypeOK' /\ Domains' /\ LogsGoSomewhere' /\ release' = release
  BY <1>1 DEF QueryResolves, Runs, IInv, TypeOK, Stage, Domains, LogsGoSomewhere, queryVars
<1>4. \A d \in Env \ {e} : Same(d)
  BY DEF QueryResolves, Runs, IInv, TypeOK, Domains, Same, queryVars
<1>5. /\ Exported' = Exported
      /\ answer'[e] = answer[e] => LacksProperties(answer[e])' = LacksProperties(answer[e])
  BY <1>3 DEF LacksProperties, Exported
<1>6. Classes(e)'
  BY <1>1, <1>2, <1>3, <1>5 DEF Classes
<1>7. Phase(e)'
  BY <1>1, <1>2, <1>3, <1>5 DEF Phase, Classes
<1>8. Meaning(e)'
  BY <1>1, <1>2, <1>3, <1>5 DEF Meaning, Phase, Classes, LacksProperties
<1> QED
  BY <1>3, <1>4, <1>6, <1>7, <1>8, OneEnvironment

\* The answer of a query is an error.
LEMMA Fails ==
    ASSUME IInv, NEW e \in Env, QueryFails(e)
    PROVE  IInv'
<1>1. Classes(e) /\ Phase(e) /\ Meaning(e) /\ release \in Releases
      /\ env[e] \in {"none", "loaded", "failed", "gone"}
  BY DEF IInv, TypeOK
<1>2. /\ call[e] = "query answered" /\ env[e] = "loaded"
      /\ Delivered(answer[e]).class # "OperationCanceledError"
      /\ call'[e] = "over"
      /\ promise'[e] = "rejected"
      /\ error'[e] = Delivered(answer[e])
      /\ env'[e] = env[e] /\ addonData'[e] = addonData[e] /\ answer'[e] = answer[e]
      /\ object'[e] = object[e] /\ stream'[e] = stream[e]
  BY <1>1, AlwaysDelivered DEF QueryFails, Runs, IsRejection, IInv, TypeOK, Domains, queryVars
<1>2a. ASSUME answer[e] # NoError
      PROVE  /\ answer[e].category = "columnar_errc" /\ ~LacksProperties(answer[e]) =>
                    /\ Delivered(answer[e]).class = Documented(answer[e].name)
                    /\ Delivered(answer[e]).message
             /\ Delivered(answer[e]).class = "QueryError" =>
                    Delivered(answer[e]).server = answer[e].properties
  <2>1. Exported
    BY <1>1, <1>2 DEF Classes
  <2>2. ASSUME answer[e].category = "columnar_errc", ~LacksProperties(answer[e])
        PROVE  /\ Delivered(answer[e]).class = Documented(answer[e].name)
               /\ Delivered(answer[e]).message
    <3>1. /\ answer[e].name \in ErrorName
          /\ answer[e].value = release["columnar_errc"][answer[e].name]
      BY <1>1, <1>2a, <2>2 DEF Meaning
    <3> QED
      BY <1>1, <2>1, <2>2, <3>1, ColumnarMeaning
  <2>3. answer[e].properties # Absent =>
            answer[e].properties = Present(PropertiesToJs(answer[e].properties[1]))
    BY <1>1, <1>2a DEF Meaning
  <2> QED
    BY <2>2, <2>3, ServerAnswers
<1>3. TypeOK' /\ Domains' /\ LogsGoSomewhere' /\ release' = release
  BY <1>1 DEF QueryFails, Runs, IsRejection, IInv, TypeOK, Stage, Domains, LogsGoSomewhere, queryVars
<1>4. \A d \in Env \ {e} : Same(d)
  BY DEF QueryFails, Runs, IsRejection, IInv, TypeOK, Domains, Same, queryVars
<1>5. /\ Exported' = Exported
      /\ answer'[e] = answer[e] => LacksProperties(answer[e])' = LacksProperties(answer[e])
  BY <1>3 DEF LacksProperties, Exported
<1>6. Classes(e)'
  BY <1>1, <1>2, <1>3, <1>5 DEF Classes
<1>7. Phase(e)'
  BY <1>1, <1>2, <1>3, <1>5 DEF Phase, Classes
<1>8. Meaning(e)'
  BY <1>1, <1>2, <1>3, <1>5, <1>2a, AlwaysDelivered DEF Meaning, Phase, Classes, LacksProperties, NothingThrown
<1> QED
  BY <1>3, <1>4, <1>6, <1>7, <1>8, OneEnvironment

\* A row is asked for.
LEMMA AsksRow ==
    ASSUME IInv, NEW e \in Env, NextRow(e)
    PROVE  IInv'
<1>1. Classes(e) /\ Phase(e) /\ Meaning(e) /\ release \in Releases
      /\ env[e] \in {"none", "loaded", "failed", "gone"}
  BY DEF IInv, TypeOK
<1>2. /\ call[e] = "open"
      /\ call'[e] = "row"
      /\ env'[e] = env[e] /\ addonData'[e] = addonData[e] /\ answer'[e] = answer[e]
      /\ object'[e] = object[e] /\ promise'[e] = promise[e] /\ stream'[e] = stream[e]
      /\ error'[e] = error[e]
  BY DEF NextRow, IInv, TypeOK, Domains, queryVars
<1>3. TypeOK' /\ Domains' /\ LogsGoSomewhere' /\ release' = release
  BY <1>1 DEF NextRow, IInv, TypeOK, Stage, Domains, LogsGoSomewhere, queryVars
<1>4. \A d \in Env \ {e} : Same(d)
  BY DEF NextRow, IInv, TypeOK, Domains, Same, queryVars
<1>5. /\ Exported' = Exported
      /\ answer'[e] = answer[e] => LacksProperties(answer[e])' = LacksProperties(answer[e])
  BY <1>3 DEF LacksProperties, Exported
<1>6. Classes(e)'
  BY <1>1, <1>2, <1>3, <1>5 DEF Classes
<1>7. Phase(e)'
  BY <1>1, <1>2, <1>3, <1>5 DEF Phase, Classes
<1>8. Meaning(e)'
  BY <1>1, <1>2, <1>3, <1>5 DEF Meaning, Phase, Classes, LacksProperties
<1> QED
  BY <1>3, <1>4, <1>6, <1>7, <1>8, OneEnvironment

\* The io thread hands over a row, the end or an error.
LEMMA AnswersRow ==
    ASSUME IInv, NEW e \in Env, CoreAnswersRow(e)
    PROVE  IInv'
<1>1. Classes(e) /\ Phase(e) /\ Meaning(e) /\ release \in Releases
      /\ env[e] \in {"none", "loaded", "failed", "gone"}
  BY DEF IInv, TypeOK
<1>2. /\ call[e] = "row"
      /\ IF env[e] = "loaded"
         THEN call'[e] \in {"row answered", "end answered", "error answered"}
         ELSE call'[e] = "lost"
      /\ answer'[e] = answer[e] \/ \E f \in Failures[e] : answer'[e] = ErrorOf(f)
      /\ env'[e] = env[e] /\ addonData'[e] = addonData[e] /\ object'[e] = object[e]
      /\ promise'[e] = promise[e] /\ stream'[e] = stream[e] /\ error'[e] = error[e]
  BY DEF CoreAnswersRow, Invoke, IInv, TypeOK, Domains, queryVars
<1>3. TypeOK' /\ Domains' /\ LogsGoSomewhere' /\ release' = release
  BY <1>1 DEF CoreAnswersRow, Invoke, IInv, TypeOK, Stage, Domains, LogsGoSomewhere, queryVars
<1>4. \A d \in Env \ {e} : Same(d)
  BY DEF CoreAnswersRow, Invoke, IInv, TypeOK, Domains, Same, queryVars
<1>5. /\ Exported' = Exported
      /\ answer'[e] = answer[e] => LacksProperties(answer[e])' = LacksProperties(answer[e])
  BY <1>3 DEF LacksProperties, Exported
<1>6. Classes(e)'
  BY <1>1, <1>2, <1>3, <1>5 DEF Classes
<1>7. Phase(e)'
  BY <1>1, <1>2, <1>3, <1>5 DEF Phase, Classes
<1>8. Meaning(e)'
  <2>1. error'[e] = NothingThrown /\ promise'[e] # "rejected"
    BY <1>1, <1>2 DEF Phase
  <2>2. CASE answer'[e] = answer[e]
    BY <1>1, <1>3, <2>1, <2>2 DEF Meaning, NothingThrown
  <2>3. CASE \E f \in Failures[e] : answer'[e] = ErrorOf(f)
    BY <1>3, <2>1, <2>3, ErrorsOfFailures DEF Meaning, NothingThrown
  <2> QED
    BY <1>2, <2>2, <2>3
<1> QED
  BY <1>3, <1>4, <1>6, <1>7, <1>8, OneEnvironment

\* A row or the end reaches the stream.
LEMMA TakesRow ==
    ASSUME IInv, NEW e \in Env, RowCallback(e)
    PROVE  IInv'
<1>1. Classes(e) /\ Phase(e) /\ Meaning(e) /\ release \in Releases
      /\ env[e] \in {"none", "loaded", "failed", "gone"}
  BY DEF IInv, TypeOK
<1>2. /\ env[e] = "loaded"
      /\ \/ call[e] = "row answered" /\ call'[e] = "open" /\ stream'[e] = stream[e]
         \/ call[e] = "end answered" /\ call'[e] = "over" /\ stream'[e] = "ended"
      /\ env'[e] = env[e] /\ addonData'[e] = addonData[e] /\ answer'[e] = answer[e]
      /\ object'[e] = object[e] /\ promise'[e] = promise[e] /\ error'[e] = error[e]
  BY DEF RowCallback, Runs, IInv, TypeOK, Domains, queryVars
<1>3. TypeOK' /\ Domains' /\ LogsGoSomewhere' /\ release' = release
  BY <1>1 DEF RowCallback, Runs, IInv, TypeOK, Stage, Domains, LogsGoSomewhere, queryVars
<1>4. \A d \in Env \ {e} : Same(d)
  BY DEF RowCallback, Runs, IInv, TypeOK, Domains, Same, queryVars
<1>5. /\ Exported' = Exported
      /\ answer'[e] = answer[e] => LacksProperties(answer[e])' = LacksProperties(answer[e])
  BY <1>3 DEF LacksProperties, Exported
<1>6. Classes(e)'
  BY <1>1, <1>2, <1>3, <1>5 DEF Classes
<1>7. Phase(e)'
  BY <1>1, <1>2, <1>3, <1>5 DEF Phase, Classes
<1>8. Meaning(e)'
  BY <1>1, <1>2, <1>3, <1>5 DEF Meaning, Phase, Classes, LacksProperties
<1> QED
  BY <1>3, <1>4, <1>6, <1>7, <1>8, OneEnvironment

\* An error of a row reaches the stream, or throws.
LEMMA TakesError ==
    ASSUME IInv, NEW e \in Env, RowError(e)
    PROVE  IInv'
<1>1. Classes(e) /\ Phase(e) /\ Meaning(e) /\ release \in Releases
      /\ env[e] \in {"none", "loaded", "failed", "gone"}
  BY DEF IInv, TypeOK
<1>2. /\ call[e] = "error answered" /\ env[e] = "loaded"
      /\ call'[e] = "over"
      /\ \/ /\ Thrown(answer[e]) = TypeError
            /\ stream'[e] = stream[e] /\ error'[e] = error[e]
         \/ stream'[e] = "failed" /\ error'[e] = Thrown(answer[e])
      /\ env'[e] = env[e] /\ addonData'[e] = addonData[e] /\ answer'[e] = answer[e]
      /\ object'[e] = object[e] /\ promise'[e] = promise[e]
  BY DEF RowError, Runs, IInv, TypeOK, Domains, queryVars
<1>2a. ASSUME answer[e] # NoError
      PROVE  /\ answer[e].category = "columnar_errc" /\ ~LacksProperties(answer[e]) =>
                    /\ Thrown(answer[e]).class = Documented(answer[e].name)
                    /\ Thrown(answer[e]).message
             /\ Thrown(answer[e]).class = "QueryError" =>
                    Thrown(answer[e]).server = answer[e].properties
  <2>1. Exported
    BY <1>1, <1>2 DEF Classes
  <2>2. ASSUME answer[e].category = "columnar_errc", ~LacksProperties(answer[e])
        PROVE  /\ Thrown(answer[e]).class = Documented(answer[e].name)
               /\ Thrown(answer[e]).message
    <3>1. /\ answer[e].name \in ErrorName
          /\ answer[e].value = release["columnar_errc"][answer[e].name]
      BY <1>1, <1>2a, <2>2 DEF Meaning
    <3> QED
      BY <1>1, <2>1, <2>2, <3>1, ColumnarMeaning
  <2>3. answer[e].properties # Absent =>
            answer[e].properties = Present(PropertiesToJs(answer[e].properties[1]))
    BY <1>1, <1>2a DEF Meaning
  <2> QED
    BY <2>2, <2>3, ServerAnswers
<1>3. TypeOK' /\ Domains' /\ LogsGoSomewhere' /\ release' = release
  BY <1>1 DEF RowError, Runs, IInv, TypeOK, Stage, Domains, LogsGoSomewhere, queryVars
<1>4. \A d \in Env \ {e} : Same(d)
  BY DEF RowError, Runs, IInv, TypeOK, Domains, Same, queryVars
<1>5. /\ Exported' = Exported
      /\ answer'[e] = answer[e] => LacksProperties(answer[e])' = LacksProperties(answer[e])
  BY <1>3 DEF LacksProperties, Exported
<1>6. Classes(e)'
  BY <1>1, <1>2, <1>3, <1>5 DEF Classes
<1>7. Phase(e)'
  BY <1>1, <1>2, <1>3, <1>5, OnlyLackingThrows DEF Phase, Classes
<1>8. Meaning(e)'
  BY <1>1, <1>2, <1>3, <1>5, <1>2a DEF Meaning, Phase, Classes, LacksProperties, NothingThrown
<1> QED
  BY <1>3, <1>4, <1>6, <1>7, <1>8, OneEnvironment

\* Reading the metadata.
LEMMA ReadsMetadata ==
    ASSUME IInv, NEW e \in Env, NEW m, ReadMetadata(e, m)
    PROVE  IInv'
<1>1. Classes(e) /\ Phase(e) /\ Meaning(e) /\ release \in Releases
      /\ env[e] \in {"none", "loaded", "failed", "gone"}
  BY DEF IInv, TypeOK
<1>2. /\ env'[e] = env[e] /\ addonData'[e] = addonData[e] /\ call'[e] = call[e]
      /\ answer'[e] = answer[e] /\ object'[e] = object[e] /\ promise'[e] = promise[e]
      /\ stream'[e] = stream[e] /\ error'[e] = error[e]
  BY DEF ReadMetadata, IInv, TypeOK, Domains, queryVars
<1>3. TypeOK' /\ Domains' /\ LogsGoSomewhere' /\ release' = release
  BY <1>1 DEF ReadMetadata, IInv, TypeOK, Stage, Domains, LogsGoSomewhere, queryVars
<1>4. \A d \in Env \ {e} : Same(d)
  BY DEF ReadMetadata, IInv, TypeOK, Domains, Same, queryVars
<1>5. /\ Exported' = Exported
      /\ answer'[e] = answer[e] => LacksProperties(answer[e])' = LacksProperties(answer[e])
  BY <1>3 DEF LacksProperties, Exported
<1>6. Classes(e)'
  BY <1>1, <1>2, <1>3, <1>5 DEF Classes
<1>7. Phase(e)'
  BY <1>1, <1>2, <1>3, <1>5 DEF Phase, Classes
<1>8. Meaning(e)'
  BY <1>1, <1>2, <1>3, <1>5 DEF Meaning, Phase, Classes, LacksProperties
<1> QED
  BY <1>3, <1>4, <1>6, <1>7, <1>8, OneEnvironment

\* The environment ends.
LEMMA Ends ==
    ASSUME IInv, NEW e \in Env, Teardown(e)
    PROVE  IInv'
<1>1. Classes(e) /\ Phase(e) /\ Meaning(e) /\ release \in Releases
      /\ env[e] \in {"none", "loaded", "failed", "gone"}
  BY DEF IInv, TypeOK
<1>2. /\ env'[e] = "gone"
      /\ addonData'[e] = addonData[e] /\ call'[e] = call[e] /\ answer'[e] = answer[e]
      /\ object'[e] = object[e] /\ promise'[e] = promise[e] /\ stream'[e] = stream[e]
      /\ error'[e] = error[e]
  BY DEF Teardown, IInv, TypeOK, Domains, queryVars
<1>3. TypeOK' /\ Domains' /\ LogsGoSomewhere' /\ release' = release
  BY <1>1 DEF Teardown, IInv, TypeOK, Stage, Domains, LogsGoSomewhere, queryVars
<1>4. \A d \in Env \ {e} : Same(d)
  BY DEF Teardown, IInv, TypeOK, Domains, Same, queryVars
<1>5. /\ Exported' = Exported
      /\ answer'[e] = answer[e] => LacksProperties(answer[e])' = LacksProperties(answer[e])
  BY <1>3 DEF LacksProperties, Exported
<1>6. Classes(e)'
  BY <1>1, <1>2, <1>3, <1>5 DEF Classes
<1>7. Phase(e)'
  BY <1>1, <1>2, <1>3, <1>5 DEF Phase, Classes
<1>8. Meaning(e)'
  BY <1>1, <1>2, <1>3, <1>5 DEF Meaning, Phase, Classes, LacksProperties
<1> QED
  BY <1>3, <1>4, <1>6, <1>7, <1>8, OneEnvironment

\* A queued answer is dropped.
LEMMA Drops ==
    ASSUME IInv, NEW e \in Env, Discard(e)
    PROVE  IInv'
<1>1. Classes(e) /\ Phase(e) /\ Meaning(e) /\ release \in Releases
      /\ env[e] \in {"none", "loaded", "failed", "gone"}
  BY DEF IInv, TypeOK
<1>2. /\ env[e] = "gone"
      /\ call[e] \in {"query answered", "row answered", "end answered", "error answered"}
      /\ call'[e] = "discarded"
      /\ env'[e] = env[e] /\ addonData'[e] = addonData[e] /\ answer'[e] = answer[e]
      /\ object'[e] = object[e] /\ promise'[e] = promise[e] /\ stream'[e] = stream[e]
      /\ error'[e] = error[e]
  BY DEF Discard, IInv, TypeOK, Domains, queryVars
<1>3. TypeOK' /\ Domains' /\ LogsGoSomewhere' /\ release' = release
  BY <1>1 DEF Discard, IInv, TypeOK, Stage, Domains, LogsGoSomewhere, queryVars
<1>4. \A d \in Env \ {e} : Same(d)
  BY DEF Discard, IInv, TypeOK, Domains, Same, queryVars
<1>5. /\ Exported' = Exported
      /\ answer'[e] = answer[e] => LacksProperties(answer[e])' = LacksProperties(answer[e])
  BY <1>3 DEF LacksProperties, Exported
<1>6. Classes(e)'
  BY <1>1, <1>2, <1>3, <1>5 DEF Classes
<1>7. Phase(e)'
  BY <1>1, <1>2, <1>3, <1>5 DEF Phase, Classes
<1>8. Meaning(e)'
  BY <1>1, <1>2, <1>3, <1>5 DEF Meaning, Phase, Classes, LacksProperties
<1> QED
  BY <1>3, <1>4, <1>6, <1>7, <1>8, OneEnvironment

-----------------------------------------------------------------------------

LEMMA NextIInv == IInv /\ [Next]_vars => IInv'
<1> SUFFICES ASSUME IInv, [Next]_vars PROVE IInv'
  OBVIOUS
<1>1. ASSUME UNCHANGED <<release, logger, env, addonData, queryVars>> PROVE IInv'
  <2>1. TypeOK' /\ Domains' /\ LogsGoSomewhere' /\ release' = release
    BY <1>1 DEF IInv, TypeOK, Domains, LogsGoSomewhere, queryVars
  <2>2. \A e \in Env : Same(e)
    BY <1>1 DEF Same, queryVars
  <2>3. \A e \in Env : (Classes(e) /\ Phase(e) /\ Meaning(e))'
    BY <2>1, <2>2, SameIsKept DEF IInv
  <2> QED
    BY <2>1, <2>3 DEF IInv
<1>2. CASE SetLogLevel
  BY <1>1, <1>2 DEF SetLogLevel
<1>3. CASE UNCHANGED vars
  BY <1>1, <1>3 DEF vars
<1>4. ASSUME NEW e \in Env,
             \/ LoadAddon(e) \/ EnableProtocolLogger(e) \/ ShutdownLogger(e) \/ Teardown(e)
             \/ \E q \in Queries[e] :
                 \/ ExecuteQueryThrows(e, q) \/ ExecuteQueryInvalid(e, q) \/ ExecuteQuery(e, q)
                 \/ \E f \in Failures[e] : ExecuteQueryRefused(e, q, f)
             \/ CoreAnswersQuery(e) \/ QueryResolves(e) \/ QueryFails(e)
             \/ NextRow(e) \/ CoreAnswersRow(e) \/ RowCallback(e) \/ RowError(e)
             \/ \E m \in Metadatas : ReadMetadata(e, m)
             \/ Discard(e)
      PROVE  IInv'
  <2>1. CASE LoadAddon(e) \/ EnableProtocolLogger(e) \/ ShutdownLogger(e) \/ Teardown(e)
    BY <2>1, Loads, ProtocolLogged, LoggerShut, Ends
  <2>2. CASE \E q \in Queries[e] :
                 \/ ExecuteQueryThrows(e, q) \/ ExecuteQueryInvalid(e, q) \/ ExecuteQuery(e, q)
                 \/ \E f \in Failures[e] : ExecuteQueryRefused(e, q, f)
    BY <2>2, Throws, RejectsInvalid, Sends, Refuses
  <2>3. CASE CoreAnswersQuery(e) \/ QueryResolves(e) \/ QueryFails(e)
    BY <2>3, AnswersQuery, Resolves, Fails
  <2>4. CASE NextRow(e) \/ CoreAnswersRow(e) \/ RowCallback(e) \/ RowError(e)
    BY <2>4, AsksRow, AnswersRow, TakesRow, TakesError
  <2>5. CASE (\E m \in Metadatas : ReadMetadata(e, m)) \/ Discard(e)
    BY <2>5, ReadsMetadata, Drops
  <2> QED
    BY <1>4, <2>1, <2>2, <2>3, <2>4, <2>5
<1> QED
  BY <1>2, <1>3, <1>4 DEF Next

\* Each environment has its own classes and an error that is the core's answer, at
\* every stage of its call.
THEOREM Invariance == Spec => []IInv
BY InitIInv, NextIInv, PTL DEF Spec

\* The variables keep their types, for any environments, queries and releases.
THEOREM AddonTypeCorrect == Spec => []TypeOK
<1>1. IInv => TypeOK
  BY DEF IInv
<1> QED
  BY <1>1, Invariance, PTL

\* The native result of a query is of the class its own environment registered
\* (src/addondata.hpp).
THEOREM ClassesAreOwn == Spec => []OwnClass
<1>1. IInv => OwnClass
  BY DEF IInv, Classes, OwnClass
<1> QED
  BY <1>1, Invariance, PTL

\* The promise of a query whose callback has run is settled, and an open stream
\* waits for an answer, but for a query error without properties
\* (src/connection.cpp:265-281, src/query_result.cpp:73-97).
THEOREM AnswersAreHeard == Spec => []AnswerSettles
<1>1. IInv => AnswerSettles
  <2> SUFFICES ASSUME IInv, NEW e \in Env
               PROVE  /\ promise[e] = "pending" =>
                             \/ call[e] \in {"query", "query answered"}
                             \/ env[e] = "gone" /\ call[e] \in {"lost", "discarded"}
                      /\ stream[e] = "open" /\ call[e] = "over" => LacksProperties(answer[e])
    BY DEF AnswerSettles
  <2>1. Phase(e) /\ call[e] \in Stage
    BY DEF IInv, TypeOK
  <2> QED
    BY <2>1 DEF Phase, Stage
<1> QED
  BY <1>1, Invariance, PTL

\* However a release of the core numbers its errors, an error of the columnar core
\* is of the class documented for it, with the server's answer
\* (src/jstocbpp_errors.hpp, lib/bindingutilities.ts:48-80).
THEOREM ErrorsKeepTheirMeaning == Spec => []ErrorKeepsItsMeaning
<1>1. IInv => ErrorKeepsItsMeaning
  BY DEF IInv, Meaning, ErrorKeepsItsMeaning
<1> QED
  BY <1>1, Invariance, PTL

\* A level other than off goes with a console logger (src/binding.cpp:60-91).
THEOREM LevelsHaveLoggers == Spec => []LogsGoSomewhere
<1>1. IInv => LogsGoSomewhere
  BY DEF IInv
<1> QED
  BY <1>1, Invariance, PTL

-----------------------------------------------------------------------------
(* The end of an environment *)

\* What an application of an environment can see.
SeenSame(e) ==
    /\ promise'[e] = promise[e] /\ stream'[e] = stream[e]
    /\ error'[e] = error[e] /\ metadata'[e] = metadata[e]

LEMMA StepSparesTheDead ==
    ASSUME IInv, Next, NEW e \in Env, env[e] = "gone"
    PROVE  SeenSame(e)
<1> USE DEF SeenSame
<1>1. CASE SetLogLevel
  BY <1>1 DEF SetLogLevel, queryVars
<1>2. ASSUME NEW f \in Env,
             LoadAddon(f) \/ EnableProtocolLogger(f) \/ ShutdownLogger(f) \/ Teardown(f)
      PROVE  SeenSame(e)
  BY <1>2 DEF LoadAddon, EnableProtocolLogger, ShutdownLogger, Teardown, queryVars
<1>3. ASSUME NEW f \in Env, NEW q,
             ExecuteQueryThrows(f, q) \/ ExecuteQueryInvalid(f, q) \/ ExecuteQuery(f, q)
      PROVE  SeenSame(e)
  BY <1>3 DEF ExecuteQueryThrows, ExecuteQueryInvalid, ExecuteQuery, SendQuery, CanQuery,
              IInv, TypeOK, Domains
<1>4. ASSUME NEW f \in Env, NEW q, NEW x, ExecuteQueryRefused(f, q, x)
      PROVE  SeenSame(e)
  BY <1>4 DEF ExecuteQueryRefused, SendQuery, CanQuery, IInv, TypeOK, Domains
<1>5. ASSUME NEW f \in Env, CoreAnswersQuery(f) \/ QueryResolves(f) \/ QueryFails(f)
      PROVE  SeenSame(e)
  BY <1>5 DEF CoreAnswersQuery, QueryResolves, QueryFails, Runs, IInv, TypeOK, Domains
<1>6. ASSUME NEW f \in Env,
             NextRow(f) \/ CoreAnswersRow(f) \/ RowCallback(f) \/ RowError(f) \/ Discard(f)
      PROVE  SeenSame(e)
  BY <1>6 DEF NextRow, CoreAnswersRow, RowCallback, RowError, Discard, Runs, IInv, TypeOK, Domains
<1>7. ASSUME NEW f \in Env, NEW m, ReadMetadata(f, m)
      PROVE  SeenSame(e)
  BY <1>7 DEF ReadMetadata, IInv, TypeOK, Domains
<1> QED
  BY <1>1, <1>2, <1>3, <1>4, <1>5, <1>6, <1>7 DEF Next

\* No answer changes what an application of an ended environment could see
\* (the null check of jscbForward, src/connection.cpp:33-46).
THEOREM TheDeadAreSpared == Spec => DeadEnvironmentUntouched
<1>1. IInv /\ [Next]_vars =>
          [\A e \in Env : env[e] = "gone" =>
               UNCHANGED <<promise[e], stream[e], error[e], metadata[e]>>]_vars
  BY StepSparesTheDead DEF SeenSame
<1> QED
  BY <1>1, Invariance, PTL DEF Spec, DeadEnvironmentUntouched

-----------------------------------------------------------------------------
(* The metadata *)

LEMMA MillisecondsOf ==
    ASSUME NEW ns \in Nat
    PROVE  InMilliseconds(FromNanoseconds(ns).num, ns)
BY DEF InMilliseconds, FromNanoseconds, Number, NanosInMilli

\* What metadata() makes of what the core knows says the same.
LEMMA MetadataIsTold ==
    ASSUME NEW m \in Metadatas
    PROVE  Says(QueryMetadata(MetadataToJs(m)), m)
<1> DEFINE told == QueryMetadata(MetadataToJs(m))
<1>1. /\ told.elapsedTime = FromNanoseconds(m.metrics.elapsed_time).num
      /\ told.executionTime = FromNanoseconds(m.metrics.execution_time).num
      /\ told.resultCount = m.metrics.result_count
      /\ told.resultSize = m.metrics.result_size
      /\ told.processedObjects = m.metrics.processed_objects
  BY DEF QueryMetadata, MetadataToJs, MetricsToJs, Number
<1>2. told.warnings = [i \in 1..Len(m.warnings) |->
                          [code |-> Number(m.warnings[i].code),
                           message |-> Text(m.warnings[i].message)]]
  <2>1. Len(m.warnings) \in Nat
    BY MetadatasAssumption
  <2> DEFINE items == [i \in 1..Len(m.warnings) |-> WarningToJs(m.warnings[i])]
  <2>2. MetadataToJs(m).warnings.items = items
    BY DEF MetadataToJs, WarningsToJs, Array
  <2>3. Len(items) = Len(m.warnings)
    BY <2>1
  <2>4. told.warnings = [i \in 1..Len(items) |-> items[i].props]
    BY <2>2 DEF QueryMetadata
  <2> QED
    BY <2>3, <2>4 DEF WarningToJs, Object
<1>3. /\ Len(told.warnings) = Len(m.warnings)
      /\ \A i \in 1..Len(m.warnings) :
             /\ told.warnings[i].code.num = m.warnings[i].code
             /\ told.warnings[i].message.text = m.warnings[i].message
  BY <1>2, MetadatasAssumption DEF Number, Text
<1>4. /\ InMilliseconds(told.elapsedTime, m.metrics.elapsed_time)
      /\ InMilliseconds(told.executionTime, m.metrics.execution_time)
  BY <1>1, MillisecondsOf, MetadatasAssumption
<1> QED
  BY <1>1, <1>3, <1>4 DEF Says

\* metadata() says what the core knew of a query at its end
\* (src/jstocbpp_autogen.hpp:121-180, lib/queryexecutor.ts:136-157).
THEOREM MetadataIsWhatTheCoreKnew == Spec => []MetadataArrives
<1>1. Init => MetadataArrives
  BY DEF Init, MetadataArrives
<1>2. IInv /\ MetadataArrives /\ [Next]_vars => MetadataArrives'
  <2> SUFFICES ASSUME IInv, MetadataArrives, [Next]_vars PROVE MetadataArrives'
    OBVIOUS
  <2>1. ASSUME NEW e \in Env, NEW m \in Metadatas, ReadMetadata(e, m)
        PROVE  MetadataArrives'
    <3> SUFFICES ASSUME NEW f \in Env, metadata'[f] # Absent
                 PROVE  Says(metadata'[f][1].js, metadata'[f][1].core)
      BY DEF MetadataArrives
    <3>1. CASE f = e
      <4>1. metadata'[f] = Present([core |-> m, js |-> QueryMetadata(MetadataToJs(m))])
        BY <2>1, <3>1 DEF ReadMetadata, IInv, Domains
      <4> QED
        BY <4>1, MetadataIsTold DEF Present
    <3>2. CASE f # e
      <4>1. metadata'[f] = metadata[f]
        BY <2>1, <3>2 DEF ReadMetadata, IInv, Domains
      <4> QED
        BY <4>1 DEF MetadataArrives
    <3> QED
      BY <3>1, <3>2
  <2>2. CASE metadata' = metadata
    BY <2>2 DEF MetadataArrives
  <2>3. CASE UNCHANGED vars
    BY <2>2, <2>3 DEF vars, queryVars
  <2>4. CASE Next
    BY <2>1, <2>2, <2>4
       DEF Next, SetLogLevel, LoadAddon, EnableProtocolLogger, ShutdownLogger, Teardown,
           ExecuteQueryThrows, ExecuteQueryInvalid, ExecuteQuery, ExecuteQueryRefused,
           CoreAnswersQuery, QueryResolves, QueryFails, NextRow, CoreAnswersRow, RowCallback,
           RowError, Discard, queryVars
  <2> QED
    BY <2>3, <2>4
<1> QED
  BY <1>1, <1>2, Invariance, PTL DEF Spec

-----------------------------------------------------------------------------
(* What the core is asked *)

\* The positional parameters of a request: one for each that was passed.
LEMMA ParametersKeepTheirPlaces ==
    ASSUME NEW e \in Env, NEW q \in Queries[e], q.positionalParameters.js = "array"
    PROVE  InTheirPlaces(ToTexts(PositionalParameters(q.positionalParameters)),
                         q.positionalParameters.items)
<1> DEFINE v == q.positionalParameters
           asked == v.items
           n == Len(asked)
           item(i) == IF IsUnset(asked[i]) THEN Null ELSE asked[i]
           passed == [i \in 1..n |-> Stringify(item(i))]
           sent == ToTexts(PositionalParameters(v))
<1>1. n \in Nat /\ \A i \in 1..n : asked[i].js = "string" => Quoted(asked[i].text) # "null"
  BY QueriesAssumption
<1>2. PositionalParameters(v) = Array(passed)
  BY DEF PositionalParameters, IsUnset
<1> HIDE DEF v, n, asked, item
<1>3. /\ ~IsUnset(Array(passed)) /\ Array(passed).items = passed /\ Len(passed) = n
      /\ \A i \in 1..n : passed[i] = Stringify(item(i))
  BY <1>1 DEF Array, IsUnset
<1> HIDE DEF passed
<1>4. sent = [i \in 1..n |-> ToText(passed[i])]
  BY <1>2, <1>3 DEF ToTexts
<1> HIDE DEF sent
<1>5. Len(sent) = n
  BY <1>1, <1>4
<1>6. ASSUME NEW i \in 1..n
      PROVE  /\ IsUnset(asked[i]) <=> sent[i] = "null"
             /\ asked[i].js = "string" => sent[i] = Quoted(asked[i].text)
  <2>1. sent[i] = ToText(Stringify(item(i)))
    BY <1>3, <1>4
  <2>2. CASE IsUnset(asked[i])
    <3>1. item(i) = Null /\ asked[i].js # "string"
      BY <2>2 DEF item, IsUnset
    <3>2. ToText(Stringify(Null)) = "null"
      BY DEF Stringify, Null, Text, ToText
    <3> QED
      BY <2>1, <2>2, <3>1, <3>2
  <2>3. CASE ~IsUnset(asked[i])
    <3>1. item(i) = asked[i] /\ asked[i].js # "null"
      BY <2>3 DEF item, IsUnset
    <3>2. CASE asked[i].js = "string"
      <4>1. sent[i] = Quoted(asked[i].text)
        BY <2>1, <3>1, <3>2 DEF Stringify, Text, ToText
      <4>2. Quoted(asked[i].text) # "null"
        BY <1>1, <3>2
      <4> QED
        BY <2>3, <4>1, <4>2
    <3>3. CASE asked[i].js # "string"
      <4>1. sent[i] = ""
        BY <2>1, <3>1, <3>3 DEF Stringify, Undefined, ToText, IsUnset
      <4> QED
        BY <2>3, <3>3, <4>1
    <3> QED
      BY <3>2, <3>3
  <2> QED
    BY <2>2, <2>3
<1> QED
  BY <1>5, <1>6 DEF InTheirPlaces, n, asked, v, sent

\* The keys of named_parameters and of raw, and their values.
LEMMA DefinedParametersArrive ==
    ASSUME NEW v
    PROVE  SameParameters(ToTextMap(DefinedProperties(v)), v)
<1>1. CASE IsUnset(v)
  <2>1. DefinedProperties(v) = Object(<<>>)
    BY <1>1 DEF DefinedProperties
  <2>2. DOMAIN ToTextMap(Object(<<>>)) = {}
    BY DEF ToTextMap, Object, IsUnset
  <2> QED
    BY <1>1, <2>1, <2>2 DEF SameParameters
<1>2. CASE ~IsUnset(v)
  <2> DEFINE keys == {k \in DOMAIN v.props : ~IsUndefined(v.props[k])}
             props == [k \in keys |-> Stringify(v.props[k])]
  <2>1. DefinedProperties(v) = Object(props)
    BY <1>2 DEF DefinedProperties
  <2>2. DOMAIN props = keys
    OBVIOUS
  <2> HIDE DEF props, keys
  <2>3. DOMAIN ToTextMap(Object(props)) = DOMAIN props
    BY DEF ToTextMap, Object, IsUnset
  <2>4. ASSUME NEW k \in keys, v.props[k].js = "string"
        PROVE  ToTextMap(Object(props))[k] = Quoted(v.props[k].text)
    <3>1. ToTextMap(Object(props))[k] = ToText(props[k])
      BY <2>2 DEF ToTextMap, Object, IsUnset
    <3>2. props[k] = Text(Quoted(v.props[k].text))
      BY <2>4 DEF props, Stringify
    <3> QED
      BY <3>1, <3>2 DEF ToText, Text
  <2> QED
    BY <1>2, <2>1, <2>2, <2>3, <2>4 DEF SameParameters, keys
<1> QED
  BY <1>1, <1>2

\* What js_to_cbpp makes of a query that is sent.
LEMMA RequestAsks ==
    ASSUME NEW e \in Env, NEW q \in Queries[e],
           ~TimeoutIsNegative(q.timeout), ScanConsistencyIsValid(q.scanConsistency)
    PROVE  Asks(RequestOf(q), q)
<1> DEFINE r == RequestOf(q)
<1>1. /\ IsNamed(r.database_name, q.database) /\ IsNamed(r.scope_name, q.scope)
      /\ IsGiven(r.priority, q.priority) /\ IsGiven(r.read_only, q.readOnly)
      /\ IsGiven(r.timeout, q.timeout)
  <2>1. \A v, converted : IsGiven(ToOptional(v, converted), v)
    BY DEF IsGiven, ToOptional, Absent, Present
  <2>2. \A v : IsNamed(ToOptional(v, ToText(v)), v)
    BY <2>1 DEF IsNamed, ToOptional, IsUndefined, ToText
  <2> QED
    BY <2>1, <2>2 DEF RequestOf
<1>2. ASSUME q.priority.js = "boolean" PROVE r.priority = Present(q.priority.bool)
  <2>1. q.priority.bool \in BOOLEAN
    BY <1>2, QueriesAssumption
  <2>2. ToBool(q.priority) = q.priority.bool
    BY <1>2, <2>1 DEF ToBool
  <2>3. r.priority = ToOptional(q.priority, ToBool(q.priority))
    BY DEF RequestOf
  <2> QED
    BY <1>2, <2>2, <2>3 DEF ToOptional, IsUndefined
<1>3. ASSUME q.timeout.js = "number"
      PROVE  r.timeout = Present(q.timeout.num) /\ q.timeout.num >= 0
  <2>1. q.timeout.num \in Int
    BY <1>3, QueriesAssumption
  <2>2. r.timeout = ToOptional(q.timeout, ToMilliseconds(q.timeout))
    BY DEF RequestOf
  <2>3. ToMilliseconds(q.timeout) = q.timeout.num /\ ~IsUndefined(q.timeout)
    BY <1>3 DEF ToMilliseconds, ToInt64, IsUnset, IsUndefined
  <2> QED
    BY <1>3, <2>1, <2>2, <2>3 DEF ToOptional, TimeoutIsNegative
<1>4. r.scan_consistency =
          IF q.scanConsistency.js = "string" /\ q.scanConsistency.text # ""
          THEN Present(release["columnar_query_scan_consistency"][q.scanConsistency.text])
          ELSE Absent
  <2> DEFINE v == q.scanConsistency
             number == release["columnar_query_scan_consistency"][v.text]
  <2>1. r.scan_consistency = ToOptional(ScanConsistency(v), ToEnum(ScanConsistency(v)))
    BY DEF RequestOf
  <2> HIDE DEF v, number
  <2>2. CASE ToBool(v)
    <3>1. v \in {Text("not_bounded"), Text("request_plus")}
      BY <2>2 DEF ScanConsistencyIsValid, v
    <3>2. v.js = "string" /\ v.text # ""
      <4>1. CASE v = Text("not_bounded")
        BY <4>1 DEF Text
      <4>2. CASE v = Text("request_plus")
        BY <4>2 DEF Text
      <4> QED
        BY <3>1, <4>1, <4>2
    <3>3. ScanConsistency(v) = Number(number)
      BY <2>2 DEF ScanConsistency, number
    <3>4. ToOptional(Number(number), ToEnum(Number(number))) = Present(number)
      BY DEF ToOptional, ToEnum, ToInt64, Number, IsUndefined
    <3> QED
      BY <2>1, <3>2, <3>3, <3>4 DEF v, number
  <2>3. CASE ~ToBool(v)
    <3>1. ~(v.js = "string" /\ v.text # "")
      BY <2>3 DEF ToBool
    <3>2. ScanConsistency(v) = Undefined
      BY <2>3 DEF ScanConsistency
    <3> QED
      <4>1. r.scan_consistency = Absent
        BY <2>1, <3>2 DEF ToOptional, Undefined, IsUndefined
      <4> QED
        BY <3>1, <4>1 DEF v
  <2> QED
    BY <2>2, <2>3
<1>5. q.positionalParameters.js = "array" =>
          InTheirPlaces(r.positional_parameters, q.positionalParameters.items)
  BY ParametersKeepTheirPlaces DEF RequestOf
<1>6. SameParameters(r.named_parameters, q.namedParameters) /\ SameParameters(r.raw, q.raw)
  BY DefinedParametersArrive DEF RequestOf
<1> HIDE DEF r
<1>7. Asks(r, q)
  BY <1>1, <1>2, <1>3, <1>4, <1>5, <1>6 DEF Asks
<1> QED
  BY <1>7 DEF r

\* A request is made once, of the query that is kept beside it.
Asked(e) ==
    /\ promise[e] = "none" => request[e] = Absent
    /\ request[e] # Absent => Asks(request[e][1], query[e][1])

AskedInv == DOMAIN query = Env /\ DOMAIN request = Env /\ \A e \in Env : Asked(e)

\* The core is asked what the application asked (lib/queryexecutor.ts:166-203,
\* src/jstocbpp_autogen.hpp): for any query of any environment.
THEOREM EveryOptionIsAsked == Spec => []RequestSaysWhatWasAsked
<1>1. Init => AskedInv
  BY DEF Init, AskedInv, Asked
<1>2. IInv /\ AskedInv /\ [Next]_vars => AskedInv'
  <2> SUFFICES ASSUME IInv, AskedInv, [Next]_vars PROVE AskedInv'
    OBVIOUS
  <2>1. release' = release /\ \A r, q : Asks(r, q)' = Asks(r, q)
    <3>1. release' = release
      <4>1. CASE UNCHANGED vars
        BY <4>1 DEF vars
      <4>2. ASSUME NEW e \in Env, NEW q \in Queries[e],
                   \/ ExecuteQueryThrows(e, q) \/ ExecuteQueryInvalid(e, q) \/ ExecuteQuery(e, q)
                   \/ \E f \in Failures[e] : ExecuteQueryRefused(e, q, f)
            PROVE  release' = release
        BY <4>2 DEF ExecuteQueryThrows, ExecuteQueryInvalid, ExecuteQuery, ExecuteQueryRefused
      <4>3. CASE Next
        BY <4>2, <4>3
           DEF Next, SetLogLevel, LoadAddon, EnableProtocolLogger, ShutdownLogger, Teardown,
               CoreAnswersQuery, QueryResolves, QueryFails, NextRow, CoreAnswersRow,
               RowCallback, RowError, ReadMetadata, Discard
      <4> QED
        BY <4>1, <4>3
    <3> QED
      BY <3>1 DEF Asks, IsGiven, IsNamed, SameParameters, InTheirPlaces
  <2>2. ASSUME query' = query, request' = request,
               \A e \in Env : promise[e] # "none" => promise'[e] # "none"
        PROVE  AskedInv'
    BY <2>1, <2>2 DEF AskedInv, Asked
  <2>3. ASSUME NEW e \in Env, NEW q, query' = [query EXCEPT ![e] = Present(q)],
               \/ request' = request
               \/ request' = [request EXCEPT ![e] = Present(RequestOf(q))] /\ Asks(RequestOf(q), q),
               CanQuery(e), promise'[e] # "none",
               \A d \in Env \ {e} : promise'[d] = promise[d]
        PROVE  AskedInv'
    <3>1. DOMAIN query' = Env /\ DOMAIN request' = Env
      BY <2>3 DEF AskedInv
    <3>2. Asked(e)'
      BY <2>1, <2>3 DEF AskedInv, Asked, CanQuery, Present
    <3>3. \A d \in Env \ {e} : Asked(d)'
      BY <2>1, <2>3 DEF AskedInv, Asked
    <3> QED
      BY <3>1, <3>2, <3>3 DEF AskedInv
  <2>4. DOMAIN promise = Env
    BY DEF IInv, TypeOK
  <2>5. ASSUME NEW e \in Env, NEW q \in Queries[e], ExecuteQueryThrows(e, q) PROVE AskedInv'
    BY <2>3, <2>4, <2>5 DEF ExecuteQueryThrows
  <2>6. ASSUME NEW e \in Env, NEW q \in Queries[e], ExecuteQueryInvalid(e, q) PROVE AskedInv'
    BY <2>3, <2>4, <2>6 DEF ExecuteQueryInvalid
  <2>7. ASSUME NEW e \in Env, NEW q \in Queries[e], SendQuery(e, q),
               promise' = [promise EXCEPT ![e] = "pending"]
                   \/ promise' = [promise EXCEPT ![e] = "rejected"]
        PROVE  AskedInv'
    <3>1. Asks(RequestOf(q), q)
      BY <2>7, RequestAsks DEF SendQuery
    <3> QED
      BY <2>3, <2>4, <2>7, <3>1 DEF SendQuery
  <2>8. ASSUME NEW e \in Env, QueryResolves(e) \/ QueryFails(e) PROVE AskedInv'
    BY <2>2, <2>4, <2>8 DEF QueryResolves, QueryFails
  <2>9. CASE UNCHANGED <<query, request, promise>>
    BY <2>2, <2>9
  <2>10. CASE UNCHANGED vars
    BY <2>9, <2>10 DEF vars, queryVars
  <2>11. CASE Next
    BY <2>5, <2>6, <2>7, <2>8, <2>9, <2>11
       DEF Next, SetLogLevel, LoadAddon, EnableProtocolLogger, ShutdownLogger, Teardown,
           ExecuteQuery, ExecuteQueryRefused, CoreAnswersQuery, NextRow, CoreAnswersRow,
           RowCallback, RowError, ReadMetadata, Discard, queryVars
  <2> QED
    BY <2>10, <2>11
<1>3. AskedInv => RequestSaysWhatWasAsked
  BY DEF AskedInv, Asked, RequestSaysWhatWasAsked
<1> QED
  BY <1>1, <1>2, <1>3, Invariance, PTL DEF Spec
=============================================================================
