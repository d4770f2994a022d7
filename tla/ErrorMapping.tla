---------------------------- MODULE ErrorMapping ----------------------------
(***************************************************************************)
(* How an error of the core becomes the error an application sees:         *)
(* cbpp_to_js makes a JavaScript object of it (src/jstocbpp_errors.hpp),   *)
(* and errorFromCpp chooses a class (lib/bindingutilities.ts) by the       *)
(* enumeration columnar_errc the addon exports (src/constants.cpp).        *)
(*                                                                         *)
(* An error of the core has the category of its error_code, the number and *)
(* the name of that code, and the server's answer when there was one. A    *)
(* message is not modelled; whether there is one is.                       *)
(***************************************************************************)
EXTENDS Marshalling

Category == {"columnar_errc", "columnar_client_errc", "other"}
ErrorName == {"generic", "invalid_credential", "timeout", "query_error"}

\* A code of 0 is success, whatever the category.
NoError == [category |-> "columnar_errc", value |-> 0, name |-> "generic",
            properties |-> Absent]

\* query_error_properties.
PropertiesToJs(p) == [code |-> p.code, server_message |-> p.server_message]

\* Bug: the server's answer is left behind.
WithoutProperties(error) ==
    [client_err_code |-> IF error.category = "columnar_client_errc"
                         THEN Present(error.name) ELSE Absent,
     code |-> Present(error.value), message_and_ctx |-> TRUE,
     query_error_properties |-> Absent]

\* js_to_cbpp_t<columnar::error>::to_js, of an error that is one. Every other
\* category's name goes to core_err_code, which nothing reads.
ErrorToJs(error) ==
    [client_err_code |-> IF error.category = "columnar_client_errc"
                         THEN Present(error.name) ELSE Absent,
     code |-> Present(error.value), message_and_ctx |-> TRUE,
     query_error_properties |-> IF error.properties = Absent THEN Absent
                                ELSE Present(PropertiesToJs(error.properties[1]))]

\* A TypeError, handed to errorFromCpp as if it came from the core.
TypeErrorJs == [client_err_code |-> Absent, code |-> Absent, message_and_ctx |-> FALSE,
                query_error_properties |-> Absent]

\* What an application is given: a class, whether it has a message, and the
\* server's code and message if it is a QueryError.
Plain(class, err) == [class |-> class, message |-> err.message_and_ctx, server |-> Absent]

PlainError == [class |-> "Error", message |-> TRUE, server |-> Absent]
TypeError == [class |-> "TypeError", message |-> TRUE, server |-> Absent]

\* Without properties it is undefined that is asked for a server_message.
QueryErrorOf(err) ==
    IF err.query_error_properties = Absent THEN TypeError
    ELSE [class |-> "QueryError", message |-> err.message_and_ctx,
          server |-> err.query_error_properties]

\* errorFromCpp, or the TypeError it throws. The switch takes the first case that
\* matches the number, whichever category the number is from.
ErrorFromCpp(err, errc) ==
    IF err.client_err_code = Present("canceled") THEN Plain("OperationCanceledError", err)
    ELSE IF err.code = Present(errc["generic"]) THEN Plain("ColumnarError", err)
    ELSE IF err.code = Present(errc["invalid_credential"]) THEN Plain("InvalidCredentialError", err)
    ELSE IF err.code = Present(errc["timeout"]) THEN Plain("TimeoutError", err)
    ELSE IF err.code = Present(errc["query_error"]) THEN QueryErrorOf(err)
    ELSE IF err.code = Present(6) THEN Plain("InvalidCredentialError", err)
    ELSE Plain("ColumnarError", err)
=============================================================================
