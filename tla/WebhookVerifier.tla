--------------------------- MODULE WebhookVerifier ---------------------------
(***************************************************************************)
(* What a receiver computes about one request: the fields of the header    *)
(* X-Outbox-Signature, the checks of WebhookVerifier::verify in the order  *)
(* in which they are made, the axum extractor around them and the status   *)
(* of the response to a request it rejects.                                *)
(*                                                                         *)
(* An Option is a sequence of at most one element.  Times are counted in   *)
(* ticks, PerSecond of them to a second.  The HMAC of a message is that    *)
(* message: no two messages have the same digest.                          *)
(***************************************************************************)
EXTENDS Integers, Sequences

CONSTANT PerSecond  \* ticks in a second

ASSUME PerSecondAssumption == PerSecond \in Nat \ {0}

None    == <<>>
Some(v) == <<v>>

\* A header: none; one that is not visible ASCII; or text, the parts between
\* its commas with the blanks around them trimmed (no part: the empty text).
Absent      == [form |-> "absent", parts |-> <<>>]
Opaque      == [form |-> "opaque", parts |-> <<>>]
Text(parts) == [form |-> "text",   parts |-> parts]

\* A part t=..., v1=... or any other; value is None if it does not parse, as a
\* decimal number or as hexadecimal digits.
Part(name, value) == [name |-> name, value |-> value]

\* Why a request is rejected.
VerifyError ==
  {"MissingHeader", "MalformedHeader", "BodyRead", "TimestampOutOfTolerance",
   "InvalidSignature", "BodyParse"}

\* The digest of "<timestamp>.<body>" under a secret.
Hmac(secret, ts, body) == [secret |-> secret, ts |-> ts, body |-> body]

\* The header the dispatcher sets.
Sign(secret, ts, body) ==
  Text(<<Part("t", Some(ts)), Part("v1", Some(Hmac(secret, ts, body)))>>)

\* The first field of that name decides, whether or not its value parses.
Field(parts, name) ==
  LET first == {i \in DOMAIN parts : /\ parts[i].name = name
                                    /\ \A j \in 1..i - 1 : parts[j].name # name}
  IN  IF first = {} THEN None ELSE parts[CHOOSE i \in first : TRUE].value

parse_t_field(parts)    == Field(parts, "t")
parse_v1_decoded(parts) == Field(parts, "v1")

as_secs(ticks) == ticks \div PerSecond

abs_diff(a, b) == IF a < b THEN b - a ELSE a - b

\* Mutant: timestamps from the future are let through.
InTolerance_Past(tolerance, now, ts) ==
  now >= 0 /\ as_secs(now) - ts <= as_secs(tolerance)

\* The drift, in whole seconds, is at most the whole seconds of the tolerance.
\* A clock before the epoch tolerates nothing.
InTolerance(tolerance, now, ts) ==
  now >= 0 /\ abs_diff(as_secs(now), ts) <= as_secs(tolerance)

\* Mutant: the body is left out of the comparison.
verify_decoded_NoBody(secret, ts, body, digest) ==
  digest.secret = secret /\ digest.ts = ts

verify_decoded(secret, ts, body, digest) == digest = Hmac(secret, ts, body)

\* The error of the header alone.
HeaderError(parts) ==
  IF parts = <<>> THEN "MissingHeader"
  ELSE IF None \in {parse_t_field(parts), parse_v1_decoded(parts)}
       THEN "MalformedHeader" ELSE "none"

\* The verifier's answer to the parts of a header and a body at a time of the
\* receiver's clock: the name of the error, or "none" for Ok(()).
verify(verifier, now, parts, body) ==
  IF HeaderError(parts) # "none" THEN HeaderError(parts)
  ELSE LET ts     == parse_t_field(parts)[1]
           digest == parse_v1_decoded(parts)[1]
       IN  IF ~ InTolerance(verifier.tolerance, now, ts)
           THEN "TimestampOutOfTolerance"
           ELSE IF ~ verify_decoded(verifier.secret, ts, body, digest)
                THEN "InvalidSignature" ELSE "none"

\* Mutant: the body is deserialised before its signature is checked.
verify_and_parse_Early(verifier, now, parts, body, parses) ==
  IF ~ parses THEN "BodyParse" ELSE verify(verifier, now, parts, body)

\* The same, and then the body must deserialise into the handler's type.
verify_and_parse(verifier, now, parts, body, parses) ==
  LET error == verify(verifier, now, parts, body)
  IN  IF error = "none" /\ ~ parses THEN "BodyParse" ELSE error

\* The extractor: the header, then the body from the transport, then both.
from_request(verifier, now, header, read, body, parses) ==
  IF header.form = "absent" THEN "MissingHeader"
  ELSE IF header.form = "opaque" THEN "MalformedHeader"
  ELSE IF ~ read THEN "BodyRead"
  ELSE verify_and_parse(verifier, now, header.parts, body, parses)

\* Mutant: a body of another type is acknowledged.
into_response_Acknowledged(error) ==
  CASE error \in {"MissingHeader", "MalformedHeader", "BodyRead"} -> 400
    [] error \in {"TimestampOutOfTolerance", "InvalidSignature"}  -> 401
    [] error = "BodyParse"                                        -> 200

\* The status of a rejection.
into_response(error) ==
  CASE error \in {"MissingHeader", "MalformedHeader", "BodyRead"} -> 400
    [] error \in {"TimestampOutOfTolerance", "InvalidSignature"}  -> 401
    [] error = "BodyParse"                                        -> 422

=============================================================================
