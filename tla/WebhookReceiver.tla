--------------------------- MODULE WebhookReceiver ---------------------------
(***************************************************************************)
(* The receiving end: a dispatcher posts the deliveries of events to an    *)
(* endpoint whose handler takes an OutboxWebhook.  Between them the        *)
(* network loses, delays and repeats requests, loses answers, and what     *)
(* sits on the way (a proxy, a broken connection) may change a request.    *)
(*                                                                         *)
(* The dispatcher is not in this repository.  It is modelled from the      *)
(* columns of outbox_deliveries and from what the receiver example says it *)
(* does with the status of an answer.                                      *)
(***************************************************************************)
EXTENDS WebhookVerifier, FiniteSets, Functions

CONSTANTS
  Event,        \* the events with a delivery to this endpoint
  Tolerance,    \* the verifier's tolerance, in ticks
  Skews,        \* how far the receiver's clock may be ahead of the dispatcher's
  Start,        \* the time at which the dispatcher starts
  MaxTime,      \* bound: the last time at which something happens
  MaxAttempts   \* the attempts after which the dispatcher gives up

ASSUME ReceiverAssumption ==
  /\ Tolerance \in Nat
  /\ Skews \subseteq Int
  /\ Start \in Nat /\ MaxTime \in Nat
  /\ MaxAttempts \in Nat \ {0}

VARIABLES
  now,       \* the dispatcher's clock
  skew,      \* the receiver's clock minus the dispatcher's
  mistyped,  \* the events whose payload is not of the handler's type
  delivery,  \* the state of each event's row of outbox_deliveries
  attempts,  \* how often each was sent
  requests,  \* every request sent: the network may deliver each again
  finished,  \* the events for which the handler returned 2xx
  refused,   \* the events for which the handler returned 4xx
  last       \* the last request received, and what became of it

dispatcher == <<delivery, attempts, requests>>
receiver   == <<finished, refused, last>>
setting    == <<skew, mistyped>>
vars       == <<now, setting, dispatcher, receiver>>

Body     == [event : Event, attempt : 0..MaxAttempts]
secret   == "shared secret"
verifier == [secret |-> secret, tolerance |-> Tolerance]

\* No request has been received.
Nothing == [error |-> "nothing"]

-----------------------------------------------------------------------------
(* The dispatcher *)

\* Mutant: failed attempts are made again without end.
Dispatch_Unbounded(e) ==
  /\ delivery[e] = "pending"
  /\ attempts' = [attempts EXCEPT ![e] = @ + 1]
  /\ delivery' = [delivery EXCEPT ![e] = "awaiting"]
  /\ UNCHANGED <<now, setting, requests, receiver>>

\* An attempt is made: a request is signed and sent.
Dispatch(e) ==
  /\ delivery[e] = "pending"
  /\ attempts[e] < MaxAttempts
  /\ attempts' = [attempts EXCEPT ![e] = @ + 1]
  /\ delivery' = [delivery EXCEPT ![e] = "awaiting"]
  /\ LET body == [event |-> e, attempt |-> attempts[e] + 1]
     IN  requests' = requests \cup
           {[header |-> Sign(secret, as_secs(now), body), body |-> body]}
  /\ UNCHANGED <<now, setting, receiver>>

\* What an answer with this status makes of the delivery.
Outcome(status) ==
  CASE status \in 200..299 -> "done"
    [] status \in 400..499 -> "dead"
    [] status \in 500..599 -> "pending"

\* The answer to an attempt arrives, if it is still awaited.
Answered(e, attempt, status) ==
  /\ delivery[e] = "awaiting"
  /\ attempts[e] = attempt
  /\ delivery' = [delivery EXCEPT ![e] = Outcome(status)]
  /\ UNCHANGED <<attempts, requests>>

\* No answer arrives in time: the attempt has failed and may be made again.
TimedOut(e) ==
  /\ delivery[e] = "awaiting"
  /\ delivery' = [delivery EXCEPT ![e] = "pending"]
  /\ UNCHANGED <<now, setting, attempts, requests, receiver>>

\* All attempts have failed: the row becomes a dead letter.
GiveUp(e) ==
  /\ delivery[e] = "pending"
  /\ attempts[e] = MaxAttempts
  /\ delivery' = [delivery EXCEPT ![e] = "dead"]
  /\ UNCHANGED <<now, setting, attempts, requests, receiver>>

-----------------------------------------------------------------------------
(* The way to the receiver *)

\* A body with a digit changed: the dispatcher counts attempts from 1.
Altered(body) == [body EXCEPT !.attempt = 0]

\* The header that arrives: as it was sent, missing, unreadable, empty, cut
\* after its first field, its fields swapped, one of them in another notation,
\* or joined with those of another request.
Arriving(r) ==
  LET p == r.header.parts
  IN  {r.header, Absent, Opaque, Text(<<>>), Text(<<p[1]>>), Text(<<p[2], p[1]>>),
       Text(<<p[1], Part("v1", None)>>), Text(<<Part("other", None)>> \o p)}
      \cup {Text(s.header.parts \o p) : s \in requests}
      \cup {Text(<<s.header.parts[1], p[2]>>) : s \in requests}

\* The endpoint answers a request; the answer may be lost.
Answer(r, status, record) ==
  /\ last' = record
  /\ \/ Answered(r.body.event, r.body.attempt, status)
     \/ UNCHANGED dispatcher
  /\ UNCHANGED <<now, setting>>

\* The extractor rejects the request: the handler is not called.
Reject(r, record) ==
  /\ record.error # "none"
  /\ Answer(r, into_response(record.error), record)
  /\ UNCHANGED <<finished, refused>>

\* The extractor passes the envelope to the handler, which returns a status:
\* success, permanent failure or transient failure.
Handle(r, record) ==
  /\ record.error = "none"
  /\ \E status \in {200, 410, 503} :
       /\ Answer(r, status, record)
       /\ finished' = finished \cup {e \in {record.body.event} : status = 200}
       /\ refused'  = refused  \cup {e \in {record.body.event} : status = 410}

\* A request arrives, at the receiver's time now + skew, with a body that may
\* be altered or impossible to read to its end.
Receive(r) ==
  \E header \in Arriving(r), body \in {r.body, Altered(r.body)}, read \in BOOLEAN :
    LET error  == from_request(verifier, now + skew, header, read, body,
                               body.event \notin mistyped)
        record == [error |-> error, ts |-> parse_t_field(header.parts),
                   body |-> body, at |-> now + skew]
    IN  Reject(r, record) \/ Handle(r, record)

Tick ==
  /\ now < MaxTime
  /\ now' = now + 1
  /\ UNCHANGED <<setting, dispatcher, receiver>>

-----------------------------------------------------------------------------
Init ==
  /\ now = Start
  /\ skew \in Skews
  /\ mistyped \in SUBSET Event
  /\ delivery = [e \in Event |-> "pending"]
  /\ attempts = [e \in Event |-> 0]
  /\ requests = {}
  /\ finished = {}
  /\ refused  = {}
  /\ last     = Nothing

Next ==
  \/ Tick
  \/ \E e \in Event : Dispatch(e) \/ TimedOut(e) \/ GiveUp(e)
  \/ \E r \in requests : Receive(r)

Spec == Init /\ [][Next]_vars

-----------------------------------------------------------------------------
(* Properties *)

\* How far the receiver's clock was from the time in the header, in ticks.
Drift == abs_diff(last.at, last.ts[1] * PerSecond)

\* The dispatcher signed the body of the last request, at the time that its
\* header gave.
Signed == \E r \in requests :
            /\ r.body = last.body
            /\ parse_t_field(r.header.parts) = last.ts

TypeOK ==
  /\ now \in Nat
  /\ skew \in Skews
  /\ mistyped \subseteq Event
  /\ delivery \in [Event -> {"pending", "awaiting", "done", "dead"}]
  /\ attempts \in [Event -> 0..MaxAttempts]
  /\ \A r \in requests :
       /\ r.body \in Body
       /\ \E ts \in 0..now : r.header = Sign(secret, ts, r.body)
  /\ finished \subseteq Event
  /\ refused \subseteq Event
  /\ last \in {Nothing} \cup [error : VerifyError \cup {"none"},
                              ts : Seq(Nat), body : Body, at : Int]

\* Whatever happened to a request on its way, an envelope that reaches the
\* handler was signed by the dispatcher, and the time that was compared with
\* the clock is the one that was signed with it.
HandledIsSigned == last.error = "none" => Signed

\* A delayed or repeated request reaches the handler only near the time at
\* which it was signed: within the tolerance and the fraction of a second that
\* reading the clock in whole seconds may add, and not with a clock that is
\* before the epoch.
HandledInTime ==
  last.error = "none" => last.at >= 0 /\ Drift < Tolerance + PerSecond

\* Nothing is deserialised that the dispatcher did not sign: a body is called
\* unparsable only if it arrived as it was sent and is of another type.
ParsedIsSigned ==
  last.error = "BodyParse" => Signed /\ last.body.event \in mistyped

\* A delivery is done only if the handler reported success for the event: no
\* rejection of the extractor passes for one.
DoneIsFinished == \A e \in Event : delivery[e] = "done" => e \in finished

\* What WebhookVerifier::verify documents: a timestamp within the tolerance,
\* past or future, is not rejected as outside of it.
RejectedIsOutside ==
  last.error = "TimestampOutOfTolerance" => last.at < 0 \/ Drift > Tolerance

\* What the comments of the receiver example say of statuses: a 4xx, which
\* ends the retries, stands for a failure that is permanent.  The event is of
\* another type, the handler refused it, or all attempts were made.
DeadIsPermanent ==
  \A e \in Event : delivery[e] = "dead" =>
    e \in mistyped \cup refused \/ attempts[e] = MaxAttempts

=============================================================================
