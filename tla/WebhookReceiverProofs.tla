------------------------ MODULE WebhookReceiverProofs ------------------------
(***************************************************************************)
(* Theorems about WebhookReceiver, for any events, clocks, tolerance and   *)
(* number of attempts.                                                     *)
(***************************************************************************)
EXTENDS WebhookReceiver, TLAPS

-----------------------------------------------------------------------------
(* Arithmetic of whole seconds *)

\* Whole seconds and the ticks they were cut from.
LEMMA WholeSeconds ==
  ASSUME NEW n \in Int
  PROVE  /\ as_secs(n) \in Int
         /\ as_secs(n) * PerSecond <= n
         /\ n < as_secs(n) * PerSecond + PerSecond
BY PerSecondAssumption DEF as_secs

\* The timestamp that is signed is no later than the time in ticks.
LEMMA SecondsOfNat ==
  ASSUME NEW n \in Nat
  PROVE  as_secs(n) \in 0..n
<1>1. as_secs(n) \in Int /\ as_secs(n) * PerSecond <= n /\ n < as_secs(n) * PerSecond + PerSecond
  BY WholeSeconds
<1>2. as_secs(n) >= 0
  BY <1>1, PerSecondAssumption
<1> QED
  BY <1>1, <1>2, PerSecondAssumption

\* A time whose seconds are near the timestamp is itself near it.
LEMMA NearInTicks ==
  ASSUME NEW n \in Int, NEW ts \in Nat, NEW tolerance \in Nat,
         abs_diff(as_secs(n), ts) <= as_secs(tolerance)
  PROVE  abs_diff(n, ts * PerSecond) < tolerance + PerSecond
<1> DEFINE s == as_secs(n)
           k == as_secs(tolerance)
<1>1. /\ s \in Int /\ s * PerSecond <= n /\ n < s * PerSecond + PerSecond
      /\ k \in Int /\ k * PerSecond <= tolerance
  BY WholeSeconds
<1>2. s - ts <= k /\ ts - s <= k
  BY <1>1 DEF abs_diff
<1> HIDE DEF s, k
<1>3. (s - ts) * PerSecond <= k * PerSecond /\ (ts - s) * PerSecond <= k * PerSecond
  BY <1>1, <1>2, PerSecondAssumption
<1>4. /\ (s - ts) * PerSecond = s * PerSecond - ts * PerSecond
      /\ (ts - s) * PerSecond = ts * PerSecond - s * PerSecond
  BY <1>1, PerSecondAssumption
<1> QED
  BY <1>1, <1>3, <1>4, PerSecondAssumption DEF abs_diff

-----------------------------------------------------------------------------
(* What the verifier's Ok means *)

\* A field that is read stands somewhere in the header.
LEMMA FieldFound ==
  ASSUME NEW parts, NEW name, Field(parts, name) # None
  PROVE  \E i \in DOMAIN parts :
           parts[i].name = name /\ Field(parts, name) = parts[i].value
<1> DEFINE first == {i \in DOMAIN parts :
                       /\ parts[i].name = name
                       /\ \A j \in 1..i - 1 : parts[j].name # name}
<1>1. first # {}
  BY DEF Field
<1>2. (CHOOSE i \in first : TRUE) \in first
  BY <1>1
<1>3. Field(parts, name) = parts[CHOOSE i \in first : TRUE].value
  BY <1>1 DEF Field
<1> QED
  BY <1>2, <1>3

\* verify returns Ok only after each of its four checks.
LEMMA VerifyOk ==
  ASSUME NEW v, NEW n, NEW parts, NEW body, verify(v, n, parts, body) = "none"
  PROVE  /\ parse_t_field(parts) # None
         /\ parse_v1_decoded(parts) # None
         /\ InTolerance(v.tolerance, n, parse_t_field(parts)[1])
         /\ parse_v1_decoded(parts)[1] = Hmac(v.secret, parse_t_field(parts)[1], body)
BY DEF verify, HeaderError, verify_decoded

\* A body is handed on, or found to be of another type, only after that.
LEMMA ExtractorVerified ==
  ASSUME NEW v, NEW n, NEW header, NEW read, NEW body, NEW parses,
         from_request(v, n, header, read, body, parses) \in {"none", "BodyParse"}
  PROVE  verify(v, n, header.parts, body) = "none"
BY DEF from_request, verify_and_parse, verify, HeaderError

\* A body is found to be of another type only if it is.
LEMMA ExtractorParsed ==
  ASSUME NEW v, NEW n, NEW header, NEW read, NEW body, NEW parses,
         from_request(v, n, header, read, body, parses) = "BodyParse"
  PROVE  ~ parses
BY DEF from_request, verify_and_parse, verify, HeaderError

-----------------------------------------------------------------------------
(* What arrives was signed *)

\* The parts of a header that somebody signed, or that do not parse.
Genuine(p) ==
  /\ p.name = "t" => p.value = None \/ \E ts \in Nat : p.value = Some(ts)
  /\ p.name = "v1" => \/ p.value = None
                      \/ \E s \in requests, ts \in Nat :
                           /\ s.header = Sign(secret, ts, s.body)
                           /\ p.value = Some(Hmac(secret, ts, s.body))

\* The header of a request, as it was sent.
LEMMA RequestHeader ==
  ASSUME TypeOK, NEW s \in requests
  PROVE  \E ts \in Nat :
           /\ s.header = Sign(secret, ts, s.body)
           /\ s.header.parts = <<Part("t", Some(ts)),
                                 Part("v1", Some(Hmac(secret, ts, s.body)))>>
           /\ Genuine(s.header.parts[1])
           /\ Genuine(s.header.parts[2])
<1>1. PICK ts \in 0..now : s.header = Sign(secret, ts, s.body)
  BY DEF TypeOK
<1>2. ts \in Nat
  BY <1>1 DEF TypeOK
<1>3. s.header.parts = <<Part("t", Some(ts)), Part("v1", Some(Hmac(secret, ts, s.body)))>>
  BY <1>1 DEF Sign, Text
<1>4. Genuine(Part("t", Some(ts)))
  BY <1>2 DEF Genuine, Part
<1>5. Genuine(Part("v1", Some(Hmac(secret, ts, s.body))))
  BY <1>1, <1>2 DEF Genuine, Part
<1> QED
  BY <1>1, <1>2, <1>3, <1>4, <1>5

\* Its first t= field is the time at which it was signed.
LEMMA RequestTime ==
  ASSUME NEW ts, NEW digest
  PROVE  parse_t_field(<<Part("t", Some(ts)), Part("v1", digest)>>) = Some(ts)
<1> DEFINE parts == <<Part("t", Some(ts)), Part("v1", digest)>>
           first == {i \in DOMAIN parts :
                       /\ parts[i].name = "t"
                       /\ \A j \in 1..i - 1 : parts[j].name # "t"}
<1>1. DOMAIN parts = {1, 2} /\ parts[1].name = "t" /\ parts[2].name = "v1"
  BY DEF Part
<1>2. first = {1}
  BY <1>1
<1>3. parts[1].value = Some(ts)
  BY DEF Part
<1>4. (CHOOSE i \in first : TRUE) = 1
  BY <1>2
<1> QED
  BY <1>2, <1>3, <1>4 DEF parse_t_field, Field

\* A header of two parts.
LEMMA Pair ==
  ASSUME NEW S, NEW a \in S, NEW b \in S
  PROVE  <<a, b>> \in Seq(S)
OBVIOUS

\* Headers that are joined have the parts of both.
LEMMA Joined ==
  ASSUME NEW S, NEW q \in Seq(S), NEW p \in Seq(S), NEW i \in DOMAIN (q \o p)
  PROVE  (q \o p)[i] \in S
<1>1. q \o p \in Seq(S)
  OBVIOUS
<1> QED
  BY <1>1

\* Whatever happens on the way, no digest arrives that was not signed.
LEMMA ArrivingGenuine ==
  ASSUME TypeOK, NEW r \in requests, NEW header \in Arriving(r),
         NEW i \in DOMAIN header.parts
  PROVE  Genuine(header.parts[i])
<1> DEFINE p == r.header.parts
<1>1. /\ p = <<p[1], p[2]>> /\ Genuine(p[1]) /\ Genuine(p[2])
  BY RequestHeader
<1>2. CASE header \in {r.header, Absent, Opaque, Text(<<>>), Text(<<p[1]>>),
                       Text(<<p[2], p[1]>>)}
  BY <1>1, <1>2 DEF Absent, Opaque, Text
<1>3. CASE header = Text(<<p[1], Part("v1", None)>>)
  <2>1. Genuine(Part("v1", None))
    BY DEF Genuine, Part
  <2> QED
    BY <1>1, <1>3, <2>1 DEF Text
<1>4. CASE header = Text(<<Part("other", None)>> \o p)
  <2>1. Genuine(Part("other", None))
    BY DEF Genuine, Part
  <2> DEFINE S == {p[1], p[2], Part("other", None)}
  <2>2. p \in Seq(S)
    <3>1. <<p[1], p[2]>> \in Seq(S)
      BY Pair
    <3> QED
      BY <1>1, <3>1, Zenon
  <2>3. <<Part("other", None)>> \in Seq(S)
    OBVIOUS
  <2>4. header.parts = <<Part("other", None)>> \o p
    BY <1>4 DEF Text
  <2> HIDE DEF p
  <2>5. header.parts[i] \in S
    BY <2>2, <2>3, <2>4, Joined
  <2> QED
    BY <1>1, <2>1, <2>5
<1>5. ASSUME NEW s \in requests, header = Text(s.header.parts \o p)
      PROVE  Genuine(header.parts[i])
  <2> DEFINE q == s.header.parts
  <2>1. q = <<q[1], q[2]>> /\ Genuine(q[1]) /\ Genuine(q[2])
    BY RequestHeader
  <2> DEFINE S == {q[1], q[2], p[1], p[2]}
  <2>2. p \in Seq(S)
    <3>1. <<p[1], p[2]>> \in Seq(S)
      BY Pair
    <3> QED
      BY <1>1, <3>1, Zenon
  <2>3. q \in Seq(S)
    <3>1. <<q[1], q[2]>> \in Seq(S)
      BY Pair
    <3> QED
      BY <2>1, <3>1, Zenon
  <2>4. header.parts = q \o p
    BY <1>5 DEF Text
  <2> HIDE DEF p, q
  <2>5. header.parts[i] \in S
    BY <2>2, <2>3, <2>4, Joined
  <2> QED
    BY <1>1, <2>1, <2>5
<1>6. ASSUME NEW s \in requests, header = Text(<<s.header.parts[1], p[2]>>)
      PROVE  Genuine(header.parts[i])
  <2>1. Genuine(s.header.parts[1])
    BY RequestHeader
  <2> QED
    BY <1>1, <1>6, <2>1 DEF Text
<1> QED
  BY <1>2, <1>3, <1>4, <1>5, <1>6 DEF Arriving

\* What passes the verifier is the body of a request and the time of its header.
LEMMA VerifiedIsSigned ==
  ASSUME TypeOK, NEW r \in requests, NEW header \in Arriving(r), NEW n, NEW body,
         verify(verifier, n, header.parts, body) = "none"
  PROVE  /\ parse_t_field(header.parts) \in Seq(Nat)
         /\ parse_t_field(header.parts)[1] \in Nat
         /\ \E s \in requests :
              /\ s.body = body
              /\ parse_t_field(s.header.parts) = parse_t_field(header.parts)
<1> DEFINE t == parse_t_field(header.parts)
           d == parse_v1_decoded(header.parts)
<1>1. t # None /\ d # None /\ d[1] = Hmac(secret, t[1], body)
  BY VerifyOk DEF verifier
<1>2. \E ts \in Nat : t = Some(ts)
  <2>1. PICK i \in DOMAIN header.parts :
          header.parts[i].name = "t" /\ t = header.parts[i].value
    BY <1>1, FieldFound DEF parse_t_field
  <2> QED
    BY <1>1, <2>1, ArrivingGenuine DEF Genuine
<1>3. \E s \in requests, ts \in Nat :
        s.header = Sign(secret, ts, s.body) /\ d = Some(Hmac(secret, ts, s.body))
  <2>1. PICK i \in DOMAIN header.parts :
          header.parts[i].name = "v1" /\ d = header.parts[i].value
    BY <1>1, FieldFound DEF parse_v1_decoded
  <2> QED
    BY <1>1, <2>1, ArrivingGenuine DEF Genuine
<1>4. PICK s \in requests, ts \in Nat :
        s.header = Sign(secret, ts, s.body) /\ d = Some(Hmac(secret, ts, s.body))
  BY <1>3
<1>5. ts = t[1] /\ s.body = body
  BY <1>1, <1>4 DEF Hmac, Some
<1>6. parse_t_field(s.header.parts) = Some(ts)
  BY <1>4, RequestTime DEF Sign, Text
<1>7. t = Some(t[1]) /\ t[1] \in Nat /\ t \in Seq(Nat)
  BY <1>2 DEF Some
<1> QED
  BY <1>5, <1>6, <1>7

\* The t= field of what arrives, if it has one that parses, is a timestamp.
LEMMA ArrivedTime ==
  ASSUME TypeOK, NEW r \in requests, NEW header \in Arriving(r)
  PROVE  parse_t_field(header.parts) \in Seq(Nat)
<1> DEFINE t == parse_t_field(header.parts)
<1>1. CASE t = None
  BY <1>1 DEF None
<1>2. CASE t # None
  <2>1. PICK i \in DOMAIN header.parts :
          header.parts[i].name = "t" /\ t = header.parts[i].value
    BY <1>2, FieldFound DEF parse_t_field
  <2>2. PICK ts \in Nat : t = Some(ts)
    BY <1>2, <2>1, ArrivingGenuine DEF Genuine
  <2> QED
    BY <2>2 DEF Some
<1> QED
  BY <1>1, <1>2

-----------------------------------------------------------------------------
(* What a request that is received may change *)

\* The errors of the extractor, and the status of the response to each.
LEMMA ExtractorError ==
  ASSUME NEW v, NEW n, NEW header, NEW read, NEW body, NEW parses
  PROVE  LET error == from_request(v, n, header, read, body, parses)
         IN  /\ error \in VerifyError \cup {"none"}
             /\ error # "none" => into_response(error) \in {400, 401, 422}
<1> DEFINE error == from_request(v, n, header, read, body, parses)
<1>1. error \in VerifyError \cup {"none"}
  BY DEF from_request, verify_and_parse, verify, HeaderError, VerifyError
<1>2. ASSUME NEW e \in VerifyError
      PROVE  into_response(e) \in {400, 401, 422}
  BY DEF into_response, VerifyError
<1> HIDE DEF error
<1>3. error # "none" => into_response(error) \in {400, 401, 422}
  BY <1>1, <1>2
<1> QED
  BY <1>1, <1>3 DEF error

\* Only success makes a delivery done.
LEMMA OutcomeOfStatus ==
  ASSUME NEW status \in {200, 400, 401, 410, 422, 503}
  PROVE  /\ Outcome(status) \in {"pending", "done", "dead"}
         /\ Outcome(status) = "done" => status = 200
BY DEF Outcome

\* What became of a request.
Record == [error : VerifyError \cup {"none"}, ts : Seq(Nat), body : Body, at : Int]

\* An answer changes at most the delivery it is for.
Settled(e, status) ==
  \/ delivery' = delivery
  \/ delivery' = [delivery EXCEPT ![e] = Outcome(status)]

\* What a request that is received leaves in the variables: a record of what
\* the extractor said of it, and an answer that is success only if the handler
\* reported it.
Received(r) ==
  \E header \in Arriving(r), body \in Body, read \in BOOLEAN,
     status \in {200, 400, 401, 410, 422, 503} :
    LET error == from_request(verifier, now + skew, header, read, body,
                              body.event \notin mistyped)
    IN  /\ body.event = r.body.event
        /\ last' = [error |-> error, ts |-> parse_t_field(header.parts),
                    body |-> body, at |-> now + skew]
        /\ error # "none" => status # 200
        /\ Settled(r.body.event, status)
        /\ finished' = finished \cup {e \in {r.body.event} : status = 200}
        /\ refused' \in {refused, refused \cup {r.body.event}}
        /\ UNCHANGED <<now, setting, attempts, requests>>

\* The two outcomes of a request, rejected or handled, are of that form.
LEMMA ReceiveReceived ==
  ASSUME TypeOK, NEW r \in requests, Receive(r)
  PROVE  Received(r)
<1> DEFINE error(header, read, body) ==
             from_request(verifier, now + skew, header, read, body,
                          body.event \notin mistyped)
           record(header, read, body) ==
             [error |-> error(header, read, body), ts |-> parse_t_field(header.parts),
              body |-> body, at |-> now + skew]
<1>1. PICK header \in Arriving(r), body \in {r.body, Altered(r.body)}, read \in BOOLEAN :
        \/ Reject(r, record(header, read, body))
        \/ Handle(r, record(header, read, body))
  BY DEF Receive
<1>2. body \in Body /\ body.event = r.body.event
  BY ReceiverAssumption DEF TypeOK, Body, Altered
<1>3. ASSUME NEW status \in {200, 400, 401, 410, 422, 503},
             Answer(r, status, record(header, read, body))
      PROVE  /\ last' = record(header, read, body)
             /\ Settled(r.body.event, status)
             /\ UNCHANGED <<now, setting, attempts, requests>>
  BY <1>3 DEF Answer, Answered, Settled, dispatcher, setting
<1>4. CASE Reject(r, record(header, read, body))
  <2> DEFINE status == into_response(error(header, read, body))
  <2>1. error(header, read, body) # "none"
    BY <1>4 DEF Reject
  <2>2. status \in {400, 401, 422}
    BY <2>1, ExtractorError
  <2>3. Answer(r, status, record(header, read, body)) /\ finished' = finished
        /\ refused' = refused
    BY <1>4 DEF Reject
  <2> HIDE DEF status
  <2>4. finished' = finished \cup {e \in {r.body.event} : status = 200}
    BY <2>2, <2>3
  <2>5. /\ last' = record(header, read, body)
        /\ Settled(r.body.event, status)
        /\ UNCHANGED <<now, setting, attempts, requests>>
    BY <1>3, <2>2, <2>3
  <2> QED
    BY <1>2, <2>2, <2>3, <2>4, <2>5 DEF Received
<1>5. CASE Handle(r, record(header, read, body))
  <2>1. error(header, read, body) = "none"
    BY <1>5 DEF Handle
  <2>2. PICK status \in {200, 410, 503} :
          /\ Answer(r, status, record(header, read, body))
          /\ finished' = finished \cup {e \in {body.event} : status = 200}
          /\ refused'  = refused  \cup {e \in {body.event} : status = 410}
    BY <1>5 DEF Handle
  <2>3. refused' \in {refused, refused \cup {r.body.event}}
    BY <1>2, <2>2
  <2>4. /\ last' = record(header, read, body)
        /\ Settled(r.body.event, status)
        /\ UNCHANGED <<now, setting, attempts, requests>>
    BY <1>3, <2>2
  <2> QED
    BY <1>2, <2>1, <2>2, <2>3, <2>4 DEF Received
<1> QED
  BY <1>1, <1>4, <1>5

-----------------------------------------------------------------------------
(* The inductive invariant *)

\* The properties support one another: what the handler is given is traced to
\* a request because every request was signed (TypeOK).
IndInv ==
  /\ TypeOK
  /\ HandledIsSigned
  /\ HandledInTime
  /\ ParsedIsSigned
  /\ DoneIsFinished

\* The receiver has seen nothing and nothing was sent.
LEMMA InitIndInv == Init => IndInv
<1> SUFFICES ASSUME Init
             PROVE  IndInv
  OBVIOUS
<1> USE DEF Init
<1>1. TypeOK
  BY ReceiverAssumption DEF TypeOK
<1>2. HandledIsSigned /\ HandledInTime /\ ParsedIsSigned
  BY DEF HandledIsSigned, HandledInTime, ParsedIsSigned, Nothing
<1>3. DoneIsFinished
  BY DEF DoneIsFinished
<1> QED
  BY <1>1, <1>2, <1>3 DEF IndInv

\* While nothing is received, what was said of the last request stays true: a
\* request that was sent is never taken back.
LEMMA LastKept ==
  ASSUME IndInv, UNCHANGED <<last, mistyped, finished>>, requests \subseteq requests',
         \A e \in Event : delivery'[e] = "done" => delivery[e] = "done"
  PROVE  HandledIsSigned' /\ HandledInTime' /\ ParsedIsSigned' /\ DoneIsFinished'
<1>1. Signed => Signed'
  BY DEF Signed
<1>2. HandledInTime'
  BY DEF IndInv, HandledInTime, Drift
<1>3. DoneIsFinished'
  BY DEF IndInv, DoneIsFinished
<1> QED
  BY <1>1, <1>2, <1>3 DEF IndInv, HandledIsSigned, ParsedIsSigned

\* Time passes.
LEMMA TickStep == IndInv /\ Tick => IndInv'
<1> SUFFICES ASSUME IndInv, Tick
             PROVE  IndInv'
  OBVIOUS
<1> USE DEF Tick, setting, dispatcher, receiver
<1>1. TypeOK'
  <2>1. ASSUME NEW r \in requests'
        PROVE  /\ r.body \in Body
               /\ \E ts \in 0..now' : r.header = Sign(secret, ts, r.body)
    BY <2>1 DEF IndInv, TypeOK
  <2> QED
    BY <2>1 DEF IndInv, TypeOK
<1> QED
  BY <1>1, LastKept DEF IndInv

\* A request is signed with the present time.
LEMMA DispatchStep ==
  ASSUME IndInv, NEW e \in Event, Dispatch(e)
  PROVE  IndInv'
<1> USE DEF setting, receiver
<1> DEFINE body == [event |-> e, attempt |-> attempts[e] + 1]
           new  == [header |-> Sign(secret, as_secs(now), body), body |-> body]
<1>1. /\ now' = now /\ skew' = skew /\ mistyped' = mistyped
      /\ finished' = finished /\ refused' = refused /\ last' = last
      /\ attempts[e] < MaxAttempts
      /\ attempts' = [attempts EXCEPT ![e] = @ + 1]
      /\ delivery' = [delivery EXCEPT ![e] = "awaiting"]
      /\ requests' = requests \cup {new}
  BY DEF Dispatch
<1>2. body \in Body
  BY <1>1, ReceiverAssumption DEF IndInv, TypeOK, Body
<1>3. as_secs(now) \in 0..now
  BY SecondsOfNat DEF IndInv, TypeOK
<1>4. new.body \in Body /\ \E ts \in 0..now : new.header = Sign(secret, ts, new.body)
  BY <1>2, <1>3
<1> HIDE DEF new
<1>5. TypeOK'
  <2>1. ASSUME NEW r \in requests'
        PROVE  /\ r.body \in Body
               /\ \E ts \in 0..now' : r.header = Sign(secret, ts, r.body)
    BY <1>1, <1>4 DEF IndInv, TypeOK
  <2>2. attempts' \in [Event -> 0..MaxAttempts]
    BY <1>1, ReceiverAssumption DEF IndInv, TypeOK
  <2>3. delivery' \in [Event -> {"pending", "awaiting", "done", "dead"}]
    BY <1>1 DEF IndInv, TypeOK
  <2> QED
    BY <1>1, <2>1, <2>2, <2>3 DEF IndInv, TypeOK
<1>6. \A f \in Event : delivery'[f] = "done" => delivery[f] = "done"
  BY <1>1 DEF IndInv, TypeOK
<1> QED
  BY <1>1, <1>5, <1>6, LastKept DEF IndInv

\* The dispatcher stops waiting, or stops trying.
LEMMA ExpiryStep ==
  ASSUME IndInv, NEW e \in Event, TimedOut(e) \/ GiveUp(e)
  PROVE  IndInv'
<1>1. /\ UNCHANGED <<now, skew, mistyped, attempts, requests, finished, refused, last>>
      /\ \E state \in {"pending", "dead"} : delivery' = [delivery EXCEPT ![e] = state]
  BY DEF TimedOut, GiveUp, setting, receiver
<1>2. delivery' \in [Event -> {"pending", "awaiting", "done", "dead"}]
  BY <1>1 DEF IndInv, TypeOK
<1>3. TypeOK'
  BY <1>1, <1>2 DEF IndInv, TypeOK
<1>4. \A f \in Event : delivery'[f] = "done" => delivery[f] = "done"
  BY <1>1 DEF IndInv, TypeOK
<1> QED
  BY <1>1, <1>3, <1>4, LastKept DEF IndInv

\* A request is received: what the extractor lets through was signed, and only
\* a handler that succeeded makes a delivery done.
LEMMA ReceiveStep ==
  ASSUME IndInv, NEW r \in requests, Receive(r)
  PROVE  IndInv'
<1> DEFINE error(header, read, body) ==
             from_request(verifier, now + skew, header, read, body,
                          body.event \notin mistyped)
<1>1. TypeOK /\ Received(r)
  BY ReceiveReceived DEF IndInv
<1>2. PICK header \in Arriving(r), body \in Body, read \in BOOLEAN,
           status \in {200, 400, 401, 410, 422, 503} :
        /\ body.event = r.body.event
        /\ last' = [error |-> error(header, read, body),
                    ts |-> parse_t_field(header.parts),
                    body |-> body, at |-> now + skew]
        /\ error(header, read, body) # "none" => status # 200
        /\ Settled(r.body.event, status)
        /\ finished' = finished \cup {e \in {r.body.event} : status = 200}
        /\ refused' \in {refused, refused \cup {r.body.event}}
        /\ UNCHANGED <<now, setting, attempts, requests>>
  BY <1>1 DEF Received
<1>3. now + skew \in Int /\ r.body.event \in Event
  BY <1>1, ReceiverAssumption DEF TypeOK, Body
<1>4. last'.error \in {"none", "BodyParse"} =>
        /\ verify(verifier, now + skew, header.parts, body) = "none"
        /\ Signed'
  <2> SUFFICES ASSUME last'.error \in {"none", "BodyParse"}
               PROVE  /\ verify(verifier, now + skew, header.parts, body) = "none"
                      /\ Signed'
    OBVIOUS
  <2>1. verify(verifier, now + skew, header.parts, body) = "none"
    BY <1>2, ExtractorVerified
  <2>2. \E s \in requests :
          /\ s.body = body
          /\ parse_t_field(s.header.parts) = parse_t_field(header.parts)
    BY <1>1, <2>1, VerifiedIsSigned
  <2> QED
    BY <1>2, <2>1, <2>2 DEF Signed
<1>5. TypeOK'
  <2>1. delivery' \in [Event -> {"pending", "awaiting", "done", "dead"}]
    BY <1>1, <1>2, OutcomeOfStatus DEF TypeOK, Settled
  <2>2. last' \in Record
    <3>1. error(header, read, body) \in VerifyError \cup {"none"}
      BY ExtractorError
    <3>2. parse_t_field(header.parts) \in Seq(Nat)
      BY <1>1, ArrivedTime
    <3> HIDE DEF error
    <3> QED
      BY <1>2, <1>3, <3>1, <3>2 DEF Record
  <2>3. finished' \subseteq Event /\ refused' \subseteq Event
    BY <1>1, <1>2, <1>3 DEF TypeOK
  <2> HIDE DEF error
  <2>4. ASSUME NEW s \in requests'
        PROVE  /\ s.body \in Body
               /\ \E ts \in 0..now' : s.header = Sign(secret, ts, s.body)
    BY <1>1, <1>2 DEF TypeOK
  <2> QED
    BY <1>1, <1>2, <2>1, <2>2, <2>3, <2>4 DEF TypeOK, Record, setting
<1>6. HandledIsSigned'
  BY <1>4 DEF HandledIsSigned
<1>7. HandledInTime'
  <2> SUFFICES ASSUME last'.error = "none"
               PROVE  /\ last'.at >= 0
                      /\ abs_diff(last'.at, last'.ts[1] * PerSecond) < Tolerance + PerSecond
    BY DEF HandledInTime, Drift
  <2> DEFINE ts == parse_t_field(header.parts)[1]
  <2>1. verify(verifier, now + skew, header.parts, body) = "none"
    BY <1>4
  <2>2. ts \in Nat
    BY <1>1, <2>1, VerifiedIsSigned
  <2>3. InTolerance(Tolerance, now + skew, ts)
    BY <2>1, VerifyOk DEF verifier
  <2>4. last'.at = now + skew /\ last'.ts[1] = ts
    BY <1>2
  <2> HIDE DEF ts
  <2>5. abs_diff(now + skew, ts * PerSecond) < Tolerance + PerSecond
    BY <1>3, <2>2, <2>3, NearInTicks, ReceiverAssumption DEF InTolerance
  <2> QED
    BY <2>3, <2>4, <2>5 DEF InTolerance
<1>8. ParsedIsSigned'
  <2>1. last'.error = "BodyParse" => body.event \in mistyped
    <3>1. last'.error = error(header, read, body)
      BY <1>2
    <3>2. error(header, read, body) = "BodyParse" => ~ (body.event \notin mistyped)
      BY ExtractorParsed, Zenon
    <3> QED
      BY <3>1, <3>2
  <2> QED
    BY <1>2, <1>4, <2>1 DEF ParsedIsSigned, setting
<1>9. DoneIsFinished'
  <2> SUFFICES ASSUME NEW e \in Event, delivery'[e] = "done"
               PROVE  e \in finished'
    BY DEF DoneIsFinished
  <2>1. CASE delivery[e] = "done"
    BY <1>2, <2>1 DEF IndInv, DoneIsFinished
  <2>2. CASE delivery[e] # "done"
    <3>1. delivery' = [delivery EXCEPT ![r.body.event] = Outcome(status)]
      BY <1>2, <2>2 DEF Settled
    <3>2. e = r.body.event /\ Outcome(status) = "done"
      BY <1>1, <2>2, <3>1 DEF TypeOK
    <3> QED
      BY <1>2, <3>2, OutcomeOfStatus
  <2> QED
    BY <2>1, <2>2
<1> QED
  BY <1>5, <1>6, <1>7, <1>8, <1>9 DEF IndInv

\* Every step keeps the invariant.
LEMMA NextIndInv == IndInv /\ [Next]_vars => IndInv'
<1> SUFFICES ASSUME IndInv, [Next]_vars
             PROVE  IndInv'
  OBVIOUS
<1>1. CASE Tick
  BY <1>1, TickStep
<1>2. ASSUME NEW e \in Event, Dispatch(e) \/ TimedOut(e) \/ GiveUp(e)
      PROVE  IndInv'
  BY <1>2, DispatchStep, ExpiryStep
<1>3. ASSUME NEW r \in requests, Receive(r)
      PROVE  IndInv'
  BY <1>3, ReceiveStep
<1>4. CASE UNCHANGED vars
  <2>1. UNCHANGED <<now, skew, mistyped, delivery, attempts, requests, finished,
                    refused, last>>
    BY <1>4 DEF vars, setting, dispatcher, receiver
  <2>2. TypeOK'
    BY <2>1 DEF IndInv, TypeOK
  <2> QED
    BY <2>1, <2>2, LastKept DEF IndInv
<1> QED
  BY <1>1, <1>2, <1>3, <1>4 DEF Next

\* The conjunction is an invariant of the receiver.
THEOREM Invariance == Spec => []IndInv
<1> QED
  BY InitIndInv, NextIndInv, PTL DEF Spec

-----------------------------------------------------------------------------
(* The theorems *)

\* Every variable keeps its type: no header that arrives makes the extractor
\* fail outside of its own errors, no attempt exceeds the bound.
THEOREM ReceiverTypeCorrect == Spec => []TypeOK
<1>1. IndInv => TypeOK
  BY DEF IndInv
<1> QED
  BY <1>1, Invariance, PTL

\* However requests are lost, delayed, repeated, cut or mixed, an envelope that
\* reaches the handler is one that the dispatcher signed, with that timestamp.
THEOREM OnlySignedHandled == Spec => []HandledIsSigned
<1>1. IndInv => HandledIsSigned
  BY DEF IndInv
<1> QED
  BY <1>1, Invariance, PTL

\* For any tolerance and any clock, an envelope reaches the handler less than
\* the tolerance and a second away from the time at which it was signed.
THEOREM OnlyInTimeHandled == Spec => []HandledInTime
<1>1. IndInv => HandledInTime
  BY DEF IndInv
<1> QED
  BY <1>1, Invariance, PTL

\* Nothing is deserialised before its signature is verified.
THEOREM OnlySignedParsed == Spec => []ParsedIsSigned
<1>1. IndInv => ParsedIsSigned
  BY DEF IndInv
<1> QED
  BY <1>1, Invariance, PTL

\* A delivery that is done was handled with success.
THEOREM OnlyFinishedDone == Spec => []DoneIsFinished
<1>1. IndInv => DoneIsFinished
  BY DEF IndInv
<1> QED
  BY <1>1, Invariance, PTL

-----------------------------------------------------------------------------
(* What is accepted, and what is not rejected *)

\* The verifier and the dispatcher's signature agree: what is sent under the
\* verifier's secret, arrives unaltered and is read to its end, is rejected
\* only for its time, or because it is of another type than the handler's.
THEOREM UnalteredAccepted ==
  ASSUME NEW v, NEW n, NEW ts, NEW body, NEW parses \in BOOLEAN
  PROVE  from_request(v, n, Sign(v.secret, ts, body), TRUE, body, parses) =
           IF ~ InTolerance(v.tolerance, n, ts) THEN "TimestampOutOfTolerance"
           ELSE IF parses THEN "none" ELSE "BodyParse"
<1> DEFINE digest == Hmac(v.secret, ts, body)
           parts == <<Part("t", Some(ts)), Part("v1", Some(digest))>>
           first == {i \in DOMAIN parts :
                       /\ parts[i].name = "v1"
                       /\ \A j \in 1..i - 1 : parts[j].name # "v1"}
<1>1. Sign(v.secret, ts, body) = [form |-> "text", parts |-> parts]
  BY DEF Sign, Text
<1>2. parse_t_field(parts) = Some(ts)
  BY RequestTime
<1>3. parse_v1_decoded(parts) = Some(digest)
  <2>1. DOMAIN parts = {1, 2} /\ parts[1].name = "t" /\ parts[2].name = "v1"
    BY DEF Part
  <2>2. first = {2}
    BY <2>1
  <2>3. parts[2].value = Some(digest)
    BY DEF Part
  <2>4. (CHOOSE i \in first : TRUE) = 2
    BY <2>2
  <2> QED
    BY <2>2, <2>3, <2>4 DEF parse_v1_decoded, Field
<1>4. HeaderError(parts) = "none"
  <2>1. parts # <<>>
    OBVIOUS
  <2>2. Some(ts) # None /\ Some(digest) # None
    BY DEF Some, None
  <2> HIDE DEF parts
  <2> QED
    BY <1>2, <1>3, <2>1, <2>2 DEF HeaderError
<1>5. Some(ts)[1] = ts /\ Some(digest)[1] = digest
  BY DEF Some
<1> HIDE DEF parts, digest
<1>6. verify(v, n, parts, body) =
        IF ~ InTolerance(v.tolerance, n, ts) THEN "TimestampOutOfTolerance"
        ELSE "none"
  BY <1>2, <1>3, <1>4, <1>5 DEF verify, verify_decoded, digest
<1> QED
  BY <1>1, <1>6 DEF from_request, verify_and_parse

\* A time whose seconds are not near the timestamp is itself far from it: if it
\* is later, by more than the tolerance, and if it is earlier, by more than the
\* whole seconds of the tolerance.
LEMMA FarInTicks ==
  ASSUME NEW n \in Int, NEW ts \in Nat, NEW tolerance \in Nat,
         ~ (abs_diff(as_secs(n), ts) <= as_secs(tolerance))
  PROVE  \/ n - ts * PerSecond > tolerance
         \/ ts * PerSecond - n > as_secs(tolerance) * PerSecond
<1> DEFINE s == as_secs(n)
           k == as_secs(tolerance)
<1>1. /\ s \in Int /\ s * PerSecond <= n /\ n < s * PerSecond + PerSecond
      /\ k \in Int /\ tolerance < k * PerSecond + PerSecond
  BY WholeSeconds
<1>2. s >= ts + k + 1 \/ s + 1 <= ts - k
  BY <1>1 DEF abs_diff
<1> HIDE DEF s, k
<1>3. CASE s >= ts + k + 1
  <2>1. s * PerSecond >= (ts + k + 1) * PerSecond
    BY <1>1, <1>3, PerSecondAssumption
  <2>2. (ts + k + 1) * PerSecond = ts * PerSecond + k * PerSecond + PerSecond
    BY <1>1, PerSecondAssumption
  <2> QED
    BY <1>1, <2>1, <2>2, PerSecondAssumption
<1>4. CASE s + 1 <= ts - k
  <2>1. (s + 1) * PerSecond <= (ts - k) * PerSecond
    BY <1>1, <1>4, PerSecondAssumption
  <2>2. /\ (s + 1) * PerSecond = s * PerSecond + PerSecond
        /\ (ts - k) * PerSecond = ts * PerSecond - k * PerSecond
    BY <1>1, PerSecondAssumption
  <2>3. ts * PerSecond - n > k * PerSecond
    BY <1>1, <2>1, <2>2, PerSecondAssumption
  <2> QED
    BY <2>3 DEF k
<1> QED
  BY <1>2, <1>3, <1>4

\* How far a request was from the receiver's clock whose timestamp was rejected.
RejectedIsFar ==
  last.error = "TimestampOutOfTolerance" =>
    /\ last.ts # None
    /\ \/ last.at < 0
       \/ last.at - last.ts[1] * PerSecond > Tolerance
       \/ last.ts[1] * PerSecond - last.at > as_secs(Tolerance) * PerSecond

\* The extractor rejects a timestamp only after it compared it.
LEMMA RejectedTime ==
  ASSUME NEW v, NEW n, NEW header, NEW read, NEW body, NEW parses,
         from_request(v, n, header, read, body, parses) = "TimestampOutOfTolerance"
  PROVE  /\ parse_t_field(header.parts) # None
         /\ ~ InTolerance(v.tolerance, n, parse_t_field(header.parts)[1])
BY DEF from_request, verify_and_parse, verify, HeaderError

\* Only a request that is received changes what was said of the last one.
LEMMA LastStep ==
  ASSUME IndInv, [Next]_vars
  PROVE  last' = last \/ \E r \in requests : Receive(r)
BY DEF Next, vars, receiver, Tick, Dispatch, TimedOut, GiveUp

\* For any tolerance and clocks: a request that is late is rejected only if it
\* is later than the tolerance, and one that is early (the receiver's clock is
\* behind) only if it is earlier than the whole seconds of the tolerance.
THEOREM OnlyFarRejected == Spec => []RejectedIsFar
<1>1. Init => RejectedIsFar
  BY DEF Init, Nothing, RejectedIsFar
<1>2. IndInv /\ RejectedIsFar /\ [Next]_vars => RejectedIsFar'
  <2> SUFFICES ASSUME IndInv, RejectedIsFar, [Next]_vars,
                      last'.error = "TimestampOutOfTolerance"
               PROVE  /\ last'.ts # None
                      /\ \/ last'.at < 0
                         \/ last'.at - last'.ts[1] * PerSecond > Tolerance
                         \/ last'.ts[1] * PerSecond - last'.at
                              > as_secs(Tolerance) * PerSecond
    BY DEF RejectedIsFar
  <2>1. CASE last' = last
    BY <2>1 DEF RejectedIsFar
  <2>2. CASE \E r \in requests : Receive(r)
    <3>1. PICK r \in requests : Received(r)
      BY <2>2, ReceiveReceived DEF IndInv
    <3>2. PICK header \in Arriving(r), body \in Body, read \in BOOLEAN :
            last' = [error |-> from_request(verifier, now + skew, header, read,
                                            body, body.event \notin mistyped),
                     ts |-> parse_t_field(header.parts),
                     body |-> body, at |-> now + skew]
      BY <3>1 DEF Received
    <3> DEFINE ts == parse_t_field(header.parts)[1]
    <3>3. /\ parse_t_field(header.parts) # None
          /\ ~ InTolerance(Tolerance, now + skew, ts)
      BY <3>2, RejectedTime DEF verifier
    <3>4. ts \in Nat
      <4>1. parse_t_field(header.parts) \in Seq(Nat)
        BY ArrivedTime DEF IndInv
      <4> QED
        BY <3>3, <4>1 DEF None
    <3>5. last'.at = now + skew /\ last'.ts[1] = ts /\ last'.ts # None
      BY <3>2, <3>3
    <3>6. now + skew \in Int /\ Tolerance \in Nat
      BY ReceiverAssumption DEF IndInv, TypeOK
    <3> HIDE DEF ts
    <3> QED
      BY <3>3, <3>4, <3>5, <3>6, FarInTicks DEF InTolerance
  <2> QED
    BY <2>1, <2>2, LastStep
<1> QED
  BY <1>1, <1>2, Invariance, PTL DEF Spec

\* A tolerance of whole seconds, as the default of 300 is, is kept to exactly:
\* then what verify documents is true, and no timestamp within the tolerance is
\* rejected, whatever the clocks.
THEOREM WholeToleranceKept ==
  ASSUME Tolerance % PerSecond = 0
  PROVE  Spec => []RejectedIsOutside
<1>1. as_secs(Tolerance) * PerSecond = Tolerance
  BY PerSecondAssumption, ReceiverAssumption DEF as_secs
<1>2. IndInv /\ RejectedIsFar => RejectedIsOutside
  <2> SUFFICES ASSUME IndInv, RejectedIsFar,
                      last.error = "TimestampOutOfTolerance", ~ (last.at < 0)
               PROVE  abs_diff(last.at, last.ts[1] * PerSecond) > Tolerance
    BY DEF RejectedIsOutside, Drift
  <2>1. \/ last.at - last.ts[1] * PerSecond > Tolerance
        \/ last.ts[1] * PerSecond - last.at > Tolerance
    BY <1>1 DEF RejectedIsFar
  <2> DEFINE t == last.ts[1] * PerSecond
  <2>2. last.at \in Int /\ t \in Int
    <3>1. last.ts \in Seq(Nat) /\ last.ts # None /\ last.at \in Int
      BY DEF IndInv, TypeOK, Nothing, RejectedIsFar
    <3>2. last.ts[1] \in Nat
      BY <3>1 DEF None
    <3> QED
      BY <3>1, <3>2, PerSecondAssumption
  <2> QED
    BY <2>1, <2>2, PerSecondAssumption, ReceiverAssumption DEF abs_diff
<1> QED
  BY <1>1, <1>2, Invariance, OnlyFarRejected, PTL

-----------------------------------------------------------------------------
(* What a delivery dies of *)

\* A request was rejected before anything was known of its body: of its header,
\* its way, its time or its signature.
Unread == {"MissingHeader", "MalformedHeader", "BodyRead",
           "TimestampOutOfTolerance", "InvalidSignature"}

\* A delivery that becomes a dead letter was refused by the handler, is of
\* another type, or had all its attempts; or its last answer was the rejection
\* of a request that was not read.
DiesOf ==
  [][\A e \in Event : delivery[e] # "dead" /\ delivery'[e] = "dead" =>
       \/ e \in mistyped \cup refused' \/ attempts[e] = MaxAttempts
       \/ last'.error \in Unread /\ last'.body.event = e]_vars

\* The cause of death in one request that is received.
LEMMA ReceiveKills ==
  ASSUME IndInv, IndInv', NEW r \in requests, Receive(r), NEW e \in Event,
         delivery[e] # "dead", delivery'[e] = "dead"
  PROVE  \/ e \in mistyped \cup refused'
         \/ last'.error \in Unread /\ last'.body.event = e
<1> DEFINE error(header, read, body) ==
             from_request(verifier, now + skew, header, read, body,
                          body.event \notin mistyped)
           record(header, read, body) ==
             [error |-> error(header, read, body), ts |-> parse_t_field(header.parts),
              body |-> body, at |-> now + skew]
<1>1. PICK header \in Arriving(r), body \in {r.body, Altered(r.body)}, read \in BOOLEAN :
        \/ Reject(r, record(header, read, body))
        \/ Handle(r, record(header, read, body))
  BY DEF Receive
<1>2. body.event = r.body.event
  BY DEF IndInv, TypeOK, Body, Altered
<1>3. ASSUME NEW status, Answer(r, status, record(header, read, body))
      PROVE  /\ e = r.body.event /\ Outcome(status) = "dead"
             /\ last' = record(header, read, body)
             /\ mistyped' = mistyped
  <2>1. /\ last' = record(header, read, body) /\ mistyped' = mistyped
        /\ \/ delivery' = [delivery EXCEPT ![r.body.event] = Outcome(status)]
           \/ delivery' = delivery
    BY <1>3 DEF Answer, Answered, dispatcher, setting
  <2> QED
    BY <2>1 DEF IndInv, TypeOK
<1>4. CASE Reject(r, record(header, read, body))
  <2>1. /\ error(header, read, body) # "none"
        /\ Answer(r, into_response(error(header, read, body)),
                  record(header, read, body))
    BY <1>4 DEF Reject
  <2>2. e = r.body.event /\ last' = record(header, read, body)
        /\ mistyped' = mistyped
    BY <1>3, <2>1
  <2>3. error(header, read, body) \in VerifyError \cup {"none"}
    BY ExtractorError
  <2> HIDE DEF error
  <2>4. last'.error \in VerifyError /\ last'.body.event = e
    BY <1>2, <2>1, <2>2, <2>3
  <2>5. last'.error = "BodyParse" => e \in mistyped
    BY <2>2, <2>4 DEF IndInv, ParsedIsSigned
  <2> QED
    BY <2>4, <2>5 DEF VerifyError, Unread
<1>5. CASE Handle(r, record(header, read, body))
  <2>1. PICK status \in {200, 410, 503} :
          /\ Answer(r, status, record(header, read, body))
          /\ refused' = refused \cup {f \in {body.event} : status = 410}
    BY <1>5 DEF Handle
  <2>2. e = r.body.event /\ Outcome(status) = "dead"
    BY <1>3, <2>1
  <2>3. status = 410
    BY <2>1, <2>2 DEF Outcome
  <2> QED
    BY <1>2, <2>1, <2>2, <2>3
<1> QED
  BY <1>1, <1>4, <1>5

\* For any events, clocks and attempts: where a delivery dies of what is not
\* permanent, it dies of the answer to a request that was not read.
THEOREM DeadOfRejection == Spec => DiesOf
<1>1. IndInv /\ IndInv' /\ [Next]_vars =>
        [\A e \in Event : delivery[e] # "dead" /\ delivery'[e] = "dead" =>
           \/ e \in mistyped \cup refused' \/ attempts[e] = MaxAttempts
           \/ last'.error \in Unread /\ last'.body.event = e]_vars
  <2> SUFFICES ASSUME IndInv, IndInv', [Next]_vars, NEW e \in Event,
                      delivery[e] # "dead", delivery'[e] = "dead"
               PROVE  \/ e \in mistyped \cup refused'
                      \/ attempts[e] = MaxAttempts
                      \/ last'.error \in Unread /\ last'.body.event = e
    OBVIOUS
  <2>1. CASE Tick \/ UNCHANGED vars
    BY <2>1 DEF Tick, vars, dispatcher
  <2>2. CASE \E f \in Event : Dispatch(f) \/ TimedOut(f) \/ GiveUp(f)
    <3>1. PICK f \in Event : Dispatch(f) \/ TimedOut(f) \/ GiveUp(f)
      BY <2>2
    <3>2. CASE Dispatch(f) \/ TimedOut(f)
      <4>1. \E state \in {"awaiting", "pending"} :
              delivery' = [delivery EXCEPT ![f] = state]
        BY <3>2 DEF Dispatch, TimedOut
      <4> QED
        BY <4>1 DEF IndInv, TypeOK
    <3>3. CASE GiveUp(f)
      BY <3>3 DEF GiveUp, IndInv, TypeOK
    <3> QED
      BY <3>1, <3>2, <3>3
  <2>3. CASE \E r \in requests : Receive(r)
    BY <2>3, ReceiveKills
  <2> QED
    BY <2>1, <2>2, <2>3 DEF Next
<1> QED
  BY <1>1, Invariance, PTL DEF Spec, DiesOf

=============================================================================
