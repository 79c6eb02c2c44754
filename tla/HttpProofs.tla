------------------------------- MODULE HttpProofs -------------------------------
(***************************************************************************)
(* Theorems about the two ways in which a request is served, for any number *)
(* of requests and of chunks, and whatever the client and proxygen do.      *)
(***************************************************************************)
EXTENDS Connection, Handler, FiniteSetTheorems, SequenceTheorems, WellFoundedInduction, TLAPS

(***************************************************************************)
(* QueryHandler: the chunks kept are the first ones, in order; there is no  *)
(* response and no query before the request has been read; and what is      *)
(* under way when the handler is deleted was given up by proxygen.          *)
(***************************************************************************)
Chunk(n) == [i \in 1..n |-> i]

BodyInOrder ==
    /\ chunks \in Nat
    /\ \E n \in 0..chunks : body_ = Chunk(n) /\ (ingress = "none" => n = chunks)

OneResponse ==
    /\ responses = << >> \/ \E status \in RightResponse : responses = <<status>>
    /\ asking => responses = << >> /\ ingress = "none"
                     /\ content \in {"query", "unparsable"} /\ chunks # 0
    /\ ingress # "none" => responses = << >>

GivenUp ==
    /\ lifetime = "dangling" => failed /\ responses = << >> /\ ~asking
    /\ lifetime = "deleted" /\ asking => failed

HandlerTypes ==
    /\ method \in Methods /\ content \in Bodies
    /\ ingress \in {"onRequest", "onBody", "none"}
    /\ ingress = "onRequest" => body_ = << >>
    /\ lifetime \in {"alive", "deleted", "dangling"}

HandlerInv == HandlerTypes /\ BodyInOrder /\ (method = "POST" => OneResponse /\ GivenUp)

LEMMA ChunkFacts ==
    ASSUME NEW n \in Nat
    PROVE  /\ Chunk(n) \in Seq(Nat) /\ Len(Chunk(n)) = n
           /\ Append(Chunk(n), n + 1) = Chunk(n + 1)
           /\ Chunk(0) = << >>
<1>1. Chunk(n) \in Seq(Nat) /\ Len(Chunk(n)) = n
  BY DEF Chunk
<1>2. Append(Chunk(n), n + 1) = Chunk(n + 1)
  BY DEF Chunk
<1>3. Chunk(0) = << >>
  BY DEF Chunk
<1> QED
  BY <1>1, <1>2, <1>3

LEMMA HandlerStart == HandlerInit => HandlerInv
<1> SUFFICES ASSUME HandlerInit PROVE HandlerInv
  OBVIOUS
<1>1. chunks \in Nat /\ body_ = Chunk(0) /\ ingress = "onRequest"
  BY HandlerAssumption, ChunkFacts DEF HandlerInit
<1>2. BodyInOrder
  BY <1>1 DEF BodyInOrder
<1> QED
  BY <1>2 DEF HandlerInit, HandlerInv, HandlerTypes, OneResponse, GivenUp

(* What is received is what the request says, once all chunks are there. *)
LEMMA ReceivedWhole ==
    ASSUME HandlerInv, ingress = "onBody", Len(body_) = chunks
    PROVE  Received = IF chunks # 0 THEN content ELSE "no json"
<1>1. PICK n \in 0..chunks : body_ = Chunk(n)
  BY DEF HandlerInv, BodyInOrder
<1>2. chunks \in Nat /\ n = chunks
  BY <1>1, ChunkFacts DEF HandlerInv, BodyInOrder
<1> QED
  BY <1>1, <1>2 DEF Received, Chunk

LEMMA RightResponses ==
    ASSUME content \in Bodies
    PROVE  /\ chunks = 0 \/ content # "query" => 400 \in RightResponse
           /\ chunks # 0 /\ content = "query" => 200 \in RightResponse
           /\ chunks # 0 /\ content = "unparsable" => 500 \in RightResponse
<1>1. CASE chunks = 0
  BY <1>1 DEF RightResponse
<1>2. CASE chunks # 0 /\ content = "query"
  BY <1>2 DEF RightResponse
<1>3. CASE chunks # 0 /\ content = "unparsable"
  BY <1>3 DEF RightResponse
<1>4. CASE content \in {"no field", "no json"}
  BY <1>4 DEF RightResponse
<1> QED
  BY <1>1, <1>2, <1>3, <1>4 DEF Bodies

LEMMA HandlerStep == ASSUME HandlerInv, [HandlerNext]_handlerVars PROVE HandlerInv'
<1>0. /\ HandlerTypes /\ BodyInOrder
      /\ method = "POST" => OneResponse /\ GivenUp
  BY DEF HandlerInv
<1>1. CASE UNCHANGED handlerVars
  <2>1. /\ UNCHANGED <<method, content, chunks, ingress, body_, responses, lifetime>>
        /\ (asking' <=> asking) /\ (failed' <=> failed)
    BY <1>1 DEF handlerVars
  <2>2. HandlerTypes' /\ BodyInOrder'
    BY <1>0, <2>1 DEF HandlerTypes, BodyInOrder
  <2>3. RightResponse' = RightResponse
    BY <2>1 DEF RightResponse
  <2> QED
    BY <1>0, <2>1, <2>2, <2>3 DEF HandlerInv, HandlerTypes, OneResponse, GivenUp
<1>2. CASE OnRequest
  <2>1. UNCHANGED <<method, content, chunks, body_, lifetime>> /\ (asking' <=> asking) /\ (failed' <=> failed)
        /\ lifetime = "alive" /\ ingress = "onRequest" /\ ingress' = "onBody"
        /\ (method = "POST" => responses' = responses)
    BY <1>2 DEF OnRequest, httpRequest
  <2>2. HandlerTypes' /\ BodyInOrder'
    BY <1>0, <2>1 DEF HandlerTypes, BodyInOrder
  <2>3. RightResponse' = RightResponse
    BY <2>1 DEF RightResponse
  <2> QED
    BY <1>0, <2>1, <2>2, <2>3 DEF HandlerInv, HandlerTypes, OneResponse, GivenUp
<1>3. CASE OnBody
  <2>1. UNCHANGED <<method, content, chunks, ingress, responses, lifetime>>
        /\ (asking' <=> asking) /\ (failed' <=> failed)
        /\ lifetime = "alive" /\ ingress = "onBody" /\ Len(body_) < chunks
        /\ body_' = Append(body_, Len(body_) + 1)
    BY <1>3 DEF OnBody, httpRequest, Chained
  <2>2. PICK n \in 0..chunks : body_ = Chunk(n)
    BY <1>0 DEF BodyInOrder
  <2>5. chunks \in Nat /\ n \in Nat
    BY <1>0 DEF BodyInOrder
  <2>6. Len(body_) = n /\ Append(body_, n + 1) = Chunk(n + 1)
    BY <2>2, <2>5, ChunkFacts
  <2>3. n + 1 \in 0..chunks /\ body_' = Chunk(n + 1)
    BY <2>1, <2>5, <2>6
  <2>4. BodyInOrder'
    BY <2>1, <2>3, <2>5 DEF BodyInOrder
  <2> QED
    BY <1>0, <2>1, <2>4 DEF HandlerInv, HandlerTypes, OneResponse, GivenUp, RightResponse
<1>4. CASE OnEOM
  <2>1. UNCHANGED <<method, content, chunks, body_, lifetime>>
        /\ lifetime = "alive" /\ ingress = "onBody" /\ Len(body_) = chunks /\ ingress' = "none"
    BY <1>4 DEF OnEOM, httpRequest
  <2>2. Received = IF chunks # 0 THEN content ELSE "no json"
    BY <2>1, ReceivedWhole
  <2>3. PICK n \in 0..chunks : body_ = Chunk(n)
    BY <1>0 DEF BodyInOrder
  <2>4. chunks \in Nat /\ n = chunks
    BY <1>0, <2>1, <2>3, ChunkFacts DEF BodyInOrder
  <2>5. BodyInOrder'
    BY <2>1, <2>3, <2>4 DEF BodyInOrder
  <2>7. CASE Received \in {"query", "unparsable"} /\ asking' = TRUE /\ UNCHANGED responses
    <3>0. Received \in {"query", "unparsable"} /\ responses' = responses
      BY <2>7
    <3>1. chunks # 0 /\ content \in {"query", "unparsable"}
      BY <2>2, <2>4, <3>0
    <3> QED
      BY <1>0, <2>1, <2>5, <3>0, <3>1
         DEF HandlerInv, HandlerTypes, OneResponse, GivenUp, RightResponse
  <2>8. CASE Received # "query" /\ responses' = Append(responses, 400) /\ UNCHANGED asking
    <3>0. Received # "query" /\ responses' = Append(responses, 400) /\ (asking' <=> asking)
      BY <2>8
    <3>1. 400 \in RightResponse
      <4>1. content \in Bodies /\ (chunks = 0 \/ content # "query")
        BY <1>0, <2>2, <3>0 DEF HandlerTypes
      <4> QED
        BY <4>1, RightResponses
    <3>2. RightResponse' = RightResponse
      BY <2>1 DEF RightResponse
    <3>3. method = "POST" => responses' = <<400>> /\ ~asking
      BY <1>0, <2>1, <3>0 DEF OneResponse
    <3> QED
      BY <1>0, <2>1, <2>5, <3>0, <3>1, <3>2, <3>3
         DEF HandlerInv, HandlerTypes, OneResponse, GivenUp
  <2> QED
    BY <1>4, <2>7, <2>8 DEF OnEOM, Respond
<1>5. CASE OnResults
  <2>1. UNCHANGED <<method, content, chunks, ingress, body_>> /\ asking /\ ~asking' /\ (failed' <=> failed)
    BY <1>5 DEF OnResults, httpRequest
  <2>2. BodyInOrder'
    BY <1>0, <2>1 DEF BodyInOrder
  <2>3. RightResponse' = RightResponse
    BY <2>1 DEF RightResponse
  <2>4. CASE lifetime = "alive"
    <3> DEFINE status == IF content = "query" THEN 200 ELSE 500
    <3>1. responses' = Append(responses, status) /\ lifetime' = "alive"
      BY <1>5, <2>4 DEF OnResults, Respond
    <3>3. ASSUME method = "POST" PROVE status \in RightResponse
      <4>1. chunks # 0 /\ content \in {"query", "unparsable"} /\ content \in Bodies
        BY <1>0, <2>1, <3>3 DEF OneResponse, HandlerTypes
      <4> QED
        BY <4>1, RightResponses
    <3> HIDE DEF status
    <3>2. method = "POST" => responses' = <<status>> /\ ingress = "none" /\ status \in RightResponse
      BY <1>0, <2>1, <3>1, <3>3 DEF OneResponse
    <3> QED
      BY <1>0, <2>1, <2>2, <2>3, <3>1, <3>2 DEF HandlerInv, HandlerTypes, OneResponse, GivenUp
  <2>5. CASE lifetime # "alive"
    <3>1. responses' = responses /\ lifetime' = "dangling"
      BY <1>5, <2>5 DEF OnResults
    <3> QED
      BY <1>0, <2>1, <2>2, <2>3, <2>5, <3>1 DEF HandlerInv, HandlerTypes, OneResponse, GivenUp
  <2> QED
    BY <2>4, <2>5
<1>6. CASE RequestComplete
  <2>1. UNCHANGED <<method, content, chunks, ingress, body_, responses>>
        /\ (asking' <=> asking) /\ (failed' <=> failed)
        /\ lifetime = "alive" /\ responses # << >> /\ lifetime' = "deleted"
    BY <1>6 DEF RequestComplete, httpRequest
  <2>2. HandlerTypes' /\ BodyInOrder'
    BY <1>0, <2>1 DEF HandlerTypes, BodyInOrder
  <2>3. RightResponse' = RightResponse
    BY <2>1 DEF RightResponse
  <2> QED
    BY <1>0, <2>1, <2>2, <2>3 DEF HandlerInv, HandlerTypes, OneResponse, GivenUp
<1>7. CASE OnError
  <2>1. UNCHANGED <<method, content, chunks, ingress, body_, responses>> /\ (asking' <=> asking)
        /\ lifetime = "alive" /\ failed' /\ lifetime' = "deleted"
    BY <1>7 DEF OnError, httpRequest
  <2>2. HandlerTypes' /\ BodyInOrder'
    BY <1>0, <2>1 DEF HandlerTypes, BodyInOrder
  <2>3. RightResponse' = RightResponse
    BY <2>1 DEF RightResponse
  <2> QED
    BY <1>0, <2>1, <2>2, <2>3 DEF HandlerInv, HandlerTypes, OneResponse, GivenUp
<1> QED
  BY <1>1, <1>2, <1>3, <1>4, <1>5, <1>6, <1>7 DEF HandlerNext, HandlerGoes

LEMMA HandlerInvGivesOneAnswer == HandlerInv => PostAnsweredOnce
<1> SUFFICES ASSUME HandlerInv, method = "POST"
             PROVE  /\ Len(responses) + (IF asking THEN 1 ELSE 0) <= 1
                    /\ ToSet(responses) \subseteq RightResponse
                    /\ lifetime = "dangling" => failed /\ responses = << >>
  BY DEF PostAnsweredOnce
<1>1. OneResponse /\ GivenUp
  BY DEF HandlerInv
<1>2. CASE responses = << >>
  BY <1>1, <1>2 DEF ToSet, GivenUp
<1>3. ASSUME NEW status \in RightResponse, responses = <<status>>
      PROVE  Len(responses) = 1 /\ ToSet(responses) \subseteq RightResponse /\ responses # << >>
  BY <1>3 DEF ToSet
<1>4. CASE responses # << >>
  <2>1. Len(responses) = 1 /\ ToSet(responses) \subseteq RightResponse
    BY <1>1, <1>3, <1>4 DEF OneResponse
  <2>2. ~asking /\ lifetime # "dangling"
    BY <1>1, <1>4 DEF OneResponse, GivenUp
  <2> QED
    BY <2>1, <2>2
<1> QED
  BY <1>2, <1>4

(***************************************************************************)
(* A POST is answered once at most, with what its body calls for, for any   *)
(* number of chunks and an error at any moment.                            *)
(***************************************************************************)
THEOREM PostAlwaysAnsweredOnce == HandlerSpec => []PostAnsweredOnce
BY HandlerStart, HandlerStep, HandlerInvGivesOneAnswer, PTL DEF HandlerSpec

--------------------------------------------------------------------------------
(* What is on the wire, what runs, and what has been answered. *)

Requests == [id : Nat, endpoint : Endpoints, content : Contents]
Replies == [status : Nat, id : Nat]
PartsOf(requests) == [request : requests, piece : {"line", "blank", "body"}]

(* The body of a request has not been read. *)
Unread(line, request) == \E k \in DOMAIN line : line[k] = Part(request, "body")

(* What comes next on the wire. *)
Follows(part, next) ==
    /\ part.piece = "line"  => next = Part(part.request, "blank")
    /\ part.piece = "blank" => next = Part(part.request, "body")
    /\ part.piece = "body"  => next.piece = "line"

InOrder(line) ==
    /\ \A k \in DOMAIN line : k # 1 => Follows(line[k - 1], line[k])
    /\ \A j, k \in DOMAIN line : line[j] = line[k] /\ line[j].piece = "body" => j = k
    /\ Len(line) # 0 => line[Len(line)].piece = "body"

IsResult(answer, request) == answer = Answer(200, request.id)

(* A query that runs has been read, and no results were sent for it. *)
RunningOK(asked, line, requests, answers) ==
    \A r \in asked :
        /\ r \in requests /\ r.endpoint = "query" /\ ~Unread(line, r)
        /\ \A i \in DOMAIN answers : ~IsResult(answers[i], r)

(* Results are those of a query that has been read, and are sent once. *)
ResultsOK(line, requests, answers) ==
    /\ \A i \in DOMAIN answers : answers[i].status = 200 =>
           \E r \in requests : /\ IsResult(answers[i], r) /\ ~Unread(line, r)
                               /\ r.endpoint = "query" /\ r.content = "query"
    /\ \A i, j \in DOMAIN answers : answers[i] = answers[j] /\ answers[i].status = 200 => i = j

Numbered(requests) == \A r, s \in requests : r.id = s.id => r = s

ConnectionTypes ==
    /\ sent \in Seq(Requests) /\ \A i \in DOMAIN sent : sent[i].id = i
    /\ wire \in Seq(PartsOf(ToSet(sent)))
    /\ received \in Seq(Replies) /\ writing \in Seq(Replies)
    /\ delivered \in 0..Len(writing)

ConnectionInv ==
    /\ ConnectionTypes
    /\ InOrder(wire)
    /\ RunningOK(running, wire, ToSet(sent), Answered)
    /\ ResultsOK(wire, ToSet(sent), Answered)

LEMMA RequestsNumbered ==
    ASSUME ConnectionTypes
    PROVE  /\ Numbered(ToSet(sent)) /\ ToSet(sent) \subseteq Requests
           /\ \A r \in ToSet(sent) : r.id \in DOMAIN sent /\ sent[r.id] = r
<1>1. \A r \in ToSet(sent) : r.id \in DOMAIN sent /\ sent[r.id] = r
  BY DEF ToSet, ConnectionTypes
<1>2. \A r, s \in ToSet(sent) : r.id = s.id => r = s
  <2> SUFFICES ASSUME NEW r \in ToSet(sent), NEW s \in ToSet(sent), r.id = s.id PROVE r = s
    OBVIOUS
  <2>1. sent[r.id] = r /\ sent[s.id] = s
    BY <1>1
  <2> QED
    BY <2>1
<1>3. ToSet(sent) \subseteq Requests
  BY DEF ToSet, ConnectionTypes
<1> QED
  BY <1>1, <1>2, <1>3 DEF Numbered

LEMMA SubSeqFacts ==
    ASSUME NEW S, NEW s \in Seq(S), NEW m \in 1..(Len(s) + 1), NEW n \in 0..Len(s), m <= n + 1
    PROVE  /\ SubSeq(s, m, n) \in Seq(S) /\ Len(SubSeq(s, m, n)) = n - m + 1
           /\ \A i \in 1..(n - m + 1) : SubSeq(s, m, n)[i] = s[m + i - 1]
<1>1. \A i \in m..n : s[i] \in S
  OBVIOUS
<1> QED
  BY <1>1, SubSeqProperties

--------------------------------------------------------------------------------
(* The answers, those on their way included. *)

Gone(got, out, n) == got \o SubSeq(out, n + 1, Len(out))

LEMMA GoneFacts ==
    ASSUME NEW got \in Seq(Replies), NEW out \in Seq(Replies), NEW n \in 0..Len(out)
    PROVE  LET a == Gone(got, out, n)
           IN  /\ a \in Seq(Replies) /\ DOMAIN a = 1..(Len(got) + Len(out) - n)
               /\ Len(a) = Len(got) + Len(out) - n
               /\ \A i \in DOMAIN a : a[i] = IF i <= Len(got) THEN got[i] ELSE out[n + i - Len(got)]
<1> DEFINE t == SubSeq(out, n + 1, Len(out))
           a == Gone(got, out, n)
<1>1. n \in Nat /\ Len(out) \in Nat /\ Len(got) \in Nat /\ n <= Len(out)
  OBVIOUS
<1>2. /\ t \in Seq(Replies) /\ Len(t) = Len(out) - (n + 1) + 1
      /\ \A i \in 1..(Len(out) - (n + 1) + 1) : t[i] = out[(n + 1) + i - 1]
  <2>1. n + 1 \in 1..(Len(out) + 1) /\ Len(out) \in 0..Len(out) /\ n + 1 <= Len(out) + 1
    BY <1>1
  <2> QED
    BY <2>1, SubSeqFacts
<1>3. a = got \o t
  BY DEF Gone
<1> HIDE DEF t, a
<1>7. Len(t) = Len(out) - n /\ \A i \in 1..(Len(out) - n) : t[i] = out[n + i]
  <2>1. Len(out) - (n + 1) + 1 = Len(out) - n /\ \A i \in 1..(Len(out) - n) : (n + 1) + i - 1 = n + i
    BY <1>1
  <2> QED
    BY <1>2, <2>1
<1>4. /\ a \in Seq(Replies) /\ Len(a) = Len(got) + Len(t)
      /\ \A i \in 1..(Len(got) + Len(t)) : a[i] = IF i <= Len(got) THEN got[i] ELSE t[i - Len(got)]
  BY <1>2, <1>3, ConcatProperties
<1>5. Len(a) = Len(got) + Len(out) - n /\ DOMAIN a = 1..(Len(got) + Len(out) - n)
  BY <1>1, <1>4, <1>7
<1>6. ASSUME NEW i \in DOMAIN a PROVE a[i] = IF i <= Len(got) THEN got[i] ELSE out[n + i - Len(got)]
  <2>1. CASE i <= Len(got)
    BY <1>1, <1>4, <1>5, <1>7, <2>1
  <2>2. CASE ~(i <= Len(got))
    <3>1. i - Len(got) \in 1..(Len(out) - n) /\ n + (i - Len(got)) = n + i - Len(got)
      BY <1>1, <1>5, <2>2
    <3>2. a[i] = t[i - Len(got)]
      BY <1>1, <1>4, <1>5, <1>7, <2>2
    <3> QED
      BY <1>7, <2>2, <3>1, <3>2
  <2> QED
    BY <2>1, <2>2
<1> QED
  BY <1>4, <1>5, <1>6 DEF a

(* No answer is there that was not there before. *)
Carries(s, t) ==
    \E f : /\ \A i \in DOMAIN t : f[i] \in DOMAIN s /\ t[i] = s[f[i]]
           /\ \A i, j \in DOMAIN t : f[i] = f[j] => i = j

LEMMA SameCarried ==
    ASSUME NEW s, NEW t, DOMAIN t \subseteq DOMAIN s, \A i \in DOMAIN t : t[i] = s[i]
    PROVE  Carries(s, t)
<1> DEFINE f == [i \in DOMAIN t |-> i]
<1>1. /\ \A i \in DOMAIN t : f[i] \in DOMAIN s /\ t[i] = s[f[i]]
      /\ \A i, j \in DOMAIN t : f[i] = f[j] => i = j
  OBVIOUS
<1> QED
  BY <1>1 DEF Carries

LEMMA CarriedOK ==
    ASSUME NEW q, NEW l, NEW R, NEW s, NEW t, Carries(s, t),
           RunningOK(q, l, R, s), ResultsOK(l, R, s)
    PROVE  RunningOK(q, l, R, t) /\ ResultsOK(l, R, t)
<1>1. PICK f : /\ \A i \in DOMAIN t : f[i] \in DOMAIN s /\ t[i] = s[f[i]]
               /\ \A i, j \in DOMAIN t : f[i] = f[j] => i = j
  BY DEF Carries
<1>2. RunningOK(q, l, R, t)
  BY <1>1 DEF RunningOK
<1>3. ASSUME NEW i \in DOMAIN t, t[i].status = 200
      PROVE  \E r \in R : /\ IsResult(t[i], r) /\ ~Unread(l, r)
                          /\ r.endpoint = "query" /\ r.content = "query"
  <2>1. f[i] \in DOMAIN s /\ t[i] = s[f[i]]
    BY <1>1
  <2> QED
    BY <1>3, <2>1 DEF ResultsOK
<1>4. ASSUME NEW i \in DOMAIN t, NEW j \in DOMAIN t, t[i] = t[j], t[i].status = 200
      PROVE  i = j
  <2>1. f[i] \in DOMAIN s /\ t[i] = s[f[i]] /\ f[j] \in DOMAIN s /\ t[j] = s[f[j]]
    BY <1>1
  <2>2. s[f[i]] = s[f[j]] /\ s[f[i]].status = 200
    BY <1>4, <2>1
  <2>3. \A m, n \in DOMAIN s : s[m] = s[n] /\ s[m].status = 200 => m = n
    BY DEF ResultsOK
  <2>4. f[i] = f[j]
    BY <2>1, <2>2, <2>3
  <2> QED
    BY <1>1, <2>4
<1> QED
  BY <1>2, <1>3, <1>4 DEF ResultsOK

(* One answer more. *)
Adds(s, t, answer) ==
    /\ DOMAIN t = DOMAIN s \cup {Len(s) + 1} /\ Len(s) + 1 \notin DOMAIN s
    /\ \A i \in DOMAIN s : t[i] = s[i]
    /\ t[Len(s) + 1] = answer

LEMMA OtherAnswerOK ==
    ASSUME NEW q, NEW l, NEW R, NEW s, NEW t, NEW a, a.status # 200, Adds(s, t, a),
           RunningOK(q, l, R, s), ResultsOK(l, R, s)
    PROVE  RunningOK(q, l, R, t) /\ ResultsOK(l, R, t)
<1>1. /\ DOMAIN t = DOMAIN s \cup {Len(s) + 1}
      /\ \A i \in DOMAIN s : t[i] = s[i]
      /\ t[Len(s) + 1] = a
  BY DEF Adds
<1>2. \A r : ~IsResult(a, r)
  BY DEF IsResult, Answer
<1>3. \A i \in DOMAIN t : i \notin DOMAIN s => t[i] = a
  BY <1>1
<1>4. RunningOK(q, l, R, t)
  BY <1>1, <1>2, <1>3 DEF RunningOK
<1>5. ASSUME NEW i \in DOMAIN t, t[i].status = 200 PROVE i \in DOMAIN s /\ t[i] = s[i]
  BY <1>1, <1>3, <1>5
<1>6. ASSUME NEW i \in DOMAIN t, t[i].status = 200
      PROVE  \E r \in R : /\ IsResult(t[i], r) /\ ~Unread(l, r)
                          /\ r.endpoint = "query" /\ r.content = "query"
  BY <1>5, <1>6 DEF ResultsOK
<1>7. ASSUME NEW i \in DOMAIN t, NEW j \in DOMAIN t, t[i] = t[j], t[i].status = 200
      PROVE  i = j
  BY <1>5, <1>7 DEF ResultsOK
<1> QED
  BY <1>4, <1>6, <1>7 DEF ResultsOK

(* A query that ran is answered with its results. *)
LEMMA ResultAnswerOK ==
    ASSUME NEW q, NEW l, NEW R, NEW s, NEW t, NEW r \in q, r.content = "query",
           Numbered(R), Adds(s, t, Answer(200, r.id)),
           RunningOK(q, l, R, s), ResultsOK(l, R, s)
    PROVE  RunningOK(q \ {r}, l, R, t) /\ ResultsOK(l, R, t)
<1> DEFINE a == Answer(200, r.id)
<1>1. /\ DOMAIN t = DOMAIN s \cup {Len(s) + 1}
      /\ \A i \in DOMAIN s : t[i] = s[i]
      /\ t[Len(s) + 1] = a
  BY DEF Adds
<1>2. /\ r \in R /\ r.endpoint = "query" /\ ~Unread(l, r)
      /\ \A i \in DOMAIN s : s[i] # a
  BY DEF RunningOK, IsResult
<1>3. \A i \in DOMAIN t : i \notin DOMAIN s => t[i] = a /\ i = Len(s) + 1
  BY <1>1
<1>4. ASSUME NEW o \in q \ {r} PROVE /\ o \in R /\ o.endpoint = "query" /\ ~Unread(l, o)
                                     /\ \A i \in DOMAIN t : ~IsResult(t[i], o)
  <2>1. /\ o \in R /\ o.endpoint = "query" /\ ~Unread(l, o)
        /\ \A i \in DOMAIN s : ~IsResult(s[i], o)
    BY DEF RunningOK
  <2>2. o.id # r.id
    BY <1>2, <2>1 DEF Numbered
  <2>3. ~IsResult(a, o)
    BY <2>2 DEF IsResult, Answer
  <2> QED
    BY <1>1, <1>3, <2>1, <2>3
<1>5. IsResult(a, r)
  BY DEF IsResult
<1> HIDE DEF a
<1>6. ASSUME NEW i \in DOMAIN t, t[i].status = 200
      PROVE  \E o \in R : /\ IsResult(t[i], o) /\ ~Unread(l, o)
                          /\ o.endpoint = "query" /\ o.content = "query"
  <2>1. CASE i \in DOMAIN s
    BY <1>1, <1>6, <2>1 DEF ResultsOK
  <2>2. CASE i \notin DOMAIN s
    BY <1>2, <1>3, <1>5, <2>2
  <2> QED
    BY <2>1, <2>2
<1>7. ASSUME NEW i \in DOMAIN t, NEW j \in DOMAIN t, t[i] = t[j], t[i].status = 200
      PROVE  i = j
  <2>1. CASE i \in DOMAIN s /\ j \in DOMAIN s
    BY <1>1, <1>7, <2>1 DEF ResultsOK
  <2>2. CASE ~(i \in DOMAIN s /\ j \in DOMAIN s)
    BY <1>1, <1>2, <1>3, <1>7, <2>2
  <2> QED
    BY <2>1, <2>2
<1> QED
  BY <1>4, <1>6, <1>7 DEF RunningOK, ResultsOK

(* Fewer queries run, or less is unread. *)
LEMMA LessLeftOK ==
    ASSUME NEW q, NEW p, p \subseteq q, NEW l, NEW k, NEW R, NEW s,
           \A r : Unread(k, r) => Unread(l, r),
           RunningOK(q, l, R, s), ResultsOK(l, R, s)
    PROVE  RunningOK(p, k, R, s) /\ ResultsOK(k, R, s)
<1>1. RunningOK(p, k, R, s)
  BY DEF RunningOK
<1>2. ResultsOK(k, R, s)
  BY DEF ResultsOK
<1> QED
  BY <1>1, <1>2

(* A query is started by reading the body of its request. *)
LEMMA StartedOK ==
    ASSUME NEW q, NEW l, NEW k, NEW R, NEW s, NEW r \in R,
           \A o : Unread(k, o) => Unread(l, o),
           Unread(l, r), ~Unread(k, r), r.endpoint = "query", Numbered(R),
           RunningOK(q, l, R, s), ResultsOK(l, R, s)
    PROVE  RunningOK(q \cup {r}, k, R, s) /\ ResultsOK(k, R, s)
<1>1. RunningOK(q, k, R, s) /\ ResultsOK(k, R, s)
  BY LessLeftOK
<1>2. ASSUME NEW i \in DOMAIN s PROVE ~IsResult(s[i], r)
  <2> SUFFICES ASSUME IsResult(s[i], r) PROVE FALSE
    OBVIOUS
  <2>1. s[i].status = 200
    BY DEF IsResult, Answer
  <2>2. PICK o \in R : IsResult(s[i], o) /\ ~Unread(l, o)
    BY <2>1 DEF ResultsOK
  <2>3. o.id = r.id
    BY <2>2 DEF IsResult, Answer
  <2>4. o = r
    BY <2>3 DEF Numbered
  <2> QED
    BY <2>2, <2>4
<1> QED
  BY <1>1, <1>2 DEF RunningOK

(* A new request leaves the others as they were. *)
LEMMA SentOK ==
    ASSUME NEW q, NEW l, NEW k, NEW R, NEW S, NEW s, R \subseteq S,
           \A r \in R : Unread(k, r) => Unread(l, r),
           RunningOK(q, l, R, s), ResultsOK(l, R, s)
    PROVE  RunningOK(q, k, S, s) /\ ResultsOK(k, S, s)
<1>1. RunningOK(q, k, S, s)
  BY DEF RunningOK
<1>2. ASSUME NEW i \in DOMAIN s, s[i].status = 200
      PROVE  \E r \in S : /\ IsResult(s[i], r) /\ ~Unread(k, r)
                          /\ r.endpoint = "query" /\ r.content = "query"
  <2>1. PICK r \in R : /\ IsResult(s[i], r) /\ ~Unread(l, r)
                       /\ r.endpoint = "query" /\ r.content = "query"
    BY <1>2 DEF ResultsOK
  <2> QED
    BY <2>1
<1> QED
  BY <1>1, <1>2 DEF ResultsOK

--------------------------------------------------------------------------------
(* What the actions do to the answers. *)

LEMMA WriteAdds ==
    ASSUME NEW got \in Seq(Replies), NEW out \in Seq(Replies), NEW n \in 0..Len(out),
           NEW answer \in Replies
    PROVE  /\ Adds(Gone(got, out, n), Gone(got, Append(out, answer), n), answer)
           /\ Append(out, answer) \in Seq(Replies) /\ n \in 0..Len(Append(out, answer))
<1> DEFINE more == Append(out, answer)
           s == Gone(got, out, n)
           t == Gone(got, more, n)
<1>1. /\ more \in Seq(Replies) /\ Len(more) = Len(out) + 1 /\ n \in 0..Len(more)
      /\ \A i \in 1..Len(out) : more[i] = out[i]
      /\ more[Len(out) + 1] = answer
  OBVIOUS
<1>0. n \in Nat /\ Len(out) \in Nat /\ Len(got) \in Nat /\ n <= Len(out)
  OBVIOUS
<1> HIDE DEF more
<1>2. /\ Len(s) = Len(got) + Len(out) - n /\ DOMAIN s = 1..(Len(got) + Len(out) - n)
      /\ \A i \in DOMAIN s : s[i] = IF i <= Len(got) THEN got[i] ELSE out[n + i - Len(got)]
  BY GoneFacts
<1>3. /\ DOMAIN t = 1..(Len(got) + Len(more) - n)
      /\ \A i \in DOMAIN t : t[i] = IF i <= Len(got) THEN got[i] ELSE more[n + i - Len(got)]
  BY <1>1, GoneFacts
<1> HIDE DEF s, t
<1>4. /\ DOMAIN t = DOMAIN s \cup {Len(s) + 1} /\ Len(s) + 1 \notin DOMAIN s
      /\ Len(s) + 1 \in DOMAIN t
  BY <1>0, <1>1, <1>2, <1>3
<1>5. ASSUME NEW i \in DOMAIN s PROVE t[i] = s[i]
  <2>1. CASE i <= Len(got)
    BY <1>2, <1>3, <1>4, <2>1
  <2>2. CASE ~(i <= Len(got))
    <3>1. n + i - Len(got) \in 1..Len(out)
      BY <1>0, <1>2, <2>2
    <3> QED
      BY <1>1, <1>2, <1>3, <1>4, <2>2, <3>1
  <2> QED
    BY <2>1, <2>2
<1>6. t[Len(s) + 1] = answer
  <2> DEFINE k == Len(s) + 1
  <2>1. k \in DOMAIN t /\ ~(k <= Len(got)) /\ n + k - Len(got) = Len(out) + 1
    BY <1>0, <1>2, <1>4
  <2> HIDE DEF k
  <2>2. t[k] = more[n + k - Len(got)]
    BY <1>3, <2>1
  <2>3. t[k] = answer
    BY <1>1, <2>1, <2>2
  <2> QED
    BY <2>3 DEF k
<1> QED
  BY <1>1, <1>4, <1>5, <1>6 DEF Adds, more, s, t

LEMMA DeliverCarries ==
    ASSUME NEW got \in Seq(Replies), NEW out \in Seq(Replies), NEW n \in 0..Len(out), n < Len(out)
    PROVE  /\ Carries(Gone(got, out, n), Gone(Append(got, out[n + 1]), out, n + 1))
           /\ Append(got, out[n + 1]) \in Seq(Replies) /\ n + 1 \in 0..Len(out)
<1> DEFINE more == Append(got, out[n + 1])
           s == Gone(got, out, n)
           t == Gone(more, out, n + 1)
<1>0. n \in Nat /\ Len(out) \in Nat /\ Len(got) \in Nat /\ n + 1 \in 0..Len(out)
  OBVIOUS
<1>1. /\ more \in Seq(Replies) /\ Len(more) = Len(got) + 1
      /\ \A i \in 1..Len(got) : more[i] = got[i]
      /\ more[Len(got) + 1] = out[n + 1]
  <2>1. out[n + 1] \in Replies
    OBVIOUS
  <2> QED
    BY <2>1
<1> HIDE DEF more
<1>2. /\ DOMAIN s = 1..(Len(got) + Len(out) - n)
      /\ \A i \in DOMAIN s : s[i] = IF i <= Len(got) THEN got[i] ELSE out[n + i - Len(got)]
  BY GoneFacts
<1>3. /\ DOMAIN t = 1..(Len(more) + Len(out) - (n + 1))
      /\ \A i \in DOMAIN t : t[i] = IF i <= Len(more) THEN more[i] ELSE out[(n + 1) + i - Len(more)]
  BY <1>0, <1>1, GoneFacts
<1> HIDE DEF s, t
<1>4. DOMAIN t = DOMAIN s
  BY <1>0, <1>1, <1>2, <1>3
<1>5. ASSUME NEW i \in DOMAIN t PROVE t[i] = s[i]
  <2>1. CASE i <= Len(got)
    BY <1>0, <1>1, <1>2, <1>3, <1>4, <2>1
  <2>2. CASE i = Len(got) + 1
    <3>1. n + i - Len(got) = n + 1 /\ ~(i <= Len(got)) /\ i <= Len(more)
      BY <1>0, <1>1, <2>2
    <3> QED
      BY <1>1, <1>2, <1>3, <1>4, <2>2, <3>1
  <2>3. CASE ~(i <= Len(got) + 1)
    <3>0. i \in Nat
      BY <1>0, <1>2, <1>4
    <3>1. Len(more) = Len(got) + 1
      BY <1>1
    <3>2. (n + 1) + i - (Len(got) + 1) = n + i - Len(got) /\ ~(i <= Len(got)) /\ ~(i <= Len(got) + 1)
      BY <1>0, <2>3, <3>0
    <3>3. (n + 1) + i - Len(more) = n + i - Len(got) /\ ~(i <= Len(got)) /\ ~(i <= Len(more))
      BY <3>1, <3>2
    <3> QED
      BY <1>2, <1>3, <1>4, <3>3
  <2> QED
    BY <1>0, <1>2, <1>4, <2>1, <2>2, <2>3
<1>6. Carries(s, t)
  BY <1>4, <1>5, SameCarried
<1> QED
  BY <1>0, <1>1, <1>6 DEF more, s, t

LEMMA WrittenCarries ==
    ASSUME NEW got \in Seq(Replies), NEW out \in Seq(Replies), NEW n \in 0..Len(out),
           out # << >>, NEW m, m = IF n > 0 THEN n - 1 ELSE 0
    PROVE  /\ Carries(Gone(got, out, n), Gone(got, Tail(out), m))
           /\ Tail(out) \in Seq(Replies) /\ m \in 0..Len(Tail(out))
<1> DEFINE less == Tail(out)
           s == Gone(got, out, n)
           t == Gone(got, less, m)
<1>0. n \in Nat /\ Len(out) \in Nat /\ Len(got) \in Nat /\ n <= Len(out) /\ Len(out) > 0
  OBVIOUS
<1>1. /\ less \in Seq(Replies) /\ Len(less) = Len(out) - 1
      /\ \A i \in 1..(Len(out) - 1) : less[i] = out[i + 1]
  OBVIOUS
<1> HIDE DEF less
<1>a. m \in 0..Len(less) /\ m \in Nat
  BY <1>0, <1>1
<1>2. /\ DOMAIN s = 1..(Len(got) + Len(out) - n)
      /\ \A i \in DOMAIN s : s[i] = IF i <= Len(got) THEN got[i] ELSE out[n + i - Len(got)]
  BY GoneFacts
<1>3. /\ DOMAIN t = 1..(Len(got) + Len(less) - m)
      /\ \A i \in DOMAIN t : t[i] = IF i <= Len(got) THEN got[i] ELSE less[m + i - Len(got)]
  BY <1>1, <1>a, GoneFacts
<1> HIDE DEF s, t
<1>4. CASE n > 0
  <2>1. m = n - 1 /\ DOMAIN t = DOMAIN s
    BY <1>0, <1>1, <1>2, <1>3, <1>4
  <2>2. ASSUME NEW i \in DOMAIN t PROVE t[i] = s[i]
    <3>1. CASE i <= Len(got)
      BY <1>2, <1>3, <2>1, <3>1
    <3>2. CASE ~(i <= Len(got))
      <4>1. /\ m + i - Len(got) \in 1..(Len(out) - 1)
            /\ (m + i - Len(got)) + 1 = n + i - Len(got)
        BY <1>0, <1>2, <1>4, <2>1, <3>2
      <4> QED
        BY <1>1, <1>2, <1>3, <2>1, <3>2, <4>1
    <3> QED
      BY <3>1, <3>2
  <2>3. Carries(s, t)
    BY <2>1, <2>2, SameCarried
  <2> QED
    BY <1>1, <1>a, <2>3 DEF less, s, t
<1>5. CASE n = 0
  <2>0. m = 0 /\ DOMAIN t = 1..(Len(got) + Len(out) - 1) /\ DOMAIN s = 1..(Len(got) + Len(out))
    BY <1>0, <1>1, <1>2, <1>3, <1>5
  <2> DEFINE f == [i \in DOMAIN t |-> IF i <= Len(got) THEN i ELSE i + 1]
  <2>1. ASSUME NEW i \in DOMAIN t PROVE f[i] \in DOMAIN s /\ t[i] = s[f[i]]
    <3>1. CASE i <= Len(got)
      <4>1. f[i] = i /\ i \in DOMAIN s
        BY <1>0, <2>0, <3>1
      <4> QED
        BY <1>2, <1>3, <3>1, <4>1
    <3>2. CASE ~(i <= Len(got))
      <4>1. f[i] = i + 1 /\ i + 1 \in DOMAIN s
        BY <1>0, <2>0, <3>2
      <4>2. /\ m + i - Len(got) \in 1..(Len(out) - 1)
            /\ (m + i - Len(got)) + 1 = n + (i + 1) - Len(got) /\ ~(i + 1 <= Len(got))
        BY <1>0, <1>5, <2>0, <3>2
      <4>3. t[i] = out[n + (i + 1) - Len(got)]
        BY <1>1, <1>3, <3>2, <4>2
      <4> QED
        BY <1>2, <4>1, <4>2, <4>3
    <3> QED
      BY <3>1, <3>2
  <2>2. ASSUME NEW i \in DOMAIN t, NEW j \in DOMAIN t, f[i] = f[j] PROVE i = j
    BY <1>0, <2>0, <2>2
  <2> HIDE DEF f
  <2>3. Carries(s, t)
    BY <2>1, <2>2 DEF Carries
  <2> QED
    BY <1>1, <1>a, <2>3 DEF less, s, t
<1> QED
  BY <1>0, <1>4, <1>5

--------------------------------------------------------------------------------
(* What the actions do to the wire. *)

(* The first n parts are read. *)
Shortens(l, k, S, n) ==
    /\ k \in Seq(S) /\ Len(k) = Len(l) - n
    /\ \A i \in DOMAIN k : i \in Nat \ {0} /\ n + i \in DOMAIN l /\ k[i] = l[n + i]

LEMMA LeftFacts ==
    ASSUME NEW S, NEW l \in Seq(S), NEW n \in DOMAIN l
    PROVE  Shortens(l, SubSeq(l, n + 1, Len(l)), S, n)
<1> DEFINE k == SubSeq(l, n + 1, Len(l))
<1>0. n \in 1..Len(l) /\ Len(l) \in Nat /\ n \in Nat
  OBVIOUS
<1>1. n + 1 \in 1..(Len(l) + 1) /\ Len(l) \in 0..Len(l) /\ n + 1 <= Len(l) + 1
  BY <1>0
<1>2. /\ k \in Seq(S) /\ Len(k) = Len(l) - (n + 1) + 1
      /\ \A i \in 1..(Len(l) - (n + 1) + 1) : k[i] = l[(n + 1) + i - 1]
  BY <1>0, <1>1, SubSeqFacts
<1> HIDE DEF k
<1>3. Len(k) = Len(l) - n /\ DOMAIN k = 1..(Len(l) - n)
  BY <1>0, <1>2
<1>4. ASSUME NEW i \in DOMAIN k PROVE i \in Nat \ {0} /\ n + i \in DOMAIN l /\ k[i] = l[n + i]
  <2>1. i \in 1..(Len(l) - (n + 1) + 1) /\ (n + 1) + i - 1 = n + i /\ n + i \in DOMAIN l /\ i \in Nat \ {0}
    BY <1>0, <1>3
  <2> QED
    BY <1>2, <2>1
<1> QED
  BY <1>2, <1>3, <1>4 DEF k, Shortens

LEMMA WireLeft ==
    ASSUME NEW S, NEW l \in Seq(S), InOrder(l), NEW n \in DOMAIN l,
           NEW k, Shortens(l, k, S, n)
    PROVE  /\ InOrder(k)
           /\ \A r : Unread(k, r) => Unread(l, r)
           /\ \A r : l[n] = Part(r, "body") => ~Unread(k, r)
<1>0. n \in 1..Len(l) /\ Len(l) \in Nat /\ n \in Nat
  OBVIOUS
<1>1. \A i \in DOMAIN k : i \in Nat \ {0} /\ n + i \in DOMAIN l /\ k[i] = l[n + i]
  BY DEF Shortens
<1>a. Len(k) \in Nat /\ DOMAIN k = 1..Len(k)
  BY DEF Shortens
<1>2. /\ \A j \in DOMAIN l : j # 1 => Follows(l[j - 1], l[j])
      /\ \A i, j \in DOMAIN l : l[i] = l[j] /\ l[i].piece = "body" => i = j
      /\ Len(l) # 0 => l[Len(l)].piece = "body"
  BY DEF InOrder
<1>3. ASSUME NEW i \in DOMAIN k, i # 1 PROVE Follows(k[i - 1], k[i])
  <2>1. /\ i - 1 \in DOMAIN k /\ n + (i - 1) = (n + i) - 1 /\ n + i # 1
        /\ n + i \in DOMAIN l /\ k[i] = l[n + i]
    BY <1>0, <1>1, <1>3, <1>a
  <2>2. k[i - 1] = l[(n + i) - 1]
    BY <1>1, <2>1
  <2> QED
    BY <1>2, <2>1, <2>2
<1>4. ASSUME NEW i \in DOMAIN k, NEW j \in DOMAIN k, k[i] = k[j], k[i].piece = "body"
      PROVE  i = j
  <2>1. /\ n + i \in DOMAIN l /\ n + j \in DOMAIN l /\ l[n + i] = l[n + j] /\ l[n + i].piece = "body"
        /\ i \in Nat /\ j \in Nat
    BY <1>1, <1>4
  <2>2. n + i = n + j
    BY <1>2, <2>1
  <2> QED
    BY <1>0, <2>1, <2>2
<1>5. ASSUME Len(k) # 0 PROVE k[Len(k)].piece = "body"
  <2>b. Len(k) = Len(l) - n
    BY DEF Shortens
  <2>c. Len(k) \in DOMAIN k
    BY <1>5, <1>a
  <2>d. \A x, y, z \in Nat : z = x - y /\ z # 0 => y + z = x /\ x # 0
    OBVIOUS
  <2>1. Len(k) \in DOMAIN k /\ n + Len(k) = Len(l) /\ Len(l) # 0
    BY <1>0, <1>5, <1>a, <2>b, <2>c, <2>d
  <2>2. k[Len(k)] = l[Len(l)]
    BY <1>1, <2>1
  <2> QED
    BY <1>2, <2>1, <2>2
<1>6. ASSUME NEW r, Unread(k, r) PROVE Unread(l, r)
  <2>1. PICK i \in DOMAIN k : k[i] = Part(r, "body")
    BY <1>6 DEF Unread
  <2>2. n + i \in DOMAIN l /\ l[n + i] = Part(r, "body")
    BY <1>1, <2>1
  <2> QED
    BY <2>2 DEF Unread
<1>7. ASSUME NEW r, l[n] = Part(r, "body"), Unread(k, r) PROVE FALSE
  <2>1. PICK i \in DOMAIN k : k[i] = Part(r, "body")
    BY <1>7 DEF Unread
  <2>2. n + i \in DOMAIN l /\ l[n + i] = l[n] /\ i \in Nat \ {0} /\ n \in DOMAIN l
    BY <1>1, <1>7, <2>1
  <2>3. l[n].piece = "body"
    BY <1>7 DEF Part
  <2>4. n + i = n
    BY <1>2, <2>2, <2>3
  <2> QED
    BY <1>0, <2>2, <2>4
<1> QED
  BY <1>1, <1>3, <1>4, <1>5, <1>6, <1>7 DEF InOrder

(* A request more. *)
Lengthens(l, k, R, r, n) ==
    /\ k \in Seq(PartsOf(R \cup {r})) /\ n = Len(l) /\ Len(k) = n + 3
    /\ \A i \in 1..n : k[i] = l[i]
    /\ k[n + 1] = Part(r, "line") /\ k[n + 2] = Part(r, "blank") /\ k[n + 3] = Part(r, "body")

LEMMA MoreFacts ==
    ASSUME NEW R, NEW l \in Seq(PartsOf(R)), NEW r
    PROVE  Lengthens(l, l \o Parts(r), R, r, Len(l))
<1> DEFINE S == PartsOf(R \cup {r})
           n == Len(l)
           p == Parts(r)
           k == l \o p
<1>1. PartsOf(R) \subseteq S
  BY DEF PartsOf
<1>2. Part(r, "line") \in S /\ Part(r, "blank") \in S /\ Part(r, "body") \in S
  BY DEF Part, PartsOf
<1> HIDE DEF S
<1>3. l \in Seq(S)
  BY <1>1
<1>4. p \in Seq(S) /\ Len(p) = 3 /\ p[1] = Part(r, "line") /\ p[2] = Part(r, "blank") /\ p[3] = Part(r, "body")
  BY <1>2 DEF Parts
<1>5. n \in Nat
  OBVIOUS
<1> HIDE DEF p
<1>6. /\ k \in Seq(S) /\ Len(k) = n + 3
      /\ \A i \in 1..(n + 3) : k[i] = IF i <= n THEN l[i] ELSE p[i - n]
  <2>1. /\ k \in Seq(S) /\ Len(k) = Len(l) + Len(p)
        /\ \A i \in 1..(Len(l) + Len(p)) : k[i] = IF i <= Len(l) THEN l[i] ELSE p[i - Len(l)]
    BY <1>3, <1>4, ConcatProperties
  <2> QED
    BY <1>4, <2>1
<1> HIDE DEF k, n
<1>7. \A i \in 1..n : k[i] = l[i]
  BY <1>5, <1>6
<1>8. /\ k[n + 1] = p[(n + 1) - n] /\ (n + 1) - n = 1
      /\ k[n + 2] = p[(n + 2) - n] /\ (n + 2) - n = 2
      /\ k[n + 3] = p[(n + 3) - n] /\ (n + 3) - n = 3
  BY <1>5, <1>6
<1>9. k[n + 1] = Part(r, "line") /\ k[n + 2] = Part(r, "blank") /\ k[n + 3] = Part(r, "body")
  BY <1>4, <1>8
<1> QED
  BY <1>6, <1>7, <1>9 DEF Lengthens, S, k, n, p

LEMMA WireMore ==
    ASSUME NEW R, NEW l \in Seq(PartsOf(R)), InOrder(l), NEW r, r \notin R,
           NEW k, NEW n, Lengthens(l, k, R, r, n)
    PROVE  /\ InOrder(k)
           /\ \A o \in R : Unread(k, o) => Unread(l, o)
<1>3. ASSUME NEW i \in DOMAIN l PROVE l[i].request # r
  <2>1. l[i] \in PartsOf(R)
    OBVIOUS
  <2> QED
    BY <2>1 DEF PartsOf
<1>4. n = Len(l) /\ n \in Nat /\ DOMAIN l = 1..n /\ (n # 0 => n \in DOMAIN l)
  BY DEF Lengthens
<1>5. Len(k) = n + 3 /\ DOMAIN k = 1..(n + 3) /\ \A i \in 1..n : k[i] = l[i]
  BY <1>4 DEF Lengthens
<1>6. k[n + 1] = Part(r, "line") /\ k[n + 2] = Part(r, "blank") /\ k[n + 3] = Part(r, "body")
  BY DEF Lengthens
<1>7. \A i \in DOMAIN l : i \in DOMAIN k /\ k[i] = l[i]
  BY <1>4, <1>5
<1>8. \A i \in DOMAIN k : i \in DOMAIN l \/ i = n + 1 \/ i = n + 2 \/ i = n + 3
  BY <1>4, <1>5
<1>9. /\ \A j \in DOMAIN l : j # 1 => Follows(l[j - 1], l[j])
      /\ \A i, j \in DOMAIN l : l[i] = l[j] /\ l[i].piece = "body" => i = j
      /\ n # 0 => l[n].piece = "body"
  BY <1>4 DEF InOrder
<1>10. ASSUME NEW i \in DOMAIN k, i # 1 PROVE Follows(k[i - 1], k[i])
  <2>1. CASE i \in DOMAIN l
    <3>1. i - 1 \in DOMAIN l
      BY <1>4, <1>10, <2>1
    <3> QED
      BY <1>7, <1>9, <1>10, <2>1, <3>1
  <2>2. CASE i = n + 1
    <3>1. n # 0 /\ n \in DOMAIN l /\ i - 1 = n
      BY <1>4, <1>10, <2>2
    <3>2. k[i - 1].piece = "body" /\ k[i].piece = "line"
      BY <1>6, <1>7, <1>9, <2>2, <3>1 DEF Part
    <3> QED
      BY <3>2 DEF Follows
  <2>3. CASE i = n + 2
    <3>1. i - 1 = n + 1
      BY <1>4, <2>3
    <3> QED
      BY <1>6, <2>3, <3>1 DEF Follows, Part
  <2>4. CASE i = n + 3
    <3>1. i - 1 = n + 2
      BY <1>4, <2>4
    <3> QED
      BY <1>6, <2>4, <3>1 DEF Follows, Part
  <2> QED
    BY <1>8, <2>1, <2>2, <2>3, <2>4
<1>11. \A i \in DOMAIN k : k[i].piece = "body" => (i \in DOMAIN l /\ k[i] = l[i]) \/ i = n + 3
  BY <1>6, <1>7, <1>8 DEF Part
<1>12. k[n + 3].request = r
  BY <1>6 DEF Part
<1>13. ASSUME NEW i \in DOMAIN k, NEW j \in DOMAIN k, k[i] = k[j], k[i].piece = "body"
       PROVE  i = j
  <2>1. (i \in DOMAIN l /\ k[i] = l[i]) \/ i = n + 3
    BY <1>11, <1>13
  <2>2. (j \in DOMAIN l /\ k[j] = l[j]) \/ j = n + 3
    BY <1>11, <1>13
  <2> QED
    BY <1>3, <1>9, <1>12, <1>13, <2>1, <2>2
<1>14. k[Len(k)].piece = "body"
  BY <1>5, <1>6 DEF Part
<1>15. ASSUME NEW o \in R, Unread(k, o) PROVE Unread(l, o)
  <2>1. PICK i \in DOMAIN k : k[i] = Part(o, "body")
    BY <1>15 DEF Unread
  <2>2. k[i].piece = "body" /\ k[i].request = o /\ o # r
    BY <2>1 DEF Part
  <2>3. i \in DOMAIN l /\ k[i] = l[i]
    BY <1>11, <1>12, <2>2
  <2> QED
    BY <2>1, <2>3 DEF Unread
<1> QED
  BY <1>5, <1>10, <1>13, <1>14, <1>15 DEF InOrder

(* The path is looked for anywhere in the data, but is that of the body that is handed on. *)
LEMMA LastRead ==
    ASSUME NEW R, NEW l \in Seq(PartsOf(R)), InOrder(l), NEW n \in DOMAIN l,
           NEW data, Len(data) = n, DOMAIN data = 1..n, \A i \in 1..n : data[i] = l[i],
           IsQuery(data), NEW b \in 1..n, data[b].piece = "blank", n = b + 1,
           \A i \in 1..n : data[i].piece = "blank" => b <= i
    PROVE  l[n] = Part(l[n].request, "body") /\ l[n].request.endpoint = "query"
<1>0. n \in 1..Len(l) /\ Len(l) \in Nat /\ DOMAIN l = 1..Len(l) /\ b \in Nat /\ n \in Nat
  OBVIOUS
<1>1. \A j \in DOMAIN l : j # 1 => Follows(l[j - 1], l[j])
  BY DEF InOrder
<1>2. PICK i \in 1..n : l[i].piece = "line" /\ l[i].request.endpoint = "query"
  BY DEF IsQuery
<1>3. l[n] = Part(l[b].request, "body")
  <2>1. n \in DOMAIN l /\ n # 1 /\ n - 1 = b
    BY <1>0
  <2>2. l[b].piece = "blank"
    OBVIOUS
  <2> QED
    BY <1>1, <2>1, <2>2 DEF Follows
<1>4. i \in 1..(b - 1)
  <2>1. i # n /\ i # b
    BY <1>2, <1>3 DEF Part
  <2> QED
    BY <1>0, <2>1
<1>5. l[i + 1] = Part(l[i].request, "blank")
  <2>1. i + 1 \in DOMAIN l /\ i + 1 # 1 /\ (i + 1) - 1 = i
    BY <1>0, <1>4
  <2> QED
    BY <1>1, <1>2, <2>1 DEF Follows
<1>6. i + 1 = b
  <2>1. i + 1 \in 1..n /\ data[i + 1].piece = "blank"
    BY <1>0, <1>4, <1>5 DEF Part
  <2>2. b <= i + 1
    BY <2>1
  <2> QED
    BY <1>0, <1>4, <2>2
<1> QED
  BY <1>2, <1>3, <1>5, <1>6 DEF Part

LEMMA SmallestIndex ==
    ASSUME NEW T \in SUBSET Nat, T # {}
    PROVE  Min(T) \in T /\ \A y \in T : Min(T) <= y
<1>1. \E x \in T : \A y \in T : ~(<<y, x>> \in OpToRel(<, Nat))
  BY NatLessThanWellFounded, WFMin
<1>2. PICK x \in T : \A y \in T : ~(<<y, x>> \in OpToRel(<, Nat))
  BY <1>1
<1>3. ASSUME NEW y \in T PROVE x <= y
  <2>1. ~(y < x)
    BY <1>2 DEF OpToRel
  <2> QED
    BY <2>1
<1> QED
  BY <1>3 DEF Min

LEMMA BlankFacts ==
    ASSUME NEW S, NEW data \in Seq(S), BlankAt(data) # 0
    PROVE  /\ BlankAt(data) \in DOMAIN data /\ data[BlankAt(data)].piece = "blank"
           /\ \A i \in DOMAIN data : data[i].piece = "blank" => BlankAt(data) <= i
<1> DEFINE I == {i \in 1..Len(data) : data[i].piece = "blank"}
<1>1. BlankAt(data) = IF I # {} THEN Min(I) ELSE 0
  BY DEF BlankAt, SelectInSeq
<1>2. I # {} /\ BlankAt(data) = Min(I)
  BY <1>1
<1>3. I \in SUBSET Nat
  OBVIOUS
<1>4. Min(I) \in I /\ \A y \in I : Min(I) <= y
  BY <1>2, <1>3, SmallestIndex
<1> QED
  BY <1>2, <1>4

--------------------------------------------------------------------------------
(* The invariant is kept. *)

LEMMA ConnectionStart == Init => ConnectionInv
<1> SUFFICES ASSUME Init PROVE ConnectionInv
  OBVIOUS
<1>1. /\ sent = << >> /\ wire = << >> /\ received = << >> /\ writing = << >>
      /\ delivered = 0 /\ running = {}
  BY DEF Init
<1>2. ConnectionTypes
  BY <1>1 DEF ConnectionTypes
<1>3. DOMAIN wire = {} /\ Len(wire) = 0
  BY <1>1
<1>4. InOrder(wire)
  BY <1>3 DEF InOrder
<1>5. Answered = Gone(received, writing, delivered)
  BY DEF Answered, Gone
<1>6. DOMAIN Answered = {}
  <2>1. DOMAIN Answered = 1..(Len(received) + Len(writing) - delivered)
    BY <1>2, <1>5, GoneFacts DEF ConnectionTypes
  <2> QED
    BY <1>1, <2>1
<1>7. RunningOK(running, wire, ToSet(sent), Answered)
  BY <1>1 DEF RunningOK
<1>8. ResultsOK(wire, ToSet(sent), Answered)
  BY <1>6 DEF ResultsOK
<1> QED
  BY <1>2, <1>4, <1>7, <1>8 DEF ConnectionInv

LEMMA AnswersStep ==
    ASSUME ConnectionInv, sent' = sent, wire' = wire,
           received' \in Seq(Replies), writing' \in Seq(Replies), delivered' \in 0..Len(writing'),
           RunningOK(running', wire, ToSet(sent), Answered'),
           ResultsOK(wire, ToSet(sent), Answered')
    PROVE  ConnectionInv'
<1>1. ConnectionTypes'
  BY DEF ConnectionInv, ConnectionTypes
<1>2. InOrder(wire)'
  BY DEF ConnectionInv
<1>3. RunningOK(running, wire, ToSet(sent), Answered)' /\ ResultsOK(wire, ToSet(sent), Answered)'
  OBVIOUS
<1> QED
  BY <1>1, <1>2, <1>3 DEF ConnectionInv

LEMMA NothingAnswered ==
    ASSUME ConnectionInv, UNCHANGED <<sent, wire, running, received, writing, delivered>>
    PROVE  ConnectionInv'
<1>1. /\ received' \in Seq(Replies) /\ writing' \in Seq(Replies) /\ delivered' \in 0..Len(writing')
  BY DEF ConnectionInv, ConnectionTypes
<1>2. Answered' = Answered
  BY DEF Answered
<1>3. /\ RunningOK(running', wire, ToSet(sent), Answered')
      /\ ResultsOK(wire, ToSet(sent), Answered')
  BY <1>2 DEF ConnectionInv
<1> QED
  BY <1>1, <1>3, AnswersStep

LEMMA AnswersCarried ==
    ASSUME ConnectionInv, UNCHANGED <<sent, wire, running>>,
           received' \in Seq(Replies), writing' \in Seq(Replies), delivered' \in 0..Len(writing'),
           Carries(Answered, Answered')
    PROVE  ConnectionInv'
<1>1. /\ RunningOK(running, wire, ToSet(sent), Answered')
      /\ ResultsOK(wire, ToSet(sent), Answered')
  BY CarriedOK DEF ConnectionInv
<1> QED
  BY <1>1, AnswersStep

LEMMA SendStep ==
    ASSUME ConnectionInv, NEW endpoint \in Endpoints, NEW c \in Contents, Send(endpoint, c)
    PROVE  ConnectionInv'
<1> DEFINE r == Request(Len(sent) + 1, endpoint, c)
           R == ToSet(sent)
<1>1. /\ sent' = Append(sent, r) /\ wire' = wire \o Parts(r)
      /\ UNCHANGED <<running, received, writing, delivered>>
  BY DEF Send
<1>2. /\ sent \in Seq(Requests) /\ \A i \in DOMAIN sent : sent[i].id = i
      /\ wire \in Seq(PartsOf(R))
  BY DEF ConnectionInv, ConnectionTypes
<1>3. r \in Requests /\ r.id = Len(sent) + 1
  BY <1>2 DEF Request, Requests
<1>4. r \notin R
  BY <1>2, <1>3 DEF ToSet
<1> HIDE DEF r
<1>5. /\ sent' \in Seq(Requests) /\ Len(sent') = Len(sent) + 1 /\ Len(sent) \in Nat
      /\ \A i \in 1..Len(sent) : sent'[i] = sent[i]
      /\ sent'[Len(sent) + 1] = r
  BY <1>1, <1>2, <1>3
<1>6. \A i \in DOMAIN sent' : sent'[i].id = i
  BY <1>2, <1>3, <1>5
<1>7. ToSet(sent') = R \cup {r}
  <2>1. DOMAIN sent' = DOMAIN sent \cup {Len(sent) + 1}
    BY <1>2, <1>5
  <2>2. \A i \in DOMAIN sent : sent'[i] = sent[i]
    BY <1>2, <1>5
  <2> QED
    BY <1>5, <2>1, <2>2 DEF ToSet
<1> HIDE DEF R
<1>8. Lengthens(wire, wire', R, r, Len(wire))
  <2>1. Lengthens(wire, wire \o Parts(r), R, r, Len(wire))
    BY <1>2, MoreFacts
  <2> QED
    BY <1>1, <2>1
<1>9. /\ InOrder(wire) /\ RunningOK(running, wire, R, Answered) /\ ResultsOK(wire, R, Answered)
  BY DEF ConnectionInv, R
<1>10. InOrder(wire') /\ \A o \in R : Unread(wire', o) => Unread(wire, o)
  BY <1>2, <1>4, <1>8, <1>9, WireMore
<1>11. Answered' = Answered
  BY <1>1 DEF Answered
<1>12. /\ RunningOK(running', wire', ToSet(sent'), Answered')
       /\ ResultsOK(wire', ToSet(sent'), Answered')
  <2>1. RunningOK(running, wire', R \cup {r}, Answered) /\ ResultsOK(wire', R \cup {r}, Answered)
    BY <1>9, <1>10, SentOK
  <2> QED
    BY <1>1, <1>7, <1>11, <2>1
<1>13. ConnectionTypes'
  <2>1. wire' \in Seq(PartsOf(ToSet(sent')))
    BY <1>7, <1>8 DEF Lengthens
  <2> QED
    BY <1>1, <1>5, <1>6, <2>1 DEF ConnectionInv, ConnectionTypes
<1> QED
  BY <1>10, <1>12, <1>13 DEF ConnectionInv

LEMMA ContinueStep ==
    ASSUME ConnectionInv, NEW request \in running, Continue(request)
    PROVE  ConnectionInv'
<1>1. /\ running' = running \ {request} /\ UNCHANGED <<sent, wire, received, delivered>>
  BY DEF Continue
<1>2. /\ received \in Seq(Replies) /\ writing \in Seq(Replies) /\ delivered \in 0..Len(writing)
      /\ RunningOK(running, wire, ToSet(sent), Answered) /\ ResultsOK(wire, ToSet(sent), Answered)
      /\ Numbered(ToSet(sent)) /\ ToSet(sent) \subseteq Requests
  BY RequestsNumbered DEF ConnectionInv, ConnectionTypes
<1>3. request \in Requests
  BY <1>2 DEF RunningOK
<1>4. CASE handler # "alive"
  <2>1. writing' = writing
    BY <1>4 DEF Continue
  <2>2. Answered' = Answered
    BY <1>1, <2>1 DEF Answered
  <2>3. RunningOK(running', wire, ToSet(sent), Answered) /\ ResultsOK(wire, ToSet(sent), Answered)
    BY <1>1, <1>2, LessLeftOK
  <2> QED
    BY <1>1, <1>2, <2>1, <2>2, <2>3, AnswersStep
<1>5. CASE handler = "alive"
  <2> DEFINE a == IF request.content = "query" THEN Answer(200, request.id) ELSE Answer(500, NoResults)
  <2>1. writing' = Append(writing, a)
    BY <1>5 DEF Continue
  <2>2. a \in Replies
    BY <1>3 DEF Requests, Replies, Answer, NoResults
  <2>3. /\ Adds(Answered, Answered', a) /\ writing' \in Seq(Replies) /\ delivered \in 0..Len(writing')
    <3>1. Answered' = Gone(received, Append(writing, a), delivered) /\ Answered = Gone(received, writing, delivered)
      BY <1>1, <2>1 DEF Answered, Gone
    <3> HIDE DEF a
    <3> QED
      BY <1>2, <2>1, <2>2, <3>1, WriteAdds
  <2>4. CASE request.content = "query"
    <3>1. a = Answer(200, request.id)
      BY <2>4
    <3>2. RunningOK(running', wire, ToSet(sent), Answered') /\ ResultsOK(wire, ToSet(sent), Answered')
      BY <1>1, <1>2, <2>3, <2>4, <3>1, ResultAnswerOK
    <3> QED
      BY <1>1, <1>2, <2>3, <3>2, AnswersStep
  <2>5. CASE request.content # "query"
    <3>1. a.status # 200
      BY <2>5 DEF Answer
    <3> HIDE DEF a
    <3>2. RunningOK(running, wire, ToSet(sent), Answered') /\ ResultsOK(wire, ToSet(sent), Answered')
      BY <1>2, <2>3, <3>1, OtherAnswerOK
    <3>3. RunningOK(running', wire, ToSet(sent), Answered') /\ ResultsOK(wire, ToSet(sent), Answered')
      BY <1>1, <3>2, LessLeftOK
    <3> QED
      BY <1>1, <1>2, <2>3, <3>3, AnswersStep
  <2> QED
    BY <2>4, <2>5
<1> QED
  BY <1>4, <1>5

LEMMA DeliverStep ==
    ASSUME ConnectionInv, Deliver
    PROVE  ConnectionInv'
<1>1. /\ delivered < Len(writing) /\ delivered' = delivered + 1
      /\ received' = Append(received, writing[delivered + 1])
      /\ UNCHANGED <<sent, wire, running, writing>>
  BY DEF Deliver
<1>2. received \in Seq(Replies) /\ writing \in Seq(Replies) /\ delivered \in 0..Len(writing)
  BY DEF ConnectionInv, ConnectionTypes
<1>3. /\ Answered = Gone(received, writing, delivered)
      /\ Answered' = Gone(Append(received, writing[delivered + 1]), writing, delivered + 1)
  BY <1>1 DEF Answered, Gone
<1>4. /\ Carries(Answered, Answered')
      /\ received' \in Seq(Replies) /\ delivered' \in 0..Len(writing')
  BY <1>1, <1>2, <1>3, DeliverCarries
<1> QED
  BY <1>1, <1>2, <1>4, AnswersCarried

LEMMA WrittenStep ==
    ASSUME ConnectionInv, Written
    PROVE  ConnectionInv'
<1> DEFINE m == IF delivered > 0 THEN delivered - 1 ELSE 0
<1>1. /\ writing # << >> /\ writing' = Tail(writing) /\ delivered' = m
      /\ UNCHANGED <<sent, wire, running, received>>
  BY DEF Written, WriteSuccess, WriteErr
<1>2. received \in Seq(Replies) /\ writing \in Seq(Replies) /\ delivered \in 0..Len(writing)
  BY DEF ConnectionInv, ConnectionTypes
<1>3. /\ Answered = Gone(received, writing, delivered)
      /\ Answered' = Gone(received, Tail(writing), m)
  BY <1>1 DEF Answered, Gone
<1>a. m = IF delivered > 0 THEN delivered - 1 ELSE 0
  OBVIOUS
<1> HIDE DEF m
<1>4. /\ Carries(Answered, Answered')
      /\ writing' \in Seq(Replies) /\ delivered' \in 0..Len(writing')
  BY <1>1, <1>2, <1>3, <1>a, WrittenCarries
<1> QED
  BY <1>1, <1>2, <1>4, AnswersCarried

(* A body of one part is the body of the request whose path was found. *)
LEMMA QueryRead ==
    ASSUME ConnectionInv, NEW n \in DOMAIN wire,
           NEW data \in Seq(PartsOf(ToSet(sent))), Len(data) = n, \A i \in 1..n : data[i] = wire[i],
           IsQuery(data), BlankAt(data) # 0,
           NEW body \in Seq(PartsOf(ToSet(sent))), Len(body) = n - (BlankAt(data) + 1) + 1,
           \A i \in 1..(n - (BlankAt(data) + 1) + 1) : body[i] = data[(BlankAt(data) + 1) + i - 1],
           Len(body) = 1
    PROVE  /\ body[1].request \in ToSet(sent) /\ body[1].request.endpoint = "query"
           /\ wire[n] = Part(body[1].request, "body")
<1> DEFINE b == BlankAt(data)
           R == ToSet(sent)
<1>1. wire \in Seq(PartsOf(R)) /\ InOrder(wire)
  BY DEF ConnectionInv, ConnectionTypes
<1>2. /\ b \in DOMAIN data /\ data[b].piece = "blank"
      /\ \A i \in DOMAIN data : data[i].piece = "blank" => b <= i
  BY BlankFacts
<1>3. Len(body) = n - (b + 1) + 1 /\ \A i \in 1..(n - (b + 1) + 1) : body[i] = data[(b + 1) + i - 1]
  OBVIOUS
<1>4. body[1] \in PartsOf(R)
  OBVIOUS
<1> HIDE DEF b, R
<1>5. n \in Nat /\ n \in 1..Len(wire) /\ DOMAIN data = 1..n
  BY <1>1
<1>6. b \in 1..n /\ b \in Nat /\ n = b + 1
  BY <1>2, <1>3, <1>5
<1>7. body[1] = wire[n]
  <2>1. body[1] = data[(b + 1) + 1 - 1] /\ (b + 1) + 1 - 1 = n
    BY <1>3, <1>6
  <2> QED
    BY <1>5, <2>1
<1>8. wire[n] = Part(wire[n].request, "body") /\ wire[n].request.endpoint = "query"
  BY <1>1, <1>2, <1>5, <1>6, LastRead
<1> QED
  BY <1>4, <1>7, <1>8 DEF PartsOf, R

(* What a read does: an answer without results, a query started, or nothing. *)
Refuses == \E a \in Replies : a.status # 200 /\ writing' = Append(writing, a) /\ running' = running

Starts(n) ==
    /\ writing' = writing
    /\ \E r \in ToSet(sent) : /\ running' = running \cup {r} /\ r.endpoint = "query"
                              /\ wire[n] = Part(r, "body")

LEMMA HandleQueryDoes ==
    ASSUME NEW body, HandleQuery(body)
    PROVE  \/ Refuses
           \/ Len(body) = 1 /\ running' = running \cup {body[1].request} /\ writing' = writing
<1>1. Answer(400, NoResults) \in Replies /\ Answer(400, NoResults).status # 200
  BY DEF Answer, Replies, NoResults
<1>2. Write(Answer(400, NoResults)) => Refuses
  BY <1>1 DEF Write, Refuses
<1> QED
  BY <1>2 DEF HandleQuery

LEMMA ReadDoes ==
    ASSUME ConnectionInv, NEW n \in DOMAIN wire, ReadDataAvailable(n)
    PROVE  Refuses \/ Starts(n) \/ (running' = running /\ writing' = writing)
<1> DEFINE data == SubSeq(wire, 1, n)
           S == PartsOf(ToSet(sent))
           b == BlankAt(data)
           body == SubSeq(data, b + 1, n)
<1>1. CASE ~IsQuery(data)
  <2>1. Write(Answer(404, NoResults))
    BY <1>1 DEF ReadDataAvailable
  <2>2. Answer(404, NoResults) \in Replies /\ Answer(404, NoResults).status # 200
    BY DEF Answer, Replies, NoResults
  <2> QED
    BY <2>1, <2>2 DEF Write, Refuses
<1>2. CASE IsQuery(data) /\ b = 0
  BY <1>2 DEF ReadDataAvailable
<1>3. CASE IsQuery(data) /\ b # 0
  <2>1. HandleQuery(body)
    BY <1>3 DEF ReadDataAvailable
  <2>2. /\ data \in Seq(S) /\ Len(data) = n /\ \A i \in 1..n : data[i] = wire[i]
    <3>0. wire \in Seq(S)
      BY DEF ConnectionInv, ConnectionTypes
    <3> HIDE DEF S
    <3>1. 1 \in 1..(Len(wire) + 1) /\ n \in 0..Len(wire) /\ 1 <= n + 1 /\ n - 1 + 1 = n /\ n \in Nat
      BY <3>0
    <3>2. /\ data \in Seq(S) /\ Len(data) = n - 1 + 1
          /\ \A i \in 1..(n - 1 + 1) : data[i] = wire[1 + i - 1]
      BY <3>0, <3>1, SubSeqFacts
    <3>3. \A i \in 1..n : 1 + i - 1 = i
      BY <3>1
    <3> HIDE DEF data
    <3> QED
      BY <3>1, <3>2, <3>3
  <2> HIDE DEF data, S
  <2>3. b \in 1..n /\ n \in Nat /\ DOMAIN data = 1..n
    <3>1. b \in DOMAIN data
      BY <1>3, <2>2, BlankFacts
    <3>2. wire \in Seq(S)
      BY DEF ConnectionInv, ConnectionTypes, S
    <3> QED
      BY <2>2, <3>1, <3>2
  <2> HIDE DEF b
  <2>4. /\ body \in Seq(S) /\ Len(body) = n - (b + 1) + 1
        /\ \A i \in 1..(n - (b + 1) + 1) : body[i] = data[(b + 1) + i - 1]
    <3>1. b + 1 \in 1..(Len(data) + 1) /\ n \in 0..Len(data) /\ b + 1 <= n + 1
      BY <2>2, <2>3
    <3> QED
      BY <2>2, <3>1, SubSeqFacts
  <2> HIDE DEF body
  <2>5. ASSUME Len(body) = 1
        PROVE  /\ body[1].request \in ToSet(sent) /\ body[1].request.endpoint = "query"
               /\ wire[n] = Part(body[1].request, "body")
    BY <1>3, <2>2, <2>4, <2>5, QueryRead DEF b, S
  <2> QED
    BY <2>1, <2>5, HandleQueryDoes DEF Starts
<1> QED
  BY <1>1, <1>2, <1>3

LEMMA ReadStep ==
    ASSUME ConnectionInv, NEW n \in DOMAIN wire, ReadDataAvailable(n)
    PROVE  ConnectionInv'
<1> DEFINE R == ToSet(sent)
           S == PartsOf(R)
<1>1. wire' = SubSeq(wire, n + 1, Len(wire)) /\ UNCHANGED <<sent, received, delivered>>
  BY DEF ReadDataAvailable, Rest
<1>2. /\ received \in Seq(Replies) /\ writing \in Seq(Replies) /\ delivered \in 0..Len(writing)
      /\ wire \in Seq(S) /\ InOrder(wire)
      /\ RunningOK(running, wire, R, Answered) /\ ResultsOK(wire, R, Answered)
      /\ Numbered(R)
  BY RequestsNumbered DEF ConnectionInv, ConnectionTypes
<1> HIDE DEF S
<1>3. Shortens(wire, wire', S, n)
  <2>1. Shortens(wire, SubSeq(wire, n + 1, Len(wire)), S, n)
    BY <1>2, LeftFacts
  <2> QED
    BY <1>1, <2>1
<1>4. /\ InOrder(wire') /\ \A r : Unread(wire', r) => Unread(wire, r)
      /\ \A r : wire[n] = Part(r, "body") => ~Unread(wire', r)
  BY <1>2, <1>3, WireLeft
<1>5. RunningOK(running, wire', R, Answered) /\ ResultsOK(wire', R, Answered)
  BY <1>2, <1>4, LessLeftOK
<1>6. /\ writing' \in Seq(Replies) /\ delivered \in 0..Len(writing')
      /\ RunningOK(running', wire', R, Answered') /\ ResultsOK(wire', R, Answered')
  <2>1. CASE Refuses
    <3>1. PICK a \in Replies : a.status # 200 /\ writing' = Append(writing, a) /\ running' = running
      BY <2>1 DEF Refuses
    <3>2. Answered' = Gone(received, Append(writing, a), delivered) /\ Answered = Gone(received, writing, delivered)
      BY <1>1, <3>1 DEF Answered, Gone
    <3>3. /\ Adds(Answered, Answered', a) /\ writing' \in Seq(Replies) /\ delivered \in 0..Len(writing')
      BY <1>2, <3>1, <3>2, WriteAdds
    <3> QED
      BY <1>5, <3>1, <3>3, OtherAnswerOK
  <2>2. CASE Starts(n)
    <3>1. PICK r \in R : /\ running' = running \cup {r} /\ r.endpoint = "query"
                         /\ wire[n] = Part(r, "body")
      BY <2>2 DEF Starts
    <3>2. Answered' = Answered /\ writing' = writing
      BY <1>1, <2>2 DEF Starts, Answered
    <3>3. Unread(wire, r) /\ ~Unread(wire', r)
      BY <1>4, <3>1 DEF Unread
    <3>4. RunningOK(running', wire', R, Answered) /\ ResultsOK(wire', R, Answered)
      BY <1>2, <1>4, <3>1, <3>3, StartedOK
    <3> QED
      BY <1>2, <3>2, <3>4
  <2>3. CASE running' = running /\ writing' = writing
    <3>1. Answered' = Answered
      BY <1>1, <2>3 DEF Answered
    <3> QED
      BY <1>2, <1>5, <2>3, <3>1
  <2> QED
    BY <2>1, <2>2, <2>3, ReadDoes
<1>7. ConnectionTypes'
  BY <1>1, <1>3, <1>6 DEF ConnectionInv, ConnectionTypes, Shortens, S
<1> QED
  BY <1>1, <1>4, <1>6, <1>7 DEF ConnectionInv

LEMMA ConnectionStep == ASSUME ConnectionInv, [Next]_vars PROVE ConnectionInv'
<1>1. CASE UNCHANGED vars
  BY <1>1, NothingAnswered DEF vars
<1>2. CASE Finish \/ HangUp \/ Break
  BY <1>2, NothingAnswered DEF Finish, HangUp, Break
<1>3. ASSUME NEW endpoint \in Endpoints, NEW c \in Contents, Send(endpoint, c)
      PROVE  ConnectionInv'
  BY <1>3, SendStep
<1>4. ASSUME NEW n \in DOMAIN wire, ReadDataAvailable(n) PROVE ConnectionInv'
  BY <1>4, ReadStep
<1>5. ASSUME NEW request \in running, Continue(request) PROVE ConnectionInv'
  BY <1>5, ContinueStep
<1>6. CASE Deliver
  BY <1>6, DeliverStep
<1>7. CASE Written
  BY <1>7, WrittenStep
<1>8. CASE ReadEnds
  BY <1>8, NothingAnswered DEF ReadEnds, ReadEOF, ReadErr
<1> QED
  BY <1>1, <1>2, <1>3, <1>4, <1>5, <1>6, <1>7, <1>8 DEF Next, Client, Read, Continuation

LEMMA ConnectionInvGivesOnce == ConnectionInv => ResultsOnce
<1> SUFFICES ASSUME ConnectionInv PROVE ResultsOnce
  OBVIOUS
<1> DEFINE of(r) == {i \in DOMAIN Answered : Answered[i] = Answer(200, r.id)}
<1>1. /\ RunningOK(running, wire, ToSet(sent), Answered) /\ ResultsOK(wire, ToSet(sent), Answered)
      /\ Numbered(ToSet(sent))
  BY RequestsNumbered DEF ConnectionInv
<1>2. ASSUME NEW r \in ToSet(sent), of(r) # {}
      PROVE  /\ r.endpoint = "query" /\ r.content = "query" /\ r \notin running
             /\ Cardinality(of(r)) = 1
  <2>1. PICK i \in of(r) : TRUE
    BY <1>2
  <2>2. i \in DOMAIN Answered /\ Answered[i] = Answer(200, r.id) /\ Answered[i].status = 200
    BY <2>1 DEF Answer
  <2>3. of(r) = {i}
    <3>1. ASSUME NEW j \in of(r) PROVE j = i
      BY <1>1, <2>2, <3>1 DEF ResultsOK
    <3> QED
      BY <2>1, <3>1
  <2>4. PICK o \in ToSet(sent) : IsResult(Answered[i], o) /\ o.endpoint = "query" /\ o.content = "query"
    BY <1>1, <2>2 DEF ResultsOK
  <2>5. o = r
    <3>1. o.id = r.id
      BY <2>2, <2>4 DEF IsResult, Answer
    <3> QED
      BY <1>1, <3>1 DEF Numbered
  <2>6. r \notin running
    BY <1>1, <2>2 DEF RunningOK, IsResult
  <2> QED
    BY <2>3, <2>4, <2>5, <2>6, FS_Singleton
<1>3. ASSUME NEW r \in ToSet(sent), of(r) = {} PROVE Cardinality(of(r)) = 0
  BY <1>3, FS_EmptySet
<1>4. ASSUME NEW r \in ToSet(sent)
      PROVE  /\ Cardinality(of(r)) + (IF r \in running THEN 1 ELSE 0) <= 1
             /\ of(r) # {} => r.endpoint = "query" /\ r.content = "query"
  <2> HIDE DEF of
  <2>1. CASE of(r) # {}
    BY <1>2, <2>1
  <2>2. CASE of(r) = {}
    BY <1>3, <2>2
  <2> QED
    BY <2>1, <2>2
<1> QED
  BY <1>4 DEF ResultsOnce

(***************************************************************************)
(* However a client sends, however its requests are cut into reads, however *)
(* long queries take and whenever the connection ends or fails, the results *)
(* of a query are sent at most once, and only for a request to the endpoint. *)
(***************************************************************************)
THEOREM ResultsAlwaysOnce == Spec => []ResultsOnce
BY ConnectionStart, ConnectionStep, ConnectionInvGivesOnce, PTL DEF Spec

--------------------------------------------------------------------------------
(***************************************************************************)
(* A client that waits has one request under way at most: it is on the      *)
(* wire, or its query runs, or its answer is on the way or lost.            *)
(***************************************************************************)
AtRest(line, asked, out, n) == line = << >> /\ asked = {} /\ n = Len(out)

UnderWay(request, line, asked, out, n) ==
    \/ line = Parts(request) /\ asked = {} /\ n = Len(out)
    \/ /\ line = << >> /\ asked = {request} /\ n = Len(out)
       /\ request.endpoint = "query" /\ request.content \in {"query", "unparsable"}
    \/ line = << >> /\ asked = {} /\ n + 1 = Len(out) /\ Right(request, out[Len(out)])
    \/ AtRest(line, asked, out, n)

OneUnderWay ==
    \/ Len(received) = Len(sent) /\ AtRest(wire, running, writing, delivered)
    \/ /\ Len(received) + 1 = Len(sent)
       /\ UnderWay(sent[Len(sent)], wire, running, writing, delivered)

AnsweredRight == \A i \in 1..Len(received) : Right(sent[i], received[i])

WaitingInv ==
    /\ ConnectionTypes
    /\ whole /\ patient => OneUnderWay /\ AnsweredRight

LEMMA LengthsAre ==
    ASSUME ConnectionTypes
    PROVE  /\ sent \in Seq(Requests) /\ received \in Seq(Replies) /\ writing \in Seq(Replies)
           /\ Len(sent) \in Nat /\ Len(received) \in Nat /\ Len(writing) \in Nat
           /\ delivered \in Nat /\ delivered <= Len(writing)
BY DEF ConnectionTypes

(* What a read of a whole request does. *)
LEMMA WholeRequest ==
    ASSUME NEW r, NEW S, NEW data \in Seq(S), Len(data) = 3,
           data[1] = Part(r, "line"), data[2] = Part(r, "blank"), data[3] = Part(r, "body")
    PROVE  /\ IsQuery(data) <=> r.endpoint = "query"
           /\ BlankAt(data) = 2
<1>1. DOMAIN data = {1, 2, 3}
  OBVIOUS
<1>2. IsQuery(data) <=> r.endpoint = "query"
  BY <1>1 DEF IsQuery, Part
<1> DEFINE I == {i \in 1..Len(data) : data[i].piece = "blank"}
<1>3. I = {2}
  <2>1. 1..Len(data) = {1, 2, 3}
    OBVIOUS
  <2> QED
    BY <2>1 DEF Part
<1>4. BlankAt(data) = IF I # {} THEN Min(I) ELSE 0
  BY DEF BlankAt, SelectInSeq
<1>5. I \in SUBSET Nat /\ I # {}
  BY <1>3
<1>6. Min(I) \in I
  BY <1>5, SmallestIndex
<1>7. BlankAt(data) = 2
  BY <1>3, <1>4, <1>6
<1> QED
  BY <1>2, <1>7

LEMMA HandleWhole ==
    ASSUME NEW r \in Requests, r.endpoint = "query", NEW body, Len(body) = 1,
           body[1] = Part(r, "body"), HandleQuery(body)
    PROVE  \/ running' = running \cup {r} /\ writing' = writing /\ r.content \in {"query", "unparsable"}
           \/ running' = running /\ \E a \in Replies : writing' = Append(writing, a) /\ Right(r, a)
<1>1. body[1].request = r
  BY DEF Part
<1>2. r.content \in Contents
  BY DEF Requests
<1>3. Answer(400, NoResults) \in Replies
  BY DEF Answer, Replies, NoResults
<1>4. r.content # "query" => Right(r, Answer(400, NoResults))
  BY <1>2 DEF Right, Contents, Answer
<1>5. r.content # "query" /\ Write(Answer(400, NoResults))
          => running' = running /\ \E a \in Replies : writing' = Append(writing, a) /\ Right(r, a)
  BY <1>3, <1>4 DEF Write
<1>6. CASE r.content \in {"query", "unparsable"}
  <2>1. \/ running' = running \cup {r} /\ writing' = writing
        \/ r.content = "unparsable" /\ Write(Answer(400, NoResults))
    BY <1>1, <1>6 DEF HandleQuery
  <2> QED
    BY <1>5, <1>6, <2>1
<1>7. CASE r.content \notin {"query", "unparsable"}
  <2>1. Write(Answer(400, NoResults))
    BY <1>1, <1>7 DEF HandleQuery
  <2> QED
    BY <1>5, <1>7, <2>1
<1> QED
  BY <1>6, <1>7

LEMMA ReadWhole ==
    ASSUME NEW r \in Requests, wire = Parts(r), NEW n \in DOMAIN wire, whole, ReadDataAvailable(n)
    PROVE  /\ wire' = << >>
           /\ \/ /\ running' = running \cup {r} /\ writing' = writing
                 /\ r.endpoint = "query" /\ r.content \in {"query", "unparsable"}
              \/ running' = running /\ \E a \in Replies : writing' = Append(writing, a) /\ Right(r, a)
<1> DEFINE S == [request : Requests, piece : {"line", "blank", "body"}]
           data == SubSeq(wire, 1, n)
           body == SubSeq(data, BlankAt(data) + 1, n)
<1>1. /\ wire \in Seq(S) /\ Len(wire) = 3
      /\ wire[1] = Part(r, "line") /\ wire[2] = Part(r, "blank") /\ wire[3] = Part(r, "body")
  <2>1. Part(r, "line") \in S /\ Part(r, "blank") \in S /\ Part(r, "body") \in S
    BY DEF Part
  <2> HIDE DEF S
  <2> QED
    BY <2>1 DEF Parts
<1> HIDE DEF S
<1>2. n = 3
  <2>1. wire[n].piece = "body" /\ n \in {1, 2, 3}
    BY <1>1 DEF ReadDataAvailable
  <2> QED
    BY <1>1, <2>1 DEF Part
<1>3. wire' = << >>
  <2>1. wire' = SubSeq(wire, 4, 3)
    BY <1>1, <1>2 DEF ReadDataAvailable, Rest
  <2> QED
    BY <2>1, SubSeqEmpty
<1>4. /\ data \in Seq(S) /\ Len(data) = 3
      /\ data[1] = Part(r, "line") /\ data[2] = Part(r, "blank") /\ data[3] = Part(r, "body")
  <2>1. /\ data \in Seq(S) /\ Len(data) = 3 - 1 + 1
        /\ \A i \in 1..(3 - 1 + 1) : data[i] = wire[1 + i - 1]
    <3>1. 1 \in 1..(Len(wire) + 1) /\ 3 \in 0..Len(wire) /\ 1 <= 3 + 1
      BY <1>1
    <3> QED
      BY <1>1, <1>2, <3>1, SubSeqFacts
  <2> HIDE DEF data
  <2> QED
    BY <1>1, <2>1
<1>5. (IsQuery(data) <=> r.endpoint = "query") /\ BlankAt(data) = 2
  BY <1>4, WholeRequest
<1>6. Len(body) = 1 /\ body[1] = Part(r, "body")
  <2>1. /\ body \in Seq(S) /\ Len(body) = 3 - 3 + 1
        /\ \A i \in 1..(3 - 3 + 1) : body[i] = data[3 + i - 1]
    <3>1. 3 \in 1..(Len(data) + 1) /\ 3 \in 0..Len(data) /\ 3 <= 3 + 1
      BY <1>4
    <3>2. body = SubSeq(data, 3, 3)
      BY <1>2, <1>5
    <3> HIDE DEF data, body
    <3> QED
      BY <1>4, <3>1, <3>2, SubSeqFacts
  <2> HIDE DEF data, body
  <2> QED
    BY <1>4, <2>1
<1>7. CASE r.endpoint = "query"
  <2>1. IsQuery(data) /\ BlankAt(data) # 0
    BY <1>5, <1>7
  <2>2. HandleQuery(body)
    BY <2>1 DEF ReadDataAvailable
  <2> HIDE DEF body, data
  <2> QED
    BY <1>3, <1>6, <1>7, <2>2, HandleWhole
<1>8. CASE r.endpoint # "query"
  <2>1. ~IsQuery(data)
    BY <1>5, <1>8
  <2>2. Write(Answer(404, NoResults))
    BY <2>1 DEF ReadDataAvailable
  <2>3. Answer(404, NoResults) \in Replies /\ Right(r, Answer(404, NoResults))
    BY <1>8 DEF Answer, Replies, NoResults, Right, Requests, Endpoints
  <2> QED
    BY <1>3, <2>2, <2>3 DEF Write
<1> QED
  BY <1>7, <1>8

LEMMA WaitingStart == Init => WaitingInv
<1> SUFFICES ASSUME Init PROVE WaitingInv
  OBVIOUS
<1>1. /\ sent = << >> /\ wire = << >> /\ received = << >> /\ writing = << >>
      /\ delivered = 0 /\ running = {}
  BY DEF Init
<1>2. ConnectionTypes
  BY ConnectionStart DEF ConnectionInv
<1>3. OneUnderWay /\ AnsweredRight
  BY <1>1 DEF OneUnderWay, AnsweredRight, AtRest
<1> QED
  BY <1>2, <1>3 DEF WaitingInv

LEMMA SendWaits ==
    ASSUME ConnectionTypes, OneUnderWay, AnsweredRight, patient,
           NEW endpoint \in Endpoints, NEW c \in Contents, Send(endpoint, c)
    PROVE  OneUnderWay' /\ AnsweredRight'
<1> DEFINE r == Request(Len(sent) + 1, endpoint, c)
<1>1. /\ Len(received) = Len(sent)
      /\ sent' = Append(sent, r) /\ wire' = wire \o Parts(r)
      /\ UNCHANGED <<running, received, writing, delivered>>
  BY DEF Send, Idle
<1>0. sent \in Seq(Requests) /\ Len(sent) \in Nat
  BY LengthsAre
<1>2. wire = << >> /\ running = {} /\ delivered = Len(writing)
  BY <1>0, <1>1 DEF OneUnderWay, AtRest
<1>3. wire' = Parts(r)
  BY <1>1, <1>2 DEF Parts
<1>r. r \in Requests
  BY <1>0 DEF Request, Requests
<1> HIDE DEF r
<1>4. /\ Len(sent') = Len(sent) + 1 /\ sent'[Len(sent) + 1] = r
      /\ \A i \in 1..Len(sent) : sent'[i] = sent[i]
  BY <1>0, <1>1, <1>r
<1>5. OneUnderWay'
  BY <1>1, <1>2, <1>3, <1>4 DEF OneUnderWay, UnderWay
<1>6. AnsweredRight'
  BY <1>1, <1>4 DEF AnsweredRight
<1> QED
  BY <1>5, <1>6

LEMMA ReadWaits ==
    ASSUME ConnectionTypes, OneUnderWay, AnsweredRight, whole,
           NEW n \in DOMAIN wire, ReadDataAvailable(n)
    PROVE  OneUnderWay' /\ AnsweredRight'
<1> DEFINE r == sent[Len(sent)]
<1>0. /\ sent \in Seq(Requests) /\ Len(sent) \in Nat /\ Len(received) \in Nat
      /\ writing \in Seq(Replies) /\ Len(writing) \in Nat
  BY LengthsAre
<1>1. UNCHANGED <<sent, received, delivered>>
  BY DEF ReadDataAvailable
<1>2. wire # << >>
  OBVIOUS
<1>3. /\ Len(received) + 1 = Len(sent) /\ wire = Parts(r)
      /\ running = {} /\ delivered = Len(writing)
  BY <1>2 DEF OneUnderWay, UnderWay, AtRest
<1>4. r \in Requests
  BY <1>0, <1>3
<1> HIDE DEF r
<1>5. /\ wire' = << >>
      /\ \/ /\ running' = running \cup {r} /\ writing' = writing
            /\ r.endpoint = "query" /\ r.content \in {"query", "unparsable"}
         \/ running' = running /\ \E a \in Replies : writing' = Append(writing, a) /\ Right(r, a)
  BY <1>3, <1>4, ReadWhole
<1>6. UnderWay(r, wire', running', writing', delivered')
  <2>1. CASE /\ running' = running \cup {r} /\ writing' = writing
             /\ r.endpoint = "query" /\ r.content \in {"query", "unparsable"}
    BY <1>1, <1>3, <1>5, <2>1 DEF UnderWay
  <2>2. ASSUME running' = running, NEW a \in Replies, writing' = Append(writing, a), Right(r, a)
        PROVE  UnderWay(r, wire', running', writing', delivered')
    <3>1. Len(writing') = Len(writing) + 1 /\ writing'[Len(writing) + 1] = a
      BY <1>0, <2>2
    <3>2. delivered' + 1 = Len(writing') /\ writing'[Len(writing')] = a
      BY <1>1, <1>3, <3>1
    <3> QED
      BY <1>3, <1>5, <2>2, <3>2 DEF UnderWay
  <2> QED
    BY <1>5, <2>1, <2>2
<1>7. OneUnderWay'
  BY <1>1, <1>3, <1>6 DEF OneUnderWay, r
<1> QED
  BY <1>1, <1>7 DEF AnsweredRight

LEMMA ContinueWaits ==
    ASSUME ConnectionTypes, OneUnderWay, AnsweredRight,
           NEW request \in running, Continue(request)
    PROVE  OneUnderWay' /\ AnsweredRight'
<1> DEFINE r == sent[Len(sent)]
<1>0. /\ sent \in Seq(Requests) /\ Len(sent) \in Nat /\ Len(received) \in Nat
      /\ writing \in Seq(Replies) /\ Len(writing) \in Nat
  BY LengthsAre
<1>1. UNCHANGED <<sent, wire, received, delivered>> /\ running' = running \ {request}
  BY DEF Continue
<1>2. /\ Len(received) + 1 = Len(sent) /\ wire = << >>
      /\ running = {r} /\ delivered = Len(writing)
      /\ r.endpoint = "query" /\ r.content \in {"query", "unparsable"}
  BY DEF OneUnderWay, UnderWay, AtRest
<1>3. r = request /\ running' = {}
  BY <1>1, <1>2
<1>4. r \in Requests
  BY <1>0, <1>2
<1>5. UnderWay(r, wire', running', writing', delivered')
  <2>1. CASE handler # "alive"
    <3>1. writing' = writing
      BY <2>1 DEF Continue
    <3> QED
      BY <1>1, <1>2, <1>3, <3>1 DEF UnderWay, AtRest
  <2>2. CASE handler = "alive"
    <3> DEFINE a == IF r.content = "query" THEN Answer(200, r.id) ELSE Answer(500, NoResults)
    <3>1. writing' = Append(writing, a)
      BY <1>3, <2>2 DEF Continue
    <3> HIDE DEF r
    <3>2. a \in Replies /\ Right(r, a)
      BY <1>2, <1>4 DEF Requests, Replies, Answer, NoResults, Right
    <3> HIDE DEF a
    <3>3. Len(writing') = Len(writing) + 1 /\ writing'[Len(writing) + 1] = a
      BY <1>0, <3>1, <3>2
    <3>4. delivered' + 1 = Len(writing') /\ writing'[Len(writing')] = a
      BY <1>1, <1>2, <3>3
    <3> QED
      BY <1>1, <1>2, <1>3, <3>2, <3>4 DEF UnderWay
  <2> QED
    BY <2>1, <2>2
<1>6. OneUnderWay'
  BY <1>1, <1>2, <1>5 DEF OneUnderWay
<1> QED
  BY <1>1, <1>6 DEF AnsweredRight

LEMMA DeliverWaits ==
    ASSUME ConnectionTypes, OneUnderWay, AnsweredRight, Deliver
    PROVE  OneUnderWay' /\ AnsweredRight'
<1>0. /\ sent \in Seq(Requests) /\ Len(sent) \in Nat /\ received \in Seq(Replies) /\ Len(received) \in Nat
      /\ writing \in Seq(Replies) /\ Len(writing) \in Nat /\ delivered \in Nat
  BY LengthsAre
<1>1. /\ delivered < Len(writing) /\ delivered' = delivered + 1
      /\ received' = Append(received, writing[delivered + 1])
      /\ UNCHANGED <<sent, wire, running, writing>>
  BY DEF Deliver
<1>2. delivered # Len(writing)
  BY <1>0, <1>1
<1>3. /\ Len(received) + 1 = Len(sent) /\ wire = << >> /\ running = {}
      /\ delivered + 1 = Len(writing) /\ Right(sent[Len(sent)], writing[Len(writing)])
  BY <1>2 DEF OneUnderWay, UnderWay, AtRest
<1> DEFINE a == writing[delivered + 1]
<1>4. a \in Replies /\ received' = Append(received, a) /\ Right(sent[Len(sent)], a)
  BY <1>0, <1>1, <1>3
<1> HIDE DEF a
<1>5. /\ Len(received') = Len(received) + 1 /\ received'[Len(received) + 1] = a
      /\ \A i \in 1..Len(received) : received'[i] = received[i]
  BY <1>0, <1>4
<1>6. OneUnderWay'
  BY <1>1, <1>3, <1>5 DEF OneUnderWay, AtRest
<1>7. ASSUME NEW i \in 1..Len(received') PROVE Right(sent'[i], received'[i])
  <2>1. CASE i = Len(received) + 1
    BY <1>1, <1>3, <1>4, <1>5, <2>1
  <2>2. CASE i # Len(received) + 1
    <3>1. i \in 1..Len(received)
      BY <1>0, <1>5, <2>2
    <3> QED
      BY <1>1, <1>5, <3>1 DEF AnsweredRight
  <2> QED
    BY <2>1, <2>2
<1> QED
  BY <1>6, <1>7 DEF AnsweredRight

LEMMA WrittenWaits ==
    ASSUME ConnectionTypes, OneUnderWay, AnsweredRight, Written
    PROVE  OneUnderWay' /\ AnsweredRight'
<1>0. /\ writing \in Seq(Replies) /\ Len(writing) \in Nat /\ delivered \in Nat /\ delivered <= Len(writing)
  BY LengthsAre
<1>1. /\ writing # << >> /\ writing' = Tail(writing)
      /\ UNCHANGED <<sent, wire, running, received>>
  BY <1>0 DEF Written, WriteSuccess, WriteErr
<1>2. delivered' = IF delivered > 0 THEN delivered - 1 ELSE 0
  BY <1>0 DEF Written, WriteSuccess, WriteErr
<1>3. Len(writing) > 0 /\ Len(writing') = Len(writing) - 1
  BY <1>0, <1>1
<1>4. \A i \in 1..(Len(writing) - 1) : writing'[i] = writing[i + 1]
  BY <1>0, <1>1
<1>5. /\ Len(writing) \in Nat /\ delivered \in Nat /\ delivered <= Len(writing)
      /\ Len(writing) > 0 /\ Len(writing') = Len(writing) - 1
      /\ delivered' = IF delivered > 0 THEN delivered - 1 ELSE 0
  BY <1>0, <1>3, <1>2
<1>6. /\ delivered = Len(writing) => delivered' = Len(writing') /\ delivered + 1 # Len(writing)
      /\ delivered + 1 = Len(writing) /\ delivered > 0 =>
             delivered' + 1 = Len(writing') /\ Len(writing') \in 1..(Len(writing) - 1)
      /\ delivered + 1 = Len(writing) /\ delivered = 0 => delivered' = Len(writing')
      /\ delivered + 1 = Len(writing) => delivered # Len(writing)
      /\ Len(writing') + 1 = Len(writing)
  BY <1>5
<1>7. AtRest(wire, running, writing, delivered) => AtRest(wire', running', writing', delivered')
  BY <1>1, <1>6 DEF AtRest
<1>8. ASSUME NEW r, UnderWay(r, wire, running, writing, delivered)
      PROVE  UnderWay(r, wire', running', writing', delivered')
  <2>1. CASE delivered = Len(writing)
    BY <1>1, <1>8, <1>6, <2>1 DEF UnderWay, AtRest
  <2>2. ASSUME delivered + 1 = Len(writing)
        PROVE  Right(r, writing[Len(writing)]) /\ wire = << >> /\ running = {}
    <3>1. delivered # Len(writing)
      BY <1>6, <2>2
    <3> QED
      BY <1>8, <3>1 DEF UnderWay, AtRest
  <2>3. CASE delivered + 1 = Len(writing) /\ delivered > 0
    <3>1. writing'[Len(writing')] = writing[Len(writing)]
      BY <1>4, <1>6, <2>3
    <3> QED
      BY <1>1, <1>6, <2>2, <2>3, <3>1 DEF UnderWay
  <2>4. CASE delivered + 1 = Len(writing) /\ delivered = 0
    BY <1>1, <1>6, <2>2, <2>4 DEF UnderWay, AtRest
  <2>5. delivered = Len(writing) \/ delivered + 1 = Len(writing)
    BY <1>8 DEF UnderWay, AtRest
  <2>6. delivered > 0 \/ delivered = 0
    BY <1>5
  <2> QED
    BY <2>1, <2>3, <2>4, <2>5, <2>6
<1>9. OneUnderWay'
  BY <1>1, <1>7, <1>8 DEF OneUnderWay
<1> QED
  BY <1>1, <1>9 DEF AnsweredRight

LEMMA EndWaits ==
    ASSUME ConnectionTypes, OneUnderWay, AnsweredRight,
           Finish \/ HangUp \/ Break \/ ReadEnds \/ UNCHANGED vars
    PROVE  OneUnderWay' /\ AnsweredRight'
<1>1. UNCHANGED <<sent, wire, running, received, writing, delivered>>
  BY DEF Finish, HangUp, Break, ReadEnds, ReadEOF, ReadErr, vars
<1> QED
  BY <1>1 DEF OneUnderWay, AnsweredRight

LEMMA HabitsStay == ASSUME [Next]_vars PROVE UNCHANGED habits
<1>1. CASE UNCHANGED vars
  BY <1>1 DEF vars
<1>2. CASE Client
  BY <1>2 DEF Client, Finish, HangUp, Break, Send
<1>3. CASE Read \/ Continuation
  BY <1>3 DEF Read, Continuation, ReadDataAvailable, Continue
<1>4. CASE Deliver \/ Written \/ ReadEnds
  BY <1>4 DEF Deliver, Written, WriteSuccess, WriteErr, ReadEnds, ReadEOF, ReadErr
<1> QED
  BY <1>1, <1>2, <1>3, <1>4 DEF Next

LEMMA WaitingStep == ASSUME ConnectionInv, WaitingInv, [Next]_vars PROVE WaitingInv'
<1>1. (whole' <=> whole) /\ (patient' <=> patient)
  BY HabitsStay DEF habits
<1>2. ConnectionTypes'
  BY ConnectionStep DEF ConnectionInv
<1>3. ASSUME whole, patient PROVE OneUnderWay' /\ AnsweredRight'
  <2>0. ConnectionTypes /\ OneUnderWay /\ AnsweredRight
    BY <1>3 DEF WaitingInv
  <2>1. CASE Finish \/ HangUp \/ Break \/ ReadEnds \/ UNCHANGED vars
    BY <2>0, <2>1, EndWaits
  <2>2. ASSUME NEW endpoint \in Endpoints, NEW c \in Contents, Send(endpoint, c)
        PROVE  OneUnderWay' /\ AnsweredRight'
    BY <1>3, <2>0, <2>2, SendWaits
  <2>3. ASSUME NEW n \in DOMAIN wire, ReadDataAvailable(n) PROVE OneUnderWay' /\ AnsweredRight'
    BY <1>3, <2>0, <2>3, ReadWaits
  <2>4. ASSUME NEW request \in running, Continue(request) PROVE OneUnderWay' /\ AnsweredRight'
    BY <2>0, <2>4, ContinueWaits
  <2>5. CASE Deliver
    BY <2>0, <2>5, DeliverWaits
  <2>6. CASE Written
    BY <2>0, <2>6, WrittenWaits
  <2> QED
    BY <2>1, <2>2, <2>3, <2>4, <2>5, <2>6 DEF Next, Client, Read, Continuation
<1> QED
  BY <1>1, <1>2, <1>3 DEF WaitingInv

LEMMA WaitingGivesOrder == WaitingInv => AnsweredInOrder
<1> SUFFICES ASSUME WaitingInv, whole, patient
             PROVE  /\ Len(received) <= Len(sent)
                    /\ \A i \in DOMAIN received : Right(sent[i], received[i])
  BY DEF AnsweredInOrder
<1>1. ConnectionTypes /\ OneUnderWay /\ AnsweredRight
  BY DEF WaitingInv
<1>2. received \in Seq(Replies) /\ Len(sent) \in Nat /\ Len(received) \in Nat
  BY <1>1, LengthsAre
<1>3. Len(received) <= Len(sent)
  BY <1>1, <1>2 DEF OneUnderWay
<1> QED
  BY <1>1, <1>2, <1>3 DEF AnsweredRight

(***************************************************************************)
(* What a client that waits gets is the right answer to each request, in    *)
(* their order and none too many, provided that each arrives in one read,   *)
(* and however the connection ends.                                        *)
(***************************************************************************)
THEOREM AlwaysAnsweredInOrder == Spec => []AnsweredInOrder
<1>1. ConnectionInv /\ WaitingInv /\ [Next]_vars => (ConnectionInv /\ WaitingInv)'
  BY ConnectionStep, WaitingStep
<1>2. Init => ConnectionInv /\ WaitingInv
  BY ConnectionStart, WaitingStart
<1> QED
  BY <1>1, <1>2, WaitingGivesOrder, PTL DEF Spec

--------------------------------------------------------------------------------
(***************************************************************************)
(* The handler is deleted by the end of its reads, after which it is never  *)
(* read into, and by the failure of a write.  A connection that only ends   *)
(* or fails with no answer due leaves no query and no write behind it, but  *)
(* those whose answer the client has got.                                  *)
(***************************************************************************)
Ended == client # "open" \/ broken

DeletedByItsEnd ==
    /\ handler \in {"alive", "deleted", "dangling"}
    /\ handler # "alive" => Ended

NothingDue ==
    /\ client # "open" => Idle
    /\ broken => running = {} /\ delivered = Len(writing)

EndsInv ==
    /\ DeletedByItsEnd
    /\ whole /\ patient /\ orderly => NothingDue /\ (reading <=> handler = "alive")

(* Nothing is due once the connection has ended or failed. *)
LEMMA EndedQuiet ==
    ASSUME ConnectionTypes, OneUnderWay, NothingDue, Ended
    PROVE  running = {} /\ delivered = Len(writing) /\ (client # "open" => wire = << >>)
<1>1. Len(sent) \in Nat /\ Len(received) \in Nat
  BY LengthsAre
<1>2. Idle => AtRest(wire, running, writing, delivered)
  BY <1>1 DEF Idle, OneUnderWay
<1> QED
  BY <1>2 DEF AtRest, NothingDue, Ended

LEMMA DeletedStep == ASSUME DeletedByItsEnd, [Next]_vars PROVE DeletedByItsEnd'
<1>1. CASE UNCHANGED vars
  BY <1>1 DEF vars, socket, DeletedByItsEnd, Ended
<1>2. CASE Client
  BY <1>2 DEF Client, Finish, HangUp, Break, Send, socket, DeletedByItsEnd, Ended
<1>3. CASE Read \/ Continuation \/ Deliver
  BY <1>3 DEF Read, Continuation, ReadDataAvailable, Continue, Deliver, Used, socket, DeletedByItsEnd, Ended
<1>4. CASE Written
  BY <1>4 DEF Written, WriteSuccess, WriteErr, Used, Delete, socket, DeletedByItsEnd, Ended
<1>5. CASE ReadEnds
  BY <1>5 DEF ReadEnds, ReadEOF, ReadErr, Delete, DeletedByItsEnd, Ended
<1> QED
  BY <1>1, <1>2, <1>3, <1>4, <1>5 DEF Next

LEMMA NothingDueStep ==
    ASSUME ConnectionTypes, OneUnderWay, patient, orderly,
           DeletedByItsEnd, NothingDue, reading <=> handler = "alive", [Next]_vars
    PROVE  NothingDue' /\ (reading' <=> handler' = "alive")
<1>0. /\ Len(sent) \in Nat /\ received \in Seq(Replies) /\ Len(received) \in Nat
      /\ writing \in Seq(Replies) /\ Len(writing) \in Nat /\ delivered \in Nat
  BY LengthsAre
<1>1. CASE UNCHANGED vars
  BY <1>1 DEF vars, socket, NothingDue, Idle
<1>2. CASE Finish \/ HangUp
  BY <1>2 DEF Finish, HangUp, NothingDue, Idle
<1>3. CASE Break
  <2>1. UNCHANGED <<sent, client, reading, handler, running, writing, delivered, received>> /\ Idle
    BY <1>3 DEF Break
  <2>2. running = {} /\ delivered = Len(writing)
    BY <1>0, <2>1 DEF Idle, OneUnderWay, AtRest
  <2> QED
    BY <2>1, <2>2 DEF NothingDue, Idle
<1>4. ASSUME NEW endpoint \in Endpoints, NEW c \in Contents, Send(endpoint, c)
      PROVE  NothingDue' /\ (reading' <=> handler' = "alive")
  BY <1>4 DEF Send, socket, NothingDue
<1>5. ASSUME NEW n \in DOMAIN wire, ReadDataAvailable(n)
      PROVE  NothingDue' /\ (reading' <=> handler' = "alive")
  <2>1. /\ reading /\ ~broken /\ handler' = handler
        /\ UNCHANGED <<sent, client, broken, reading, received>>
    BY <1>5 DEF ReadDataAvailable, Used, socket
  <2>2. client = "open"
    BY EndedQuiet, <1>5 DEF Ended
  <2> QED
    BY <2>1, <2>2 DEF NothingDue
<1>6. ASSUME NEW request \in running, Continue(request)
      PROVE  NothingDue' /\ (reading' <=> handler' = "alive")
  <2>1. client = "open" /\ ~broken
    BY EndedQuiet, <1>6 DEF Ended
  <2>2. UNCHANGED <<client, broken, reading>> /\ handler' = handler
    BY <1>6, <2>1 DEF Continue, Used, socket, DeletedByItsEnd, Ended
  <2> QED
    BY <2>1, <2>2 DEF NothingDue
<1>7. CASE Deliver
  <2>1. UNCHANGED <<client, broken, reading, handler>> /\ ~broken /\ delivered < Len(writing)
    BY <1>7 DEF Deliver, socket, Lost
  <2>2. client = "open"
    BY <1>0, <2>1, EndedQuiet DEF Ended
  <2> QED
    BY <2>1, <2>2 DEF NothingDue
<1>8. CASE WriteSuccess
  <2>1. /\ writing # << >> /\ writing' = Tail(writing)
        /\ delivered' = IF delivered > 0 THEN delivered - 1 ELSE 0
        /\ UNCHANGED <<sent, running, received, client, broken, reading>>
        /\ handler' = "alive" <=> handler = "alive"
    BY <1>8 DEF WriteSuccess, Used, socket
  <2>2. Len(writing) > 0 /\ Len(writing') = Len(writing) - 1
    BY <1>0, <2>1
  <2>3. delivered = Len(writing) => delivered' = Len(writing')
    BY <1>0, <2>1, <2>2
  <2> QED
    BY <2>1, <2>3 DEF NothingDue, Idle
<1>9. CASE WriteErr
  <2>1. broken /\ writing # << >> /\ delivered = 0
    BY <1>9 DEF WriteErr
  <2>2. Len(writing) > 0 /\ delivered = Len(writing)
    BY <1>0, <2>1 DEF NothingDue
  <2> QED
    BY <2>1, <2>2
<1>10. CASE ReadEnds
  <2>1. /\ UNCHANGED <<sent, received, running, writing, delivered, client, broken>>
        /\ reading' = FALSE /\ handler' # "alive"
    BY <1>10 DEF ReadEnds, ReadEOF, ReadErr, Delete
  <2> QED
    BY <2>1 DEF NothingDue, Idle
<1> QED
  BY <1>1, <1>2, <1>3, <1>4, <1>5, <1>6, <1>7, <1>8, <1>9, <1>10 DEF Next, Client, Read, Continuation, Written

LEMMA EndsStart == Init => EndsInv
BY DEF Init, EndsInv, DeletedByItsEnd, Ended, NothingDue, Idle

LEMMA EndsStep == ASSUME WaitingInv, EndsInv, [Next]_vars PROVE EndsInv'
<1>1. DeletedByItsEnd'
  BY DeletedStep DEF EndsInv
<1>2. (whole' <=> whole) /\ (patient' <=> patient) /\ (orderly' <=> orderly)
  BY HabitsStay DEF habits
<1>3. ASSUME whole, patient, orderly
      PROVE  NothingDue' /\ (reading' <=> handler' = "alive")
  <2>1. /\ ConnectionTypes /\ OneUnderWay /\ DeletedByItsEnd
        /\ NothingDue /\ (reading <=> handler = "alive")
    BY <1>3 DEF WaitingInv, EndsInv
  <2> QED
    BY <1>3, <2>1, NothingDueStep
<1> QED
  BY <1>1, <1>2, <1>3 DEF EndsInv

(* A step that calls or uses the deleted handler. *)
ComesLate ==
    whole /\ patient /\ orderly /\ handler' = "dangling" =>
        handler = "deleted" /\ running' = running /\ delivered' < delivered

LEMMA LateStep == ASSUME WaitingInv, EndsInv, Next PROVE ComesLate
<1> SUFFICES ASSUME whole, patient, orderly, handler' = "dangling"
             PROVE  handler = "deleted" /\ running' = running /\ delivered' < delivered
  BY DEF ComesLate
<1>1. /\ ConnectionTypes /\ OneUnderWay /\ DeletedByItsEnd
      /\ NothingDue /\ (reading <=> handler = "alive") /\ handler # "dangling"
  BY DEF WaitingInv, EndsInv, Next
<1>2. writing \in Seq(Replies) /\ Len(writing) \in Nat /\ delivered \in Nat
  BY <1>1, LengthsAre
<1>3. ~(Client \/ Read \/ Deliver \/ ReadEnds)
  BY <1>1 DEF Client, Finish, HangUp, Break, Send, Read, ReadDataAvailable, Deliver,
              ReadEnds, ReadEOF, ReadErr, Used, Delete
<1>4. handler = "deleted"
  BY <1>1, <1>3 DEF Next, Continuation, Continue, Written, WriteSuccess, WriteErr, Used, Delete, DeletedByItsEnd
<1>5. running = {} /\ delivered = Len(writing)
  BY <1>1, <1>4, EndedQuiet DEF DeletedByItsEnd
<1>6. ~Continuation
  BY <1>5 DEF Continuation
<1>7. Written
  BY <1>3, <1>6 DEF Next
<1>8. writing # << >> /\ running' = running
  BY <1>7 DEF Written, WriteSuccess, WriteErr
<1>9. delivered > 0
  BY <1>2, <1>5, <1>8
<1>10. delivered' = delivered - 1
  BY <1>7, <1>9 DEF Written, WriteSuccess, WriteErr
<1> QED
  BY <1>2, <1>4, <1>8, <1>10

(***************************************************************************)
(* No query and no failed write finds the handler deleted, and nothing      *)
(* deletes it twice, as long as the client waits for each answer and its    *)
(* connection neither ends nor fails before: however many requests it sends *)
(* and however late their queries end.  writeSuccess may come late, and     *)
(* then only for an answer that has arrived.                               *)
(***************************************************************************)
THEOREM OnlySuccessEverComesLate == Spec => OnlySuccessComesLate
<1> DEFINE Inv == ConnectionInv /\ WaitingInv /\ EndsInv
<1>1. Init => Inv
  BY ConnectionStart, WaitingStart, EndsStart
<1>2. Inv /\ [Next]_vars => Inv'
  BY ConnectionStep, WaitingStep, EndsStep
<1>3. Inv /\ [Next]_vars => [ComesLate]_vars
  BY LateStep
<1> HIDE DEF Inv
<1>4. Spec => [][ComesLate]_vars
  BY <1>1, <1>2, <1>3, PTL DEF Spec
<1> QED
  BY <1>4 DEF OnlySuccessComesLate, ComesLate

================================================================================
