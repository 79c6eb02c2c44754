------------------------------- MODULE Connection -------------------------------
(***************************************************************************)
(* class Server::ConnectionHandler: one HTTP connection, from the socket    *)
(* that connectionAccepted hands it until it deletes itself.                *)
(*                                                                         *)
(* The socket, the executor that runs a query and its continuation, and the *)
(* client are the environment.  A request is three parts: the line with the *)
(* method and the path, the rest of the header with the blank line that     *)
(* ends it, and the body.  A read delivers any number of the parts under    *)
(* way.  The client may end its side and go on receiving, or go away, and   *)
(* the socket may fail, all of it at any moment, also while an answer is    *)
(* due.  The code is written against a query() that returns a future, which *)
(* the KnowledgeBase of this repository does not.                          *)
(***************************************************************************)
EXTENDS Naturals, SequencesExt

CONSTANT MaxRequests    \* bound on the requests of the client

ASSUME ConnectionAssumption == MaxRequests \in Nat

VARIABLES
    whole,      \* whether every read delivers whole requests
    patient,    \* whether the client waits for an answer before its next request
    orderly,    \* whether the connection only ends or fails with no answer due
    sent,       \* the requests of the client, in order
    wire,       \* the parts that have not been read
    client,     \* "open"; "finished": sends no more, but receives; "gone"
    broken,     \* whether the socket has failed
    reading,    \* whether the handler is the socket's read callback
    handler,    \* "alive"; "deleted"; "dangling": called or used after it was deleted
    running,    \* the requests whose query, or its continuation, is under way
    writing,    \* the answers handed to the socket whose callback is still due
    delivered,  \* how many of them have reached the client
    received    \* the answers the client has got

habits == <<whole, patient, orderly>>

socket == <<client, broken, reading>>

vars == <<habits, sent, wire, socket, handler, running, writing, delivered, received>>

Endpoints == {"query", "other"}
Contents == {"query", "unparsable", "no field", "no json"}

Request(id, endpoint, content) == [id |-> id, endpoint |-> endpoint, content |-> content]

Part(request, piece) == [request |-> request, piece |-> piece]

Parts(request) == <<Part(request, "line"), Part(request, "blank"), Part(request, "body")>>

(* An answer with the results of the query of a request, or with none. *)
Answer(status, id) == [status |-> status, id |-> id]

NoResults == 0

Init ==
    /\ whole \in BOOLEAN /\ patient \in BOOLEAN /\ orderly \in BOOLEAN
    /\ sent = << >> /\ wire = << >>
    /\ client = "open" /\ broken = FALSE /\ reading = TRUE
    /\ handler = "alive"
    /\ running = {}
    /\ writing = << >> /\ delivered = 0 /\ received = << >>

--------------------------------------------------------------------------------
(* The client, and what becomes of the connection *)

Idle == Len(received) = Len(sent)

Send(endpoint, content) ==
    /\ client = "open"
    /\ Len(sent) < MaxRequests
    /\ patient => Idle
    /\ LET request == Request(Len(sent) + 1, endpoint, content)
       IN  sent' = Append(sent, request) /\ wire' = wire \o Parts(request)
    /\ UNCHANGED <<habits, socket, handler, running, writing, delivered, received>>

(* The client shuts its sending side down, and may still wait for answers. *)
Finish ==
    /\ client = "open"
    /\ orderly => Idle
    /\ client' = "finished"
    /\ UNCHANGED <<habits, sent, wire, broken, reading, handler, running, writing, delivered, received>>

HangUp ==
    /\ client # "gone"
    /\ orderly => Idle
    /\ client' = "gone"
    /\ UNCHANGED <<habits, sent, wire, broken, reading, handler, running, writing, delivered, received>>

(* The network or the client breaks the connection off. *)
Break ==
    /\ ~broken
    /\ orderly => Idle
    /\ broken' = TRUE
    /\ UNCHANGED <<habits, sent, wire, client, reading, handler, running, writing, delivered, received>>

Lost == client = "gone" \/ broken

--------------------------------------------------------------------------------
(* readDataAvailable *)

Write(answer) == writing' = Append(writing, answer) /\ UNCHANGED running

(* A mutant: the request line is not looked for, only the end of the header. *)
IsQueryByBlank(data) == \E i \in DOMAIN data : data[i].piece = "blank"

(* The path of the endpoint is looked for anywhere in what was read. *)
IsQuery(data) == \E i \in DOMAIN data : data[i].piece = "line" /\ data[i].request.endpoint = "query"

BlankAt(data) == SelectInSeq(data, LAMBDA part : part.piece = "blank")

(* A mutant: after the answer to a request without the field it does not return. *)
HandleQueryOn(body) ==
    IF Len(body) = 1 /\ body[1].request.content \in {"query", "unparsable"}
    THEN \/ running' = running \cup {body[1].request} /\ UNCHANGED writing
         \/ body[1].request.content = "unparsable" /\ Write(Answer(400, NoResults))
    ELSE IF Len(body) = 1 /\ body[1].request.content = "no field"
    THEN writing' = writing \o <<Answer(400, NoResults), Answer(400, NoResults)>> /\ UNCHANGED running
    ELSE Write(Answer(400, NoResults))

(* A mutant: a request without the field is not answered. *)
HandleQuerySilent(body) ==
    IF Len(body) = 1 /\ body[1].request.content \in {"query", "unparsable"}
    THEN running' = running \cup {body[1].request} /\ UNCHANGED writing
    ELSE IF Len(body) = 1 /\ body[1].request.content = "no field" THEN UNCHANGED <<running, writing>>
    ELSE Write(Answer(400, NoResults))

(* handleQuery: query() may fail at once, and then the continuation never runs. *)
HandleQuery(body) ==
    IF Len(body) = 1 /\ body[1].request.content \in {"query", "unparsable"}
    THEN \/ running' = running \cup {body[1].request} /\ UNCHANGED writing
         \/ body[1].request.content = "unparsable" /\ Write(Answer(400, NoResults))
    ELSE Write(Answer(400, NoResults))

(* A mutant: what was read stays in the buffer. *)
RestKept(n) == wire

Rest(n) == SubSeq(wire, n + 1, Len(wire))

(* Whatever uses the handler's members, or calls it, needs it to be there. *)
Used == handler' = IF handler = "alive" THEN "alive" ELSE "dangling"

ReadDataAvailable(n) ==
    /\ reading /\ ~broken
    /\ whole => wire[n].piece = "body"
    /\ LET data == SubSeq(wire, 1, n)
       IN  IF ~IsQuery(data) THEN Write(Answer(404, NoResults))
           ELSE IF BlankAt(data) = 0 THEN UNCHANGED <<running, writing>>
           ELSE HandleQuery(SubSeq(data, BlankAt(data) + 1, n))
    /\ wire' = Rest(n)
    /\ Used
    /\ UNCHANGED <<habits, sent, socket, delivered, received>>

--------------------------------------------------------------------------------
(* The continuation of a query, on a thread of the executor.  Its answer is  *)
(* handed to the socket in one step.                                       *)

Continue(request) ==
    /\ request \in running
    /\ running' = running \ {request}
    /\ Used
    /\ writing' = IF handler # "alive" THEN writing
                  ELSE Append(writing, IF request.content = "query" THEN Answer(200, request.id)
                                       ELSE Answer(500, NoResults))
    /\ UNCHANGED <<habits, sent, wire, socket, delivered, received>>

--------------------------------------------------------------------------------
(* The other callbacks of the socket.  delete this leaves the socket open:  *)
(* the writes handed to it go on and call the deleted handler back, and a   *)
(* failed write does not take the read callback off.  The socket takes it   *)
(* off itself before it calls readEOF or readErr.                          *)

Deliver ==
    /\ ~Lost /\ delivered < Len(writing)
    /\ received' = Append(received, writing[delivered + 1])
    /\ delivered' = delivered + 1
    /\ UNCHANGED <<habits, sent, wire, socket, handler, running, writing>>

(* Reported when the kernel has taken the answer; here only once the client  *)
(* has it or never will: a late report is what may meet a deleted handler.   *)
WriteSuccess ==
    /\ writing # << >>
    /\ delivered > 0 \/ Lost
    /\ writing' = Tail(writing)
    /\ delivered' = IF delivered > 0 THEN delivered - 1 ELSE 0
    /\ Used
    /\ UNCHANGED <<habits, sent, wire, socket, running, received>>

Delete == handler' = IF handler = "alive" THEN "deleted" ELSE "dangling"

WriteErr ==
    /\ broken /\ writing # << >> /\ delivered = 0
    /\ writing' = Tail(writing)
    /\ Delete
    /\ UNCHANGED <<habits, sent, wire, socket, running, delivered, received>>

(* The client's end is reached once all it has sent has been read. *)
ReadEOF ==
    /\ reading /\ ~broken
    /\ client # "open" /\ wire = << >>
    /\ reading' = FALSE
    /\ Delete
    /\ UNCHANGED <<habits, sent, wire, client, broken, running, writing, delivered, received>>

ReadErr ==
    /\ reading /\ broken
    /\ reading' = FALSE
    /\ Delete
    /\ UNCHANGED <<habits, sent, wire, client, broken, running, writing, delivered, received>>

--------------------------------------------------------------------------------

Client == Finish \/ HangUp \/ Break \/ \E endpoint \in Endpoints, content \in Contents : Send(endpoint, content)

Read == \E n \in DOMAIN wire : ReadDataAvailable(n)

Continuation == \E request \in running : Continue(request)

Written == WriteSuccess \/ WriteErr

ReadEnds == ReadEOF \/ ReadErr

Next == handler # "dangling" /\ (Client \/ Read \/ Continuation \/ Deliver \/ Written \/ ReadEnds)

(* The event loop reads and writes what it can; the executor runs what it is given. *)
Fairness ==
    /\ WF_vars(Read) /\ WF_vars(Continuation)
    /\ WF_vars(Deliver) /\ WF_vars(Written) /\ WF_vars(ReadEnds)

Spec == Init /\ [][Next]_vars /\ Fairness

--------------------------------------------------------------------------------
(* Properties *)

Right(request, answer) ==
    \/ request.endpoint = "other" /\ answer.status = 404
    \/ /\ request.endpoint = "query"
       /\ \/ request.content = "query" /\ answer = Answer(200, request.id)
          \/ request.content = "unparsable" /\ answer.status \in {400, 500}
          \/ request.content \in {"no field", "no json"} /\ answer.status = 400

Answered == received \o SubSeq(writing, delivered + 1, Len(writing))

(***************************************************************************)
(* A client that waits gets the right answer to each request that arrives   *)
(* in one read, in the order of the requests, and never one too many.       *)
(***************************************************************************)
AnsweredInOrder ==
    whole /\ patient =>
        /\ Len(received) <= Len(sent)
        /\ \A i \in DOMAIN received : Right(sent[i], received[i])

(***************************************************************************)
(* However the client behaves and the parts arrive, the results of a query  *)
(* are sent once at most, and only for a request to the query endpoint.     *)
(***************************************************************************)
ResultsOnce ==
    LET of(request) == {i \in DOMAIN Answered : Answered[i] = Answer(200, request.id)}
    IN  \A request \in ToSet(sent) :
            /\ Cardinality(of(request)) + (IF request \in running THEN 1 ELSE 0) <= 1
            /\ of(request) # {} => request.endpoint = "query" /\ request.content = "query"

(***************************************************************************)
(* A client that sends one request after the other, waits for each answer,  *)
(* and has all of them before its connection ends or fails: then no query   *)
(* finds the handler deleted and nothing deletes it a second time.  All     *)
(* that may come late is writeSuccess, of an answer the client has got.     *)
(***************************************************************************)
OnlySuccessComesLate ==
    [][whole /\ patient /\ orderly /\ handler' = "dangling" =>
           handler = "deleted" /\ running' = running /\ delivered' < delivered]_vars

(***************************************************************************)
(* Every request that arrives in one read is answered, unless the client    *)
(* ends the connection, its sending side included, or the connection fails. *)
(***************************************************************************)
RequestsAnswered == whole /\ patient => []<>(Idle \/ client # "open" \/ broken)

================================================================================
