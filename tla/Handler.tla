--------------------------------- MODULE Handler ---------------------------------
(***************************************************************************)
(* class QueryHandler: one request served through proxygen, from onRequest  *)
(* until the handler deletes itself.                                       *)
(*                                                                         *)
(* proxygen and the executor are the environment: proxygen calls onRequest, *)
(* onBody for each chunk and onEOM, in this order; it calls requestComplete *)
(* once the request is read and a response sent, or onError at any moment   *)
(* before that, and nothing afterwards.  As in Connection, query() is taken *)
(* to return the future that the code expects.                             *)
(***************************************************************************)
EXTENDS Naturals, SequencesExt

CONSTANTS
    Methods,    \* the methods of the requests
    MaxChunks   \* bound on the chunks of a body

ASSUME HandlerAssumption == Methods \subseteq {"POST", "PUT"} /\ MaxChunks \in Nat

VARIABLES
    method,     \* the method of the request
    content,    \* what its body says
    chunks,     \* the number of chunks of the body
    ingress,    \* the callbacks due: "onRequest", "onBody" (or onEOM), or "none"
    body_,      \* the chunks kept
    asking,     \* whether the query, or its continuation, is under way
    responses,  \* the statuses of the responses handed to downstream_
    failed,     \* whether proxygen has called onError
    lifetime    \* "alive"; "deleted"; "dangling": used after it was deleted

handlerVars == <<method, content, chunks, ingress, body_, asking, responses, failed, lifetime>>

httpRequest == <<method, content, chunks>>

Bodies == {"query", "unparsable", "no field", "no json"}

HandlerInit ==
    /\ method \in Methods /\ content \in Bodies /\ chunks \in 0..MaxChunks
    /\ ingress = "onRequest"
    /\ body_ = << >>
    /\ asking = FALSE /\ responses = << >>
    /\ failed = FALSE /\ lifetime = "alive"

Respond(status) == responses' = Append(responses, status)

--------------------------------------------------------------------------------
(* The callbacks that bring the request *)

OnRequest ==
    /\ lifetime = "alive" /\ ingress = "onRequest"
    /\ IF method # "POST" THEN Respond(400) ELSE UNCHANGED responses
    /\ ingress' = "onBody"
    /\ UNCHANGED <<httpRequest, body_, asking, failed, lifetime>>

(* A mutant: a chunk is put behind the first one, as appendChain would. *)
ChainedBehindFirst(chunk) == IF body_ = << >> THEN <<chunk>> ELSE <<Head(body_), chunk>> \o Tail(body_)

(* prependChain on the head of a circular chain appends to its end. *)
Chained(chunk) == Append(body_, chunk)

OnBody ==
    /\ lifetime = "alive" /\ ingress = "onBody" /\ Len(body_) < chunks
    /\ body_' = Chained(Len(body_) + 1)
    /\ UNCHANGED <<httpRequest, ingress, asking, responses, failed, lifetime>>

(* The body is JSON again when its chunks are together in their order. *)
Received ==
    IF chunks # 0 /\ body_ = [i \in 1..chunks |-> i] THEN content ELSE "no json"

(* query() may fail at once, and then the continuation never runs. *)
OnEOM ==
    /\ lifetime = "alive" /\ ingress = "onBody" /\ Len(body_) = chunks
    /\ ingress' = "none"
    /\ \/ Received \in {"query", "unparsable"} /\ asking' = TRUE /\ UNCHANGED responses
       \/ Received # "query" /\ Respond(400) /\ UNCHANGED asking
    /\ UNCHANGED <<httpRequest, body_, failed, lifetime>>

--------------------------------------------------------------------------------
(* The continuation of the query, on a thread of the executor. *)
OnResults ==
    /\ asking
    /\ asking' = FALSE
    /\ IF lifetime = "alive"
       THEN Respond(IF content = "query" THEN 200 ELSE 500) /\ UNCHANGED lifetime
       ELSE lifetime' = "dangling" /\ UNCHANGED responses
    /\ UNCHANGED <<httpRequest, ingress, body_, failed>>

(* A mutant: the handler goes when the request is read, without its response. *)
RequestCompleteEarly ==
    /\ lifetime = "alive" /\ ingress = "none"
    /\ lifetime' = "deleted"
    /\ UNCHANGED <<httpRequest, ingress, body_, asking, responses, failed>>

RequestComplete ==
    /\ lifetime = "alive" /\ ingress = "none" /\ responses # << >>
    /\ lifetime' = "deleted"
    /\ UNCHANGED <<httpRequest, ingress, body_, asking, responses, failed>>

OnError ==
    /\ lifetime = "alive"
    /\ failed' = TRUE
    /\ lifetime' = "deleted"
    /\ UNCHANGED <<httpRequest, ingress, body_, asking, responses>>

--------------------------------------------------------------------------------

HandlerGoes == OnRequest \/ OnBody \/ OnEOM \/ OnResults \/ RequestComplete

HandlerNext == HandlerGoes \/ OnError

(* proxygen brings the request on, and the executor runs what it is given. *)
HandlerSpec == HandlerInit /\ [][HandlerNext]_handlerVars /\ WF_handlerVars(HandlerGoes)

--------------------------------------------------------------------------------
(* Properties *)

RightResponse ==
    IF chunks = 0 \/ content \in {"no field", "no json"} THEN {400}
    ELSE IF content = "unparsable" THEN {400, 500} ELSE {200}

(***************************************************************************)
(* A POST gets one response at most, the one its body calls for, however    *)
(* the body arrives; the continuation of its query finds the handler        *)
(* deleted only if the request has failed meanwhile.                       *)
(***************************************************************************)
PostAnsweredOnce ==
    method = "POST" =>
        /\ Len(responses) + (IF asking THEN 1 ELSE 0) <= 1
        /\ ToSet(responses) \subseteq RightResponse
        /\ lifetime = "dangling" => failed /\ responses = << >>

(* Every POST is answered, unless the request fails. *)
PostsAnswered == method = "POST" => <>(responses # << >> \/ failed)

================================================================================
