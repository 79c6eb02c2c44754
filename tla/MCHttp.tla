--------------------------------- MODULE MCHttp ---------------------------------
(***************************************************************************)
(* The two ways in which a request is served, side by side: a connection of *)
(* Server and a request of QueryHandler.                                   *)
(***************************************************************************)
EXTENDS Connection, Handler

VARIABLE serving    \* "Server" or "QueryHandler"

(* Nothing is claimed of the request that is not served. *)
HttpInit ==
    /\ Init /\ HandlerInit
    /\ serving \in {"Server", "QueryHandler"}
    /\ serving = "Server" => method = "PUT" /\ content = "query" /\ chunks = 0
    /\ serving = "QueryHandler" => ~whole /\ ~patient /\ ~orderly

HttpNext ==
    /\ UNCHANGED serving
    /\ \/ serving = "Server" /\ Next /\ UNCHANGED handlerVars
       \/ serving = "QueryHandler" /\ HandlerNext /\ UNCHANGED vars

HttpSpec ==
    /\ HttpInit
    /\ [][HttpNext]_<<vars, handlerVars, serving>>
    /\ Fairness
    /\ WF_handlerVars(serving = "QueryHandler" /\ HandlerGoes)

==============================================================================
