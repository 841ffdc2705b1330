------------------------------ MODULE RpcFrontEnd ------------------------------
(***************************************************************************)
(* The way of a request from a socket to an RpcService: the two framings   *)
(* (lines of JSON over TCP, one HTTP POST per connection), and the         *)
(* handlers that may be wrapped around the service, a limit on requests    *)
(* and a bearer token.  A server serves one connection to its end before   *)
(* it accepts the next.                                                    *)
(*                                                                         *)
(* The bytes of a request are a record: how many there are, whether they   *)
(* are JSON, and which of the two shapes they have, a request or an        *)
(* envelope with a token around one.                                       *)
(***************************************************************************)
EXTENDS RpcService

CONSTANTS
    MaxRequestBytes,    \* max_request_bytes of the server
    MaxHeaderBytes,     \* DEFAULT_MAX_HTTP_HEADER_BYTES
    MaxRequests,        \* max_requests of RateLimitedJsonRpcHandler
    BearerToken         \* bearer_token of AuthenticatedJsonRpcHandler

VARIABLES
    door,       \* the handlers around the service, outermost first, the number
                \* of requests the limit has let through, and (a bound) the
                \* connections still to come
    conn,       \* the connection being served: {} or what is left to read
    service,    \* the RpcService
    journal     \* every request that reached the service and its response

frontVars == <<door, conn, service, journal>>

--------------------------------------------------------------------------------
(***************************************************************************)
(* The handlers.  A call is the bytes on their way in, the requests the    *)
(* limit has let through, and the code of a refusal, "" while there is     *)
(* none: a handler that refuses does not call the one inside it.           *)
(***************************************************************************)
\* RateLimitedJsonRpcHandler: a request counts once it is let through, also
\* when a handler further in refuses it.
RateLimited(call) ==
    IF call.served >= MaxRequests THEN [call EXCEPT !.refusal = "rpc.rate_limited"]
    ELSE [call EXCEPT !.served = @ + 1]

\* AuthenticatedJsonRpcHandler: the request inside the envelope goes on.
Authenticated(call) ==
    CASE call.bytes.shape = "garbage" -> [call EXCEPT !.refusal = "rpc.decode_error"]
      [] call.bytes.shape = "request" -> [call EXCEPT !.refusal = "rpc.authentication_required"]
      [] call.bytes.shape = "envelope" ->
            IF call.bytes.token = BearerToken THEN [call EXCEPT !.bytes.shape = "request"]
            ELSE [call EXCEPT !.refusal = "rpc.authentication_required"]

\* json_rpc_response_for_request: bytes that are not a request.
Decoded(call) ==
    IF call.bytes.shape = "request" THEN call ELSE [call EXCEPT !.refusal = "rpc.decode_error"]

Handlers(layers, served, bytes) ==
    FoldLeft(LAMBDA call, layer :
                CASE call.refusal # "" -> call
                  [] layer = "rate" -> RateLimited(call)
                  [] layer = "auth" -> Authenticated(call)
                  [] layer = "decode" -> Decoded(call),
             [bytes |-> bytes, served |-> served, refusal |-> ""], Append(layers, "decode"))

--------------------------------------------------------------------------------
(***************************************************************************)
(* parse_http_json_rpc_request_head: the status of a request head.  Its    *)
(* lengths are its Content-Length lines in order; a header line that does  *)
(* not parse at all is one with parses = FALSE, the answer is the same.    *)
(***************************************************************************)
FirstBad(lengths) ==
    {i \in 1..Len(lengths) : \/ lengths[i].parses = FALSE
                             \/ \E j \in 1..(i - 1) : lengths[j].bytes # lengths[i].bytes}

HttpStatus(head) ==
    CASE ~head.well_formed -> 400
      [] head.method # "POST" -> 405
      [] head.path \notin {"/", "/rpc"} -> 404
      [] FirstBad(head.lengths) # {} -> 400
      [] head.lengths = <<>> -> 411
      [] head.lengths[1].bytes > MaxRequestBytes -> 413
      [] OTHER -> 200

--------------------------------------------------------------------------------
FrontInit ==
    /\ conn = {} /\ service = NewService /\ journal = <<>>

\* accept: a connection, as what its client is going to send.
Accept(c) ==
    /\ conn = {} /\ door.accepts > 0
    /\ conn' = {c}
    /\ door' = [door EXCEPT !.accepts = @ - 1]
    /\ UNCHANGED <<service, journal>>

\* The handlers are called with some bytes, and the service with the request
\* they let through; the response may fail to be written, which ends the
\* connection but undoes nothing.
Call(bytes, rest) ==
    LET call == Handlers(door.layers, door.served, bytes)
        result == HandleRequest(service, bytes.request)
    IN  /\ door' = [door EXCEPT !.served = call.served]
        /\ IF call.refusal # "" THEN UNCHANGED <<service, journal>>
           ELSE /\ service' = result.service
                /\ journal' = Append(journal, [request |-> bytes.request, token |-> bytes.token,
                                               response |-> result.response])
        /\ conn' \in {rest, {}}

Hang == conn' = {} /\ UNCHANGED <<door, service, journal>>

\* read_bounded_json_line: the next line, a line too long, or the end.
ReadBoundedJsonLine(c) ==
    CASE c.lines = <<>> -> "end"
      [] c.lines # <<>> /\ Head(c.lines).bytes > MaxRequestBytes -> "too_large"
      [] OTHER -> "line"

\* serve_json_rpc_handler_connection, one turn of its loop: a line too long is
\* an error that ends the connection, whatever follows.
ServeLine(c) ==
    /\ c.transport = "tcp"
    /\ \/ ReadBoundedJsonLine(c) = "end" /\ Hang
       \/ ReadBoundedJsonLine(c) = "too_large" /\ Hang
       \/ /\ ReadBoundedJsonLine(c) = "line"
          /\ Call(Head(c.lines), {[c EXCEPT !.lines = Tail(@)]})

\* read_http_headers: up to the empty line or the end of the stream.
ReadHttpHeaders(c) ==
    CASE c.head.bytes = 0 -> "end"
      [] c.head.bytes > MaxHeaderBytes -> "too_large"
      [] OTHER -> "head"

\* read_exact: of a body longer than announced, only a prefix is read.
BodyRead(c) ==
    IF c.body.bytes > c.head.lengths[1].bytes THEN [c.body EXCEPT !.shape = "garbage"] ELSE c.body

\* serve_http_json_rpc_handler_connection: the head, the body if the head
\* announces one that is allowed and all of it arrives, one response.
ServeHttp(c) ==
    /\ c.transport = "http"
    /\ \/ ReadHttpHeaders(c) \in {"end", "too_large"} /\ Hang
       \/ ReadHttpHeaders(c) = "head" /\ HttpStatus(c.head) # 200 /\ Hang
       \/ /\ ReadHttpHeaders(c) = "head" /\ HttpStatus(c.head) = 200
          /\ c.body.bytes < c.head.lengths[1].bytes /\ Hang
       \/ /\ ReadHttpHeaders(c) = "head" /\ HttpStatus(c.head) = 200
          /\ c.body.bytes >= c.head.lengths[1].bytes
          /\ Call(BodyRead(c), {})

ServeConnection == \E c \in conn : ServeLine(c) \/ ServeHttp(c)
================================================================================
