---------------------------- MODULE HttpAdapter ----------------------------
(***************************************************************************)
(* execute_http and its production transport, adapters/http.py: one        *)
(* request under a connect timeout and a total timeout.  A socket's        *)
(* timeout bounds the wait for the next byte, not the call that reads: the *)
(* library goes on until it has the headers, or the piece asked for, and   *)
(* passes over interim responses and trailers without counting them.       *)
(*                                                                         *)
(* The server is the environment.  A definition marked "mutant" is not     *)
(* part of the model: it is a wrong version of the definition below it,    *)
(* kept to test the properties.                                            *)
(***************************************************************************)
EXTENDS Naturals

CONSTANTS
    Total,         \* total_timeout_seconds
    Connect,       \* connect_timeout_seconds
    Addresses,     \* addresses that the host's name has
    MaxBody,       \* max_response_body_bytes
    Piece          \* the largest piece one read asks for

ASSUME HttpAssumption ==
    {Total, Connect, Addresses, MaxBody, Piece} \subseteq Nat \ {0}

VARIABLES
    stage,     \* where the request is
    elapsed,   \* time since the deadline was set; all that is past it is one value
    timeout,   \* the timeout of the socket
    silent,    \* how long the socket has waited
    tried,     \* addresses that did not answer
    count,     \* bytes of the piece being read
    total,     \* bytes of the body
    reply      \* the outcome, or "none"

httpVars == <<stage, elapsed, timeout, silent, tried, count, total, reply>>

On(st) == stage = st
Least(x, y) == IF x < y THEN x ELSE y
Remaining == Total - elapsed      \* compared before it is used

HttpFails ==
    /\ stage' = "done" /\ reply' = "HTTP_ADAPTER_FAILED"
    /\ UNCHANGED <<elapsed, timeout, silent, tried, count, total>>

Request ==
    /\ On("idle")
    /\ stage' = "connecting"
    /\ timeout' = Least(Connect, Total)
    /\ UNCHANGED <<elapsed, silent, tried, count, total, reply>>

\* The binding, the method or path, or the lease is refused before any connection.
RequestRefused ==
    /\ On("idle")
    /\ stage' = "done"
    /\ reply' \in {"HTTP_BINDING_INVALID", "HTTP_REQUEST_REJECTED", "HTTP_INJECT_FAILED"}
    /\ UNCHANGED <<elapsed, timeout, silent, tried, count, total>>

\* create_connection gives every address the same time.
NextAddress ==
    /\ On("connecting") /\ silent >= timeout
    /\ IF tried + 1 < Addresses
       THEN /\ tried' = tried + 1 /\ silent' = 0
            /\ UNCHANGED <<stage, elapsed, timeout, count, total, reply>>
       ELSE HttpFails

Connected ==
    /\ On("connecting") /\ silent < timeout
    /\ IF elapsed >= Total THEN HttpFails
       ELSE /\ stage' = "headers"
            /\ timeout' = Remaining /\ silent' = 0
            /\ UNCHANGED <<elapsed, tried, count, total, reply>>

HeadersEnd ==
    /\ On("headers") /\ silent < timeout
    /\ stage' = "body"
    /\ UNCHANGED <<elapsed, timeout, silent, tried, count, total, reply>>

\* The deadline becomes the timeout of the socket found in the reader.
BeginRead ==
    /\ On("body") /\ total <= MaxBody
    /\ IF elapsed >= Total THEN HttpFails
       ELSE /\ stage' = "reading"
            /\ timeout' = Remaining /\ silent' = 0 /\ count' = 0
            /\ UNCHANGED <<elapsed, tried, total, reply>>

Wanted == Least(Piece, MaxBody + 1 - total)

BodyByte ==
    /\ On("reading") /\ silent < timeout /\ count < Wanted
    /\ silent' = 0 /\ count' = count + 1
    /\ UNCHANGED <<stage, elapsed, timeout, tried, total, reply>>

\* A byte that the library takes and passes on to nobody: of the handshake, of the
\* headers, of a response 100 before them, of a trailer after the last chunk.  There
\* may be any number of them, and each lets the socket wait anew.
FeedLibrary ==
    /\ silent < timeout
    /\ On("headers") \/ (On("reading") /\ count < Wanted)
    /\ silent' = 0
    /\ UNCHANGED <<stage, elapsed, timeout, tried, count, total, reply>>

\* The piece is complete, or the server has closed: is it in time?
PieceAccepted ==                                      \* mutant
    /\ On("reading") /\ silent < timeout
    /\ stage' = IF count = 0 THEN "read" ELSE "body"
    /\ total' = total + count
    /\ UNCHANGED <<elapsed, timeout, silent, tried, count, reply>>
PieceEnds ==
    /\ On("reading") /\ silent < timeout
    /\ IF elapsed > Total THEN HttpFails
       ELSE /\ stage' = IF count = 0 THEN "read" ELSE "body"
            /\ total' = total + count
            /\ UNCHANGED <<elapsed, timeout, silent, tried, count, reply>>

BodyFull ==
    /\ On("body") /\ total > MaxBody
    /\ stage' = "read"
    /\ UNCHANGED <<elapsed, timeout, silent, tried, count, total, reply>>

\* socket.timeout.
SocketTimeout ==
    /\ stage \in {"headers", "reading"} /\ silent >= timeout
    /\ HttpFails

Reset == stage \in {"connecting", "headers", "reading"} /\ HttpFails

\* The result guard may withhold the body or a header.
Answer ==
    /\ On("read")
    /\ stage' = "done"
    /\ reply' \in {"ok", "HTTP_RESULT_SCRUBBED"}
    /\ UNCHANGED <<elapsed, timeout, silent, tried, count, total>>

HttpStep ==
    \/ NextAddress \/ BeginRead \/ BodyFull \/ SocketTimeout \/ Answer
    \/ On("reading") /\ count = Wanted /\ PieceEnds

Server == Connected \/ FeedLibrary \/ HeadersEnd \/ BodyByte \/ PieceEnds \/ Reset

HttpTick ==
    /\ stage \in {"connecting", "headers", "reading"} /\ silent < timeout
    /\ elapsed' = Least(elapsed + 1, Total + 1) /\ silent' = silent + 1
    /\ UNCHANGED <<stage, timeout, tried, count, total, reply>>

HttpInit ==
    /\ stage = "idle" /\ elapsed = 0 /\ timeout = 0 /\ silent = 0
    /\ tried = 0 /\ count = 0 /\ total = 0 /\ reply = "none"

-----------------------------------------------------------------------------

\* What was not read by the deadline is not a result, whatever part of it the
\* wait was for.
LateIsRefused == reply \in {"ok", "HTTP_RESULT_SCRUBBED"} => elapsed <= Total

=============================================================================
