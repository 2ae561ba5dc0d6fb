---------------------------- MODULE HTTPRequest -----------------------------
(***************************************************************************)
(* One request on its way through the proxy: routing (router.go), TLS and  *)
(* the pause gate (service.go), the request and response buffers, the      *)
(* reverse proxy's use of the response writer (target.go) and the error    *)
(* pages, while services are deployed and removed.                         *)
(*                                                                         *)
(* What the pause gate and the load balancer decide is open here: it is    *)
(* the subject of PauseController and LoadBalancer.  The bytes of a body   *)
(* are numbered, so that a body received whole is <<1, 2, ..., n>>.        *)
(***************************************************************************)
EXTENDS ServiceMap, Buffer

CONSTANTS
  Requests,   \* the requests that may arrive
  Setups,     \* the options of targets and services that matter below
  Statuses,   \* the statuses of responses
  Chunks,     \* bound: the sizes of the pieces bodies come in
  MaxBody,    \* bound: the size of a body
  MaxBytes,   \* MaxRequestBodySize and MaxResponseBodySize; 0 for no limit
  MaxMem      \* MaxMemoryBufferSize

NoPath == [path |-> <<>>, body |-> <<>>]

ASSUME RequestConstants ==
  /\ \A q \in Requests : q.host \in RequestHosts /\ q.path \in Paths
  /\ Setups \subseteq [bufferRequests : BOOLEAN, bufferResponses : BOOLEAN, strip : BOOLEAN,
                      custom : BOOLEAN, pages : SUBSET Nat]
  /\ Statuses \subseteq 200..599
  /\ Chunks \subseteq Nat \ {0}
  /\ MaxBody \in Nat /\ MaxBytes \in Nat /\ MaxMem \in Nat

VARIABLES
  stage,           \* how far the request is
  request,         \* its host, path, whether it came over TLS, and is a health check
  setup,           \* bufferRequests, bufferResponses, strip, and the custom error pages
  matched,         \* the service and prefix found, its TLS settings, whether it is in the map
  failure,         \* errorResponse.StatusCode
  received,        \* how much of the request's body has been read
  requestBuffer,
  forwarded,       \* the path and body the target is sent
  upstream,        \* what the target has sent: informational, status, stream and size
  writer,          \* bufferedResponseWriter
  responseBuffer,
  client,          \* what the client has been sent, and the state of its connection
  raised,          \* history: the status of the last SetErrorResponse
  mishap           \* history: whether sending a page or a spill file failed midway

routingVars == <<request, setup, matched>>
bodyVars == <<received, requestBuffer, forwarded>>
answerVars == <<upstream, writer, responseBuffer>>
errorVars == <<failure, raised>>
requestVars == <<stage, routingVars, bodyVars, answerVars, errorVars, client, mishap>>
vars == <<mapVars, requestVars>>

NoUpstream == [informational |-> FALSE, status |-> 0, stream |-> FALSE, size |-> 0]
NewWriter == [status |-> 200, headerWritten |-> FALSE, bypass |-> FALSE, hijacked |-> FALSE]
NewClient == [status |-> 0, body |-> <<>>, pages |-> 0, conn |-> "open"]
NotMatched == [service |-> None, prefix |-> Root, tls |-> DefaultTLS, live |-> FALSE]

Bytes(from, n) == [i \in 1..n |-> from + i]
NoSetup == [bufferRequests |-> FALSE, bufferResponses |-> FALSE, strip |-> FALSE, custom |-> FALSE, pages |-> {}]
NoRequest == [host |-> AnyHost, path |-> Root, secure |-> FALSE, probe |-> FALSE]

Init ==
  /\ MapInit
  /\ stage = "idle"
  /\ request = NoRequest
  /\ setup = NoSetup
  /\ matched = NotMatched
  /\ failure = 0 /\ raised = 0
  /\ received = 0
  /\ requestBuffer = EmptyBuffer /\ responseBuffer = EmptyBuffer
  /\ forwarded = NoPath
  /\ upstream = NoUpstream
  /\ writer = NewWriter
  /\ client = NewClient
  /\ mishap = FALSE

-----------------------------------------------------------------------------
\* The response writer of net/http: informational statuses do not count, the
\* first other one does, and a body without one has 200.
RawWriteHeader(c, s) == IF s < 200 \/ c.status # 0 THEN c ELSE [c EXCEPT !.status = s]

RawWrite(c, bytes) ==
  IF bytes = <<>> THEN c ELSE [RawWriteHeader(c, 200) EXCEPT !.body = @ \o bytes]

\* An error body, by http.Error or by a template.
RawPage(c, s) == [RawWriteHeader(c, s) EXCEPT !.pages = @ + 1]

SetErrorResponse(s) == failure' = s /\ raised' = s

\* bufferedResponseWriter.Send, up to the body.
SendHeader(w, c) == IF w.headerWritten THEN RawWriteHeader(c, w.status) ELSE c

\* Mutant: a response that did not fit is sent as far as it did.
Send_Cut(w, b, c) ==
  IF w.hijacked THEN c ELSE RawWrite(SendHeader(w, c), Contents(b))

\* bufferedResponseWriter.Send, and the error ResponseBufferMiddleware makes of a
\* response that did not fit.
Send(w, b, c) ==
  IF b.overflowed THEN RawPage(c, 500)
  ELSE IF w.hijacked THEN c
  ELSE RawWrite(SendHeader(w, c), Contents(b))

\* Mutant: event streams are buffered like other responses.
ShouldSwitchToUnbuffered_Never(stream) == FALSE

ShouldSwitchToUnbuffered(stream) == stream

\* WriteHeader of whatever response writer the reverse proxy has.
WriteHeader(s, stream) ==
  IF ~setup.bufferResponses
  THEN client' = RawWriteHeader(client, s) /\ UNCHANGED writer
  ELSE IF writer.headerWritten THEN UNCHANGED <<client, writer>>
  ELSE /\ writer' = [writer EXCEPT !.status = s, !.headerWritten = TRUE,
                                   !.bypass = ShouldSwitchToUnbuffered(stream)]
       /\ client' = IF writer'.bypass THEN Send(writer', responseBuffer, client) ELSE client

\* Target.rewrite: the prefix that matched is taken off, if the service wants that.
rewrite(path) ==
  IF setup.strip /\ matched.prefix # Root
  THEN SubSeq(path, Len(matched.prefix) + 1, Len(path)) ELSE path

\* What ends a request without a response: the connection is closed.
Abort ==
  /\ stage' = "done"
  /\ client' = [client EXCEPT !.conn = "aborted"]

-----------------------------------------------------------------------------
\* A deployment or a removal.  The request keeps the service it found; the
\* settings of a service that is still in the map change under it.  Later
\* stages look at nothing in the map.
ChangeMap ==
  /\ stage \in {"idle", "serving"}
  /\ MapNext
  /\ matched' =
       IF stage = "serving" /\ matched.live
       THEN IF options'[matched.service] = None THEN [matched EXCEPT !.live = FALSE]
            ELSE [matched EXCEPT !.tls = options'[matched.service].tls]
       ELSE matched
  /\ UNCHANGED <<stage, request, setup, bodyVars, answerVars, errorVars, client, mishap>>

\* Router.ServeHTTP, which looks the service up under the read lock.
Arrive(q) ==
  LET found == serviceFor(bindings, q.host, q.path) IN
  /\ stage = "idle"
  /\ request' = q
  /\ IF found.service = None
     THEN SetErrorResponse(404) /\ stage' = "rootpages" /\ UNCHANGED matched
     ELSE /\ matched' = [service |-> found.service, prefix |-> found.prefix,
                         tls |-> options[found.service].tls, live |-> TRUE]
          /\ stage' = "serving"
          /\ UNCHANGED errorVars
  /\ UNCHANGED <<mapVars, setup, bodyVars, answerVars, client, mishap>>

shouldRedirectToHTTPS == matched.tls.enabled /\ matched.tls.redirect /\ ~request.secure

\* serviceRequestWithTarget, as far as it is about TLS.  The other options of the
\* service are any there may be.
ServiceRequest ==
  /\ stage = "serving"
  /\ setup' \in Setups
  /\ IF shouldRedirectToHTTPS
     THEN stage' = "pages" /\ client' = RawWriteHeader(client, 301) /\ UNCHANGED errorVars
     ELSE IF ~matched.tls.enabled /\ request.secure
     THEN stage' = "pages" /\ SetErrorResponse(503) /\ UNCHANGED client
     ELSE stage' = "gate" /\ UNCHANGED <<errorVars, client>>
  /\ UNCHANGED <<mapVars, request, matched, bodyVars, answerVars, mishap>>

\* handlePausedAndStoppedRequests: a health check is answered while the service is
\* paused or stopped, another request passes, is refused or waits too long.
AnswerHealthCheck ==
  /\ stage = "gate" /\ request.probe
  /\ stage' = "pages"
  /\ client' = RawWriteHeader(client, 200)
  /\ UNCHANGED <<mapVars, routingVars, bodyVars, answerVars, errorVars, mishap>>

PauseRefuses ==
  /\ stage = "gate"
  /\ \E s \in {503, 504} : SetErrorResponse(s)
  /\ stage' = "pages"
  /\ UNCHANGED <<mapVars, routingVars, bodyVars, answerVars, client, mishap>>

PauseLetsPass ==
  /\ stage = "gate"
  /\ stage' = "claiming"
  /\ UNCHANGED <<mapVars, routingVars, bodyVars, answerVars, errorVars, client, mishap>>

\* LoadBalancer.StartRequest
ClaimFails ==
  /\ stage = "claiming"
  /\ SetErrorResponse(503)
  /\ stage' = "pages"
  /\ UNCHANGED <<mapVars, routingVars, bodyVars, answerVars, client, mishap>>

ClaimTarget ==
  /\ stage = "claiming"
  /\ stage' = IF setup.bufferRequests THEN "body" ELSE "proxying"
  /\ forwarded' = IF setup.bufferRequests THEN NoPath ELSE [path |-> rewrite(request.path), body |-> <<>>]
  /\ UNCHANGED <<mapVars, routingVars, received, requestBuffer, answerVars, errorVars, client, mishap>>

-----------------------------------------------------------------------------
\* RequestBufferMiddleware reads the whole body before the target sees any of it.
\* The error responses are http.Error's, not the error pages'.
Refuse(b, s) ==
  /\ requestBuffer' = Close(b)
  /\ client' = RawPage(client, s)
  /\ stage' = "pages"

\* Mutant: what was read before the body turned out too large is forwarded.
TooLarge_Forwards(b) ==
  /\ requestBuffer' = b
  /\ forwarded' = [path |-> rewrite(request.path), body |-> Contents(b)]
  /\ stage' = "proxying"
  /\ UNCHANGED client

TooLarge(b) == Refuse(b, 413) /\ UNCHANGED forwarded

ReadBody(n) ==
  /\ stage = "body" /\ received + n <= MaxBody
  /\ received' = received + n
  /\ \E out \in Write(requestBuffer, Bytes(received, n), MaxBytes, MaxMem) :
       CASE out.error = "none" -> requestBuffer' = out.buffer /\ UNCHANGED <<stage, client, forwarded>>
         [] out.error = "toolarge" -> TooLarge(out.buffer)
         [] out.error = "disk" -> Refuse(out.buffer, 500) /\ UNCHANGED forwarded
  /\ UNCHANGED <<mapVars, routingVars, answerVars, errorVars, mishap>>

\* The client goes away in the middle of its body.
BodyBroken ==
  /\ stage = "body"
  /\ Refuse(requestBuffer, 500)
  /\ UNCHANGED <<mapVars, routingVars, received, forwarded, answerVars, errorVars, mishap>>

BodyEnd ==
  /\ stage = "body"
  /\ stage' = "proxying"
  /\ forwarded' = [path |-> rewrite(request.path), body |-> Contents(requestBuffer)]
  /\ UNCHANGED <<mapVars, routingVars, received, requestBuffer, answerVars, errorVars, client, mishap>>

-----------------------------------------------------------------------------
\* httputil.ReverseProxy, which closes the request's body when it returns.
CloseBody == requestBuffer' = Close(requestBuffer) /\ UNCHANGED <<received, forwarded>>

ProxyReturns == stage' = (IF setup.bufferResponses THEN "sending" ELSE "pages") /\ CloseBody

\* handleProxyError
ErrorStatus(kind) ==
  CASE kind = "toolarge" -> 413 [] kind = "timeout" -> 504
    [] kind = "draining" -> 504 [] kind = "other" -> 502

\* No round trip fails as too large: the program reads no body through an
\* http.MaxBytesReader, whose error that is, and ReadBody answers one that is too large.
RoundTripFails ==
  /\ stage = "proxying"
  /\ \/ /\ \E kind \in {"timeout", "draining", "other"} : SetErrorResponse(ErrorStatus(kind))
        /\ UNCHANGED <<client, writer>>
     \/ WriteHeader(499, FALSE) /\ UNCHANGED errorVars   \* the client has gone
  /\ ProxyReturns
  /\ UNCHANGED <<mapVars, routingVars, upstream, responseBuffer, mishap>>

\* An informational response, such as 103 Early Hints.
Informational ==
  /\ stage = "proxying" /\ ~upstream.informational
  /\ upstream' = [upstream EXCEPT !.informational = TRUE]
  /\ WriteHeader(103, FALSE)
  /\ UNCHANGED <<mapVars, stage, routingVars, bodyVars, responseBuffer, errorVars, mishap>>

ResponseHeader(s, stream) ==
  /\ stage = "proxying"
  /\ stage' = "copying"
  /\ upstream' = [upstream EXCEPT !.status = s, !.stream = stream]
  /\ WriteHeader(s, stream)
  /\ UNCHANGED <<mapVars, routingVars, bodyVars, responseBuffer, errorVars, mishap>>

\* bufferedResponseWriter.Write hides that a response does not fit; any other
\* error makes the reverse proxy panic.
ResponseChunk(n) ==
  /\ stage = "copying" /\ upstream.size + n <= MaxBody
  /\ upstream' = [upstream EXCEPT !.size = @ + n]
  /\ IF ~setup.bufferResponses \/ writer.bypass
     THEN /\ client' = RawWrite(client, Bytes(upstream.size, n))
          /\ UNCHANGED <<stage, bodyVars, responseBuffer>>
     ELSE \E out \in Write(responseBuffer, Bytes(upstream.size, n), MaxBytes, MaxMem) :
            IF out.error = "disk"
            THEN responseBuffer' = Close(out.buffer) /\ Abort /\ CloseBody
            ELSE responseBuffer' = out.buffer /\ UNCHANGED <<stage, client, bodyVars>>
  /\ UNCHANGED <<mapVars, routingVars, writer, errorVars, mishap>>

ResponseEnd ==
  /\ stage = "copying"
  /\ ProxyReturns
  /\ UNCHANGED <<mapVars, routingVars, answerVars, errorVars, client, mishap>>

\* The target breaks off, or the client cannot be written to: the proxy panics,
\* and the deferred Close is all that runs.
ResponseBroken ==
  /\ stage = "copying"
  /\ Abort /\ CloseBody
  /\ responseBuffer' = Close(responseBuffer)
  /\ UNCHANGED <<mapVars, routingVars, upstream, writer, errorVars, mishap>>

\* 101 Switching Protocols: the connection is hijacked, and used until it ends.
Upgrade ==
  /\ stage = "proxying"
  /\ client' = [client EXCEPT !.conn = "hijacked"]
  /\ writer' = [writer EXCEPT !.hijacked = setup.bufferResponses]
  /\ ProxyReturns
  /\ UNCHANGED <<mapVars, routingVars, upstream, responseBuffer, errorVars, mishap>>

-----------------------------------------------------------------------------
\* ResponseBufferMiddleware.ServeHTTP after the proxy: Send, and the deferred Close.
SendResponse ==
  /\ stage = "sending"
  /\ stage' = "pages"
  /\ client' = Send(writer, responseBuffer, client)
  /\ responseBuffer' = Close(responseBuffer)
  /\ UNCHANGED <<mapVars, routingVars, bodyVars, upstream, writer, errorVars, mishap>>

\* The spill file cannot be read to its end: http.Error comes on top of the part.
SendBreaks ==
  /\ stage = "sending" /\ responseBuffer.created /\ ~responseBuffer.overflowed
  /\ stage' = "pages"
  /\ \E n \in 0..(Len(responseBuffer.disk) - 1) :
       client' = RawPage(RawWrite(SendHeader(writer, client),
                                  responseBuffer.memory \o SubSeq(responseBuffer.disk, 1, n)), 500)
  /\ responseBuffer' = Close(responseBuffer)
  /\ mishap' = TRUE
  /\ UNCHANGED <<mapVars, routingVars, bodyVars, upstream, writer, errorVars>>

\* Mutant: the middleware of a service takes every error as handled.
Handled_Always(status, broke) == TRUE

\* respondWithErrorPage of a service's own pages: whether the error is dealt with.
Handled(status, broke) == status \in setup.pages /\ ~broke

\* ErrorPageMiddleware of the service, if it has pages of its own.  It writes the
\* status even when it leaves the page to the root.
ServicePages ==
  /\ stage = "pages"
  /\ stage' = "rootpages"
  /\ IF ~setup.custom \/ failure = 0
     THEN UNCHANGED <<client, failure, mishap>>
     ELSE \E broke \in (IF failure \in setup.pages THEN BOOLEAN ELSE {FALSE}) :
            /\ client' = IF failure \in setup.pages THEN RawPage(client, failure)
                         ELSE RawWriteHeader(client, failure)
            /\ failure' = IF Handled(failure, broke) THEN 0 ELSE failure
            /\ mishap' = (mishap \/ broke)
  /\ UNCHANGED <<mapVars, routingVars, bodyVars, answerVars, raised>>

\* ErrorPageMiddleware of the root, which has a page for everything, and the end
\* of the handler: net/http makes it 200 if there is no status yet.
RootPages ==
  /\ stage = "rootpages"
  /\ stage' = "done"
  /\ failure' = 0
  /\ client' = IF failure # 0 THEN RawPage(client, failure)
               ELSE IF client.conn = "open" THEN RawWriteHeader(client, 200) ELSE client
  /\ UNCHANGED <<mapVars, routingVars, bodyVars, answerVars, raised, mishap>>

RequestStep ==
  \/ \E q \in Requests : Arrive(q)
  \/ ServiceRequest
  \/ AnswerHealthCheck \/ PauseRefuses \/ PauseLetsPass
  \/ ClaimFails \/ ClaimTarget
  \/ \E n \in Chunks : ReadBody(n) \/ ResponseChunk(n)
  \/ BodyBroken \/ BodyEnd
  \/ RoundTripFails \/ Informational \/ Upgrade
  \/ \E s \in Statuses, stream \in BOOLEAN : ResponseHeader(s, stream)
  \/ ResponseEnd \/ ResponseBroken \/ SendResponse \/ SendBreaks
  \/ ServicePages \/ RootPages

Next == ChangeMap \/ RequestStep

Spec == Init /\ [][Next]_vars

-----------------------------------------------------------------------------
\* Properties.

BufferOK(b) == Bounded(b, MaxBytes, MaxMem)

\* A body takes no more memory than MaxMemoryBufferSize and no more of memory and
\* disk together than its limit, in whatever pieces it comes: Buffer.Write (buffer.go)
\* counts before it writes.
BuffersBounded == BufferOK(requestBuffer) /\ BufferOK(responseBuffer)

\* Every spill file is removed by the time the request is over, whether it was
\* refused, forwarded, cut off or panicked.
NoSpillFileLeft == stage = "done" => ~SpillFileLeft(requestBuffer) /\ ~SpillFileLeft(responseBuffer)

\* With RequestBufferMiddleware the target sees a request only when its body is
\* there to the last byte, in order, and within the limit.
ForwardedWhole ==
  setup.bufferRequests /\ stage \in {"proxying", "copying", "sending"} =>
    /\ forwarded.body = Bytes(0, received)
    /\ MaxBytes > 0 => received <= MaxBytes

\* With ResponseBufferMiddleware (response_buffer_middleware.go) the client gets the
\* response as the target sent it, status and every byte, or not one byte of it
\* but an error or a closed connection, however the response came, overflowed or
\* failed.  Exceptions: event streams, which are passed on as they come; a spill
\* file that cannot be read back; and the status of a response that came after an
\* informational one.
WholeOrNothing ==
  setup.bufferResponses /\ stage = "done" /\ upstream.status # 0 /\ ~upstream.stream /\ ~mishap =>
    \/ /\ client.body = Bytes(0, upstream.size) /\ client.pages = 0
       /\ upstream.informational \/ client.status = upstream.status
    \/ /\ client.body = <<>>
       /\ client.conn = "aborted" \/ (client.status = 500 /\ client.pages = 1)

\* The bytes of an event stream are at the client as soon as the target has sent
\* them, even with response buffering, with one exception: when an informational
\* response came first, bufferedResponseWriter.WriteHeader has decided by that one's
\* header (response_buffer_middleware.go:75), and the stream is held back to its
\* last byte.  No stream reaches the client in part, some bytes sent and later ones
\* kept.
StreamsPassOn ==
  stage = "copying" /\ upstream.stream =>
    \/ client.body = Bytes(0, upstream.size)
    \/ setup.bufferResponses /\ upstream.informational /\ client.body = <<>>

\* An error set by SetErrorResponse (error_page_middleware.go) anywhere below reaches the
\* client: its status, and one page, whichever of the two middlewares has one.  There
\* are two pages when the first middleware's template broke off midway, for the
\* second then writes its own behind it.
ErrorsReachClient ==
  stage = "done" /\ raised # 0 =>
    /\ client.status = raised /\ client.body = <<>>
    /\ client.pages = 1 \/ (mishap /\ client.pages = 2)
=============================================================================
