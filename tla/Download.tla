-------------------------------- MODULE Download --------------------------------
(***************************************************************************)
(* A streamed download (net/github.ts), by the process itself or, behind a  *)
(* proxy, by curl.  Each request of a chain of redirects has a temporary    *)
(* file of its own beside the target; the last one is renamed over the      *)
(* target.  Authorization is sent until the first change of host.           *)
(***************************************************************************)
EXTENDS Naturals

CONSTANTS Host,         \* servers
          Sizes,        \* sizes of a body, in chunks
          MaxBytes,     \* the limit of a response, in chunks
          MaxRedirects  \* 5 in the code

VARIABLES mode,     \* "direct" or "curl"
          hop,      \* the request: its host, its number and whether it is authorized
          server,   \* the body that the server sends, and whether it declares its length
          phase,    \* "request", "waiting", "streaming", "downloaded", "done", "failed", "crashed"
          got,      \* chunks in the temporary file
          files,    \* temporary files, by the number of their request
          target,   \* whether the file is new, and the chunks in it
          tokens    \* hosts that were sent the token, history

vars == <<mode, hop, server, phase, got, files, target, tokens>>

Init ==
  /\ mode \in {"direct", "curl"}
  /\ hop \in [host : Host, count : {0}, auth : {TRUE}]
  /\ server \in [size : Sizes, declared : BOOLEAN]
  /\ phase = "request" /\ got = 0 /\ files = {} /\ target = [new |-> FALSE, chunks |-> 0] /\ tokens = {}

\* The finally blocks: of every request that is still open, here or in a caller.
Fail == phase' = "failed" /\ files' = {} /\ UNCHANGED <<got, target>>

NextAuth_ThisHop(host) == host = hop.host

\* Never carry Authorization across a host change.
NextAuth(host) == hop.auth /\ host = hop.host

-----------------------------------------------------------------------------
\* prepareStreamingTarget and the request.
Send ==
  /\ phase = "request"
  /\ IF hop.count > MaxRedirects
     THEN Fail /\ UNCHANGED tokens
     ELSE /\ files' = files \cup {hop.count} /\ got' = 0 /\ phase' = "waiting"
          /\ tokens' = IF hop.auth THEN tokens \cup {hop.host} ELSE tokens
          /\ UNCHANGED target
  /\ UNCHANGED <<mode, hop, server>>

\* A redirect: this request's temporary file goes, the next request starts.
Redirect(host) ==
  /\ phase = "waiting"
  /\ hop' = [host |-> host, count |-> hop.count + 1, auth |-> NextAuth(host)]
  /\ files' = files \ {hop.count}
  /\ phase' = "request"
  /\ UNCHANGED <<mode, server, got, target, tokens>>

\* A redirect to nowhere, another status than success, a timeout or a lost connection.
Refused ==
  /\ phase \in {"waiting", "streaming"}
  /\ Fail /\ UNCHANGED <<mode, hop, server, tokens>>

\* The response begins; a declared length over the limit is refused.  curl does as much.
Accepted ==
  /\ phase = "waiting"
  /\ IF server.declared /\ server.size > MaxBytes
     THEN Fail
     ELSE phase' = "streaming" /\ UNCHANGED <<got, files, target>>
  /\ UNCHANGED <<mode, hop, server, tokens>>

\* A chunk is written; the direct download counts them.
Chunk ==
  /\ phase = "streaming" /\ got < server.size
  /\ IF mode = "direct" /\ got + 1 > MaxBytes
     THEN Fail
     ELSE got' = got + 1 /\ UNCHANGED <<phase, files, target>>
  /\ UNCHANGED <<mode, hop, server, tokens>>

\* The body ends, or the connection does where nothing tells the difference.
End ==
  /\ phase = "streaming" /\ (got = server.size \/ ~server.declared)
  /\ phase' = "downloaded"
  /\ server' = [server EXCEPT !.size = got]
  /\ UNCHANGED <<mode, hop, got, files, target, tokens>>

TooLarge_Unchecked == FALSE

\* After curl the file itself is measured, since it stops only at a declared length.
TooLarge == mode = "curl" /\ got > MaxBytes

Finish ==
  /\ phase = "downloaded"
  /\ IF TooLarge THEN Fail
     ELSE target' = [new |-> TRUE, chunks |-> got] /\ files' = files \ {hop.count} /\ phase' = "done" /\ UNCHANGED got
  /\ UNCHANGED <<mode, hop, server, tokens>>

\* The process dies: its temporary file stays.
Crash ==
  /\ phase \notin {"done", "failed", "crashed"}
  /\ phase' = "crashed"
  /\ UNCHANGED <<mode, hop, server, got, files, target, tokens>>

Next ==
  \/ Send \/ Refused \/ Accepted \/ Chunk \/ End \/ Finish \/ Crash
  \/ \E host \in Host : Redirect(host)

Spec == Init /\ [][Next]_vars

-----------------------------------------------------------------------------
\* Along any chain of redirects the target is replaced by a whole body within the limit or not
\* at all, and nothing is left beside it unless the process died.
WholeOrNothing ==
  /\ target.new => phase = "done" /\ target.chunks = server.size /\ target.chunks <= MaxBytes
  /\ phase \in {"done", "failed"} => files = {}

\* The token reaches the first host and no other, also when the chain comes back to a host or
\* redirects within another (net/github.ts:174).
TokenStaysAtItsHost == \A h, g \in tokens : h = g
=================================================================================
