------------------------------- MODULE Request -------------------------------
(***************************************************************************)
(* What one request is and what is made of it: RequestImpl::hash, the      *)
(* options that HandleInfo sets on the libcurl handle, the parsing of a    *)
(* response header and the conversion of libcurl's result                  *)
(* (source/net/request_impl.cpp, request_task_impl.cpp, curl_client.cpp).  *)
(*                                                                         *)
(* A request is a record of url, method, headers (a function on the names  *)
(* present) and body, the buffer data_ points to.  Buffers are numbered as *)
(* they are allocated and each has contents of its own.                    *)
(***************************************************************************)
EXTENDS Naturals, Sequences

CONSTANTS
    Names, Values,  \* names and values of headers
    Tokens          \* the names that a value lists, split at commas

NoBody == 0

\* A table of headers with one entry set, as map::operator[] does.
With(headers, n, v) ==
    [m \in DOMAIN headers \cup {n} |-> IF m = n THEN v ELSE headers[m]]

\* hash(): the url, the headers that Vary does not list and the data, one after
\* the other.  The method is no part of it.  (The concatenation has no
\* separators, so it tells even fewer requests apart than this tuple does.)
Excluded(headers) ==
    IF "Vary" \in DOMAIN headers THEN Tokens[headers["Vary"]] ELSE {}

Hash(request) ==
    <<request.url,
      [n \in DOMAIN request.headers \ Excluded(request.headers) |->
          request.headers[n]],
      request.body>>

\* ConstructCurlHandle: what is set for each method ...
MethodOptions(method) ==
    CASE method = "GET"  -> {"HTTPGET"}
      [] method = "PUT"  -> {"PUT"}
      [] method = "POST" -> {"POST"}
      [] method = "HEAD" -> {"HTTPGET", "NOBODY"}
      [] OTHER           -> {"CUSTOMREQUEST"}

\* ... the headers, of which Range becomes an option of its own ...
ConstructHeaders(headers) ==
    [range |-> [n \in DOMAIN headers \cap {"Range"} |-> headers[n]],
     list  |-> [n \in DOMAIN headers \ {"Range"} |-> headers[n]]]

\* ... the copied url and hash, and the address of the data, which is not copied.
Handle(request) ==
    [url |-> request.url, options |-> MethodOptions(request.method),
     headers |-> ConstructHeaders(request.headers),
     body |-> request.body, request_hash |-> Hash(request)]

\* The hash of what the handle sends.
SentHash(handle) ==
    LET list  == handle.headers.list
        range == handle.headers.range
    IN  Hash([url |-> handle.url, body |-> handle.body,
              headers |-> [n \in DOMAIN list \cup DOMAIN range |->
                              IF n \in DOMAIN list THEN list[n] ELSE range[n]]])

\* OnReceiveHeader: a line without a colon has no key; what follows the colon
\* loses its first character, the blank after it or not.
OnReceiveHeader(headers, line) ==
    IF line.key = "" THEN headers
    ELSE With(headers, line.key, SubSeq(line.rest, 2, Len(line.rest)))

ConvertCurlCode(code) ==
    CASE code = "OK"                 -> "OK"
      [] code = "COULDNT_CONNECT"    -> "ConnectToServerFailed"
      [] code = "OPERATION_TIMEDOUT" -> "Timeout"
      [] OTHER                       -> "UnknownError"
=============================================================================
