---------------------------- MODULE HttpExecution ----------------------------
(***************************************************************************)
(* The HTTP executor (src/src/http_execution.rs), called with a URL that   *)
(* validate_http_destination has accepted.                                 *)
(*                                                                         *)
(* The name is resolved once, every address is vetted, and the client is   *)
(* pinned to them: reqwest (external) connects to one of the addresses it  *)
(* was given, sends the request once and follows no redirect.  Its timeout *)
(* limits each operation by itself: the wait for the response, and then    *)
(* every read of the body, so that a server which always sends a little in *)
(* time is listened to for as long as it likes.  Meanwhile the name server *)
(* may change its answer.  Request bodies are their lengths.  An address   *)
(* is the kind the standard library's predicates put it in, and for IPv4   *)
(* the two octets the code looks at itself.                                *)
(***************************************************************************)
EXTENDS BoundedReader

CONSTANTS
    Addresses,          \* the addresses DNS may give
    RequestLengths,     \* lengths of request bodies
    ResponseBodies,     \* [bytes, ends]: what the server may send
    MaxRequest,         \* max_request_body_bytes
    MaxResponse,        \* max_response_body_bytes
    Statuses            \* response statuses, redirects among them

(* A body that never ends is given by its first bytes, more of them than   *)
(* are kept: of what follows only that it comes makes a difference.        *)
ASSUME HttpAssumption ==
    /\ {MaxRequest, MaxResponse} \subseteq Nat
    /\ RequestLengths \subseteq Nat
    /\ \A body \in ResponseBodies :
          /\ body.bytes \in Seq(Bytes) /\ body.ends \in BOOLEAN
          /\ ~ body.ends => Len(body.bytes) > MaxResponse

VARIABLES
    method,     \* "Get" or "Post"
    request,    \* length of the request body, NoBody for none
    dns,        \* the addresses the name has now
    pinned,     \* the addresses the client is bound to
    contacted,  \* the addresses connections were attempted to
    delivered,  \* how often the request reached the server
    response    \* its status and its body

httpVars == <<method, request, dns, pinned, contacted, delivered, response>>

NoBody == -1
NoResponse == [status |-> 0, body |-> [bytes |-> <<>>, ends |-> TRUE]]

(* is_safe_outbound_ip.                                                    *)
IsSharedAddressSpace(a) == a.octets[1] = 100 /\ a.octets[2] \in 64..127
IsBenchmarking(a) == a.octets[1] = 198 /\ a.octets[2] \in {18, 19}

IsSafeOutboundIp(a) ==
    IF a.family = "V4"
    THEN /\ a.range \notin {"loopback", "private", "linkLocal", "unspecified",
                            "broadcast", "multicast"}
         /\ ~ IsSharedAddressSpace(a)
         /\ ~ IsBenchmarking(a)
    ELSE a.range \notin {"loopback", "unspecified", "uniqueLocal", "linkLocal",
                         "multicast"}

HttpInit ==
    /\ method = "Get" /\ request = NoBody /\ dns = {} /\ pinned = {}
    /\ contacted = {} /\ delivered = 0 /\ response = NoResponse

HttpCalled ==
    /\ method \in {"Get", "Post"} /\ request \in RequestLengths \cup {NoBody}
    /\ dns \in SUBSET Addresses /\ pinned = {}
    /\ contacted = {} /\ delivered = 0 /\ response = NoResponse

(* validate_request_body: no body counts as one of length 0.               *)
BodyLength == IF request = NoBody THEN 0 ELSE request
RequestBodyFits == BodyLength <= MaxRequest

(* execute: the checks before anything is resolved.                        *)
CheckRequest ==
    /\ pc = "start"
    /\ \/ ~ RequestBodyFits /\ Return(Err("request body too large"))
       \/ /\ RequestBodyFits /\ method = "Get" /\ request # NoBody
          /\ Return(Err("GET with a body"))
       \/ /\ RequestBodyFits /\ ~ (method = "Get" /\ request # NoBody)
          /\ Goto("resolve")
    /\ UNCHANGED <<httpVars, readerVars>>

(* resolve_safe_outbound_addresses: one address that is not safe refuses   *)
(* the whole name.                                                         *)
ResolvesSafely == dns # {} /\ \A a \in dns : IsSafeOutboundIp(a)

(* Mutant: the addresses are vetted, and the client resolves the name      *)
(* again when it connects.                                                 *)
ResolveAgainWhenConnecting ==
    /\ pc = "resolve"
    /\ ResolvesSafely
    /\ pinned' = Addresses
    /\ Goto("connect")
    /\ UNCHANGED <<method, request, dns, contacted, delivered, response,
                   readerVars>>

(* The name is resolved and vetted, the client bound to what it resolved   *)
(* to.                                                                     *)
BuildClientForDestination ==
    /\ pc = "resolve"
    /\ \/ /\ ResolvesSafely
          /\ pinned' = dns
          /\ Goto("connect")
       \/ /\ ~ ResolvesSafely
          /\ Return(Err("unusable destination"))
          /\ UNCHANGED pinned
       \/ Return(Err("resolver or client")) /\ UNCHANGED pinned
    /\ UNCHANGED <<method, request, dns, contacted, delivered, response,
                   readerVars>>

(* The owner of the name gives it other addresses.                         *)
ChangeName ==
    /\ ~ Answered
    /\ dns' \in SUBSET Addresses \ {dns}
    /\ UNCHANGED <<callState, method, request, pinned, contacted, delivered,
                   response, readerVars>>

(* send: one address after the other is tried until one accepts; the       *)
(* request may be delivered although no response comes back.               *)
Connect ==
    /\ pc = "connect"
    /\ \E a \in pinned \ contacted :
        /\ contacted' = contacted \cup {a}
        /\ \/ Goto("send")
           \/ IF pinned \subseteq contacted' THEN Return(Err("connect"))
              ELSE Goto("connect")
    /\ UNCHANGED <<method, request, dns, pinned, delivered, response,
                   readerVars>>

Send ==
    /\ pc = "send"
    /\ \/ /\ delivered' = delivered + 1
          /\ \/ /\ \E s \in Statuses, b \in ResponseBodies :
                        response' = [status |-> s, body |-> b]
                /\ Goto("body")
             \/ UNCHANGED response /\ Return(Err("no response"))
       \/ UNCHANGED <<delivered, response>> /\ Return(Err("not sent"))
    /\ UNCHANGED <<method, request, dns, pinned, contacted, readerVars>>

(* read_response_body: the body is read until it ends; any read may fail,  *)
(* or last longer than the timeout.                                        *)
ReadResponseBody ==
    /\ pc = "body"
    /\ \/ ReadSome(response.body.bytes, MaxResponse) /\ Goto("body")
       \/ /\ AllRead(response.body.bytes) /\ response.body.ends
          /\ Return(Ok([status_code |-> response.status, body |-> Output]))
          /\ UNCHANGED readerVars
       \/ Return(Err("body")) /\ UNCHANGED readerVars
    /\ UNCHANGED httpVars

(* The server of a body without an end goes on: what is beyond the maximum *)
(* comes round again.                                                      *)
SendMore ==
    /\ pc = "body"
    /\ ~ response.body.ends /\ AllRead(response.body.bytes)
    /\ received' = MaxResponse
    /\ UNCHANGED <<callState, httpVars, captured, truncated>>

ExecuteHttp ==
    \/ CheckRequest \/ BuildClientForDestination \/ Connect \/ Send
    \/ ReadResponseBody
HttpNext == ExecuteHttp \/ ChangeName \/ SendMore
HttpFairness == WF_<<callState, httpVars, readerVars>>(kind = "http" /\ ExecuteHttp)

-----------------------------------------------------------------------------
(* Whatever the name resolves to later, connections go only to addresses   *)
(* that were looked at, and none is made when one of them was not safe;    *)
(* the request is delivered at most once, and an Ok means it was.  An Err  *)
(* may come after a delivery: the server has acted, the gateway reports    *)
(* Failed (http_execution.rs:184, 190).                                    *)
ContactsVettedAddress ==
    kind = "http" =>
        /\ contacted \subseteq pinned
        /\ \A a \in contacted : IsSafeOutboundIp(a)
        /\ delivered <= 1
        /\ delivered = 1 => contacted # {} /\ RequestBodyFits
        /\ answer.is = "Ok" => delivered = 1

(* The body in the answer is what the server sent, cut at the maximum,     *)
(* over reads of any size.                                                 *)
ResponseIsBounded ==
    kind = "http" /\ answer.is = "Ok" =>
        IsOutputOf(answer.value.body, response.body.bytes, MaxResponse)

(* A body that does not end is being read past the maximum.                *)
Draining == kind = "http" /\ pc = "body" /\ ~ response.body.ends /\ truncated
=============================================================================
