---------------------------- MODULE MCOperations ----------------------------
(* Instances of Operations for TLC. *)
EXTENDS Operations, TLC

CONSTANTS manifest, lib, test, c1, c2

MCRootFiles == {manifest}
MCSrcFiles == {lib}
MCTestFiles == {test}
MCContents == {c1, c2}
(* Of the two contents of a file it makes no difference which was first.   *)
MCTrees == [Files -> {c1, Absent}]

V4(range, first, second) ==
    [family |-> "V4", range |-> range, octets |-> <<first, second>>]
V6(range) == [family |-> "V6", range |-> range]

(* A public address, the first above the shared space, one inside it, a    *)
(* loopback one, a public and a unique-local one of IPv6.                  *)
MCAddresses == {V4("global", 100, 128), V4("global", 100, 127),
                V6("global"), V6("uniqueLocal")}

(* Streams below the limit of 2 (one of them no UTF-8), at it, above it,   *)
(* cut between and within characters.                                      *)
Ending == {<<>>, <<"trail">>, <<"lead", "trail">>, <<"trail", "lead">>,
           <<"ascii", "lead", "trail">>, <<"lead", "trail", "ascii", "ascii", "ascii">>}
MCResponseBodies ==
    {[bytes |-> b, ends |-> TRUE] : b \in Ending}
    \cup {[bytes |-> <<"ascii", "ascii", "ascii">>, ends |-> FALSE]}
MCOutputs == {<<"lead", "trail">>, <<"ascii", "lead", "trail">>}

(* An entry changed in both columns, in one, and ones with flags of which  *)
(* the status says nothing.                                                *)
MCEntryFlags ==
    {{<<"INDEX", "New">>, <<"WT", "Modified">>}, {<<"WT", "Deleted">>},
     {<<"ENTRY", "Ignored">>}, {<<"ENTRY", "Conflicted">>, <<"WT", "Modified">>}}

Sized(size, utf8) == [size |-> size, utf8 |-> utf8, from |-> "workspace"]

(* A file below the limit of 2, at it, above it, and one that is not text. *)
MCTexts == {Sized(1, TRUE), Sized(2, TRUE), Sized(3, TRUE), Sized(1, FALSE)}
MCOutsideText == [size |-> 1, utf8 |-> TRUE, from |-> "outside"]

(* Files: nothing, not well-formed, one limit at a bound, one policy word, *)
(* up to two hosts.                                                        *)
MCMaximum == [l \in Limits |-> 2]
None == [x \in {} |-> x]
Hosts(list) ==
    [wellFormed |-> TRUE, givesHosts |-> TRUE, hosts |-> list,
     limits |-> None, policy |-> None]
Empty == [Hosts(<<>>) EXCEPT !.givesHosts = FALSE]
Host(name, is, spelt) == [name |-> name, is |-> is, written |-> spelt]
HostEntries ==
    {Host("api.example.com", "domain", "case"), Host("api.example.com", "domain", "padded"),
     Host("other.org", "domain", "plain"), Host("localhost", "domain", "plain"),
     Host("127.0.0.1", "ip", "plain"), Host("https://", "malformed", "plain"),
     Host("", "empty", "padded")}
MCConfigFiles ==
    {Empty, [Empty EXCEPT !.wellFormed = FALSE], Hosts(<<>>)}
    \cup {[Empty EXCEPT !.limits = (l :> n)] : l \in Limits, n \in 0..3}
    \cup {[Empty EXCEPT !.policy = (c :> [word |-> w, written |-> "case"])] :
            c \in Capabilities, w \in Verdicts \cup {"ask"}}
    \cup {Hosts(<<h>>) : h \in HostEntries}
    \cup {Hosts(<<h, i>>) : h \in HostEntries, i \in HostEntries}

(* Requests: each operation, complete and with something missing, out of   *)
(* scope, with a purpose around its limit; URLs that fail each check.      *)
Url(name, is) ==
    [parses |-> TRUE, scheme |-> "https", credentials |-> FALSE, port |-> "none",
     host |-> Host(name, is, "plain")]
Api == Url("api.example.com", "domain")
MCUrls ==
    {Api, Url("other.org", "domain"), Url("localhost", "domain"), Url("127.0.0.1", "ip"),
     [Api EXCEPT !.scheme = "http"], [Api EXCEPT !.credentials = TRUE],
     [Api EXCEPT !.port = "443"], [Api EXCEPT !.port = "8443"],
     [Api EXCEPT !.parses = FALSE]}
Complete(c) ==
    [operation |-> c, given |-> Needed[c], blank |-> {}, url |-> Api,
     outside |-> FALSE, purpose |-> 1]
MCRequests ==
    {Complete(c) : c \in Capabilities}
    \cup {[Complete(c) EXCEPT !.given = {}] : c \in Capabilities}
    \cup {[Complete(c) EXCEPT !.outside = TRUE, !.purpose = n] :
            c \in {"read_file", "write_file"}, n \in {0, 2, 3}}
    \cup {[Complete("read_file") EXCEPT !.blank = {"path"}],
          [Complete("http_get") EXCEPT !.given = Arguments],
          [Complete("add") EXCEPT !.operation = "other"]}
    \cup {[Complete(c) EXCEPT !.url = url] : c \in {"http_get", "http_post"}, url \in MCUrls}
=============================================================================
