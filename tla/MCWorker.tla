------------------------------ MODULE MCWorker ------------------------------
(***************************************************************************)
(* Instances of Worker.  A request differs from another only in what its   *)
(* route looks at, so the sets below leave out the rest.                   *)
(***************************************************************************)
EXTENDS Worker

CONSTANTS c1, c2

Plain(path, method) == [path |-> path, method |-> method, header |-> "absent", body |-> "other",
                        params |-> "good", agent |-> TRUE]

\* The shipped configuration, and what it may lack: the item auth, or the ':' in
\* it, the domain, the storage.
Shipped == [auth |-> "pair", domain |-> TRUE, storage |-> TRUE]
AllSettings == {Shipped} \cup {[Shipped EXCEPT !.auth = a] : a \in {"unset", "undivided"}}
               \cup {[Shipped EXCEPT !.domain = FALSE], [Shipped EXCEPT !.storage = FALSE]}
OneSetting == {Shipped}

\* Every path, with every method, header, body and argument its route tells
\* apart from others.
GuardedRequests ==
    {[Plain(p, m) EXCEPT !.header = h, !.agent = a] :
        p \in GuardedBy.basic, m \in {"GET", "POST"}, h \in Headers, a \in BOOLEAN}
    \cup {[Plain(p, m) EXCEPT !.header = h, !.params = g] :
        p \in GuardedBy.jwt, m \in {"GET", "POST", "DELETE"}, h \in Headers, g \in {"good", "bad"}}
EndpointRequests ==
    {[Plain(p, m) EXCEPT !.body = b, !.params = g] :
        p \in Endpoints, m \in {"GET", "POST", "PUT"}, b \in Bodies, g \in {"good", "bad"}}
PlainRequests ==
    {[Plain(p, m) EXCEPT !.agent = a] :
        p \in Paths \ (GuardedBy.basic \cup GuardedBy.jwt \cup Endpoints),
        m \in {"GET", "POST"}, a \in BOOLEAN}
AllRequests == GuardedRequests \cup EndpointRequests \cup PlainRequests

\* A few requests that touch everything which outlives a request, and one that
\* ends the worker.
FewRequests ==
    {[Plain("/status", "GET") EXCEPT !.header = h] : h \in {"right", "near", "bare"}}
    \cup {Plain(p, "GET") : p \in {"/shutdown", "/endpoint/msg/socket", "/elsewhere"}}
=============================================================================
