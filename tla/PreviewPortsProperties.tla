----------------------- MODULE PreviewPortsProperties -----------------------
(***************************************************************************)
(* What the manager and the gateway promise about previews.                *)
(***************************************************************************)
EXTENDS PreviewPorts

\* The state has its types, what has a server is remembered, and no token
\* belongs to two mappings.
PortsTypeOK ==
  /\ listeners \subseteq known
  /\ known \subseteq Ports /\ target \subseteq Ports /\ closing \in Ports \cup {NoPort}
  /\ (reader = "await") = (closing # NoPort)
  /\ \A p \in Ports : mapping[p] = None \/ mapping[p].token \in 1..issued
  /\ \A p, q \in Ports : mapping[p].token = mapping[q].token /\ mapping[p] # None => p = q

\* "A fresh runtime gets new tokens even if its hostnames are unchanged"
\* (README.md:1110): whoever has logged in reaches only the runtime and the
\* port whose link it was, however long the gateway has the entry before it
\* connects and whatever is stopped and started meanwhile.
ReachesWhatItOpened ==
  \A c \in Open : entry[c].run = tab[c].run /\ entry[c].port = tab[c].port /\ entry[c].run = run

\* What the directory shows has a server, unless it is just withdrawn or the
\* runtime is stopped.
ShownIsServed ==
  \A p \in Ports : mapping[p].available /\ stopped = "no" => p \in listeners \cup {closing}

\* max_ports bounds the mappings of a runtime, and so its sockets and its
\* hosts, although servers come and go on ever other ports.
MappingsBounded == Cardinality({p \in Ports : mapping[p] # None}) <= MaxPorts

\* A runtime that is gone has no connection, no mapping and no stream.
GoneIsClosed ==
  teardown = "gone" =>
    Open = {} /\ \A p \in Ports : mapping[p] = None

\* "Restarting an app server on the same port within that runtime keeps its
\* token" (README.md:1106-1107), as long as the runtime is there.
TokenOfRuntime ==
  [][\A p \in Ports : mapping[p] # None /\ mapping'[p] # None =>
       mapping'[p].token = mapping[p].token]_vars

\* A server that goes on listening is shown, or the runtime is stopped.
ServerIsShown ==
  \A p \in Ports : p \in serving ~> mapping[p].available \/ p \notin serving \/ stopped # "no"

\* The same sentence of the README for the token itself: restarting a server
\* does not cost it, it goes only when someone stops the runtime, or the runtime
\* fails, expires or has too many ports.
TokenKept ==
  [][\A p \in Ports : mapping[p] # None /\ mapping'[p] = None => stopped \in {"asked", "limit"}]_vars

\* "Stop / reset session in the directory kills the runtime and all its
\* background processes" (README.md:1119-1120).
StopKills == stopped # "no" ~> teardown = "gone"
=============================================================================
