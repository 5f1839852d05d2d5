------------------------ MODULE PreviewMcpProperties ------------------------
(***************************************************************************)
(* What the manager and the supervisor promise to callers of the browser.  *)
(***************************************************************************)
EXTENDS PreviewMcp, FiniteSets

InFlight == {i \in 1..Len(toSup) : toSup[i][1] = "mcp"}

\* The supervisor serves one request and the manager admits one (409), in
\* agreement: what is on its way finds the supervisor free, although the two
\* learn at different times that a request has ended and callers disappear.
AdmittedIsServed ==
  /\ Cardinality(InFlight) + (IF id = None THEN 0 ELSE 1) <= 1
  /\ InFlight # {} => active \in Calls

\* "A teardown/cleanup failure must not truncate an already captured close or
\* tool-error response" (mcp_transport.py:399-400): when the supervisor gives up
\* because of the namespace or its files, no such answer is still unwritten.
CapturedIsWritten ==
  died \in {"teardown", "unconfirmed", "home"} =>
    \A f \in ToSet(out) : ~(f[1] = "mcp_end" /\ f[3] = "retired")

\* A caller that still waits never learns that its request was cancelled: the
\* cancel of an earlier request, however late, ends only what that one left.
CancelsOnlyOwn ==
  /\ hand # <<>> /\ hand[1] = "error" /\ hand[3] = "cancelled" => hand[2] \notin channels
  /\ \A c \in channels : \A f \in ToSet(queue[c]) : f[3] # "cancelled"
=============================================================================
