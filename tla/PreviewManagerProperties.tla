---------------------- MODULE PreviewManagerProperties ----------------------
(***************************************************************************)
(* What the preview manager promises to sessions and to the host.          *)
(***************************************************************************)
EXTENDS PreviewManager

CONSTANTS Workspaces, Sessions, Nobody

ASSUME LeaseAssumption ==
  /\ WorkspaceOf \in [Calls -> Workspaces] /\ SessionOf \in [Calls -> Sessions]
  /\ Nobody \notin Sessions

\* Every variable has its type.
ManagerTypeOK ==
  /\ pc \in [Calls -> {"new", "waiting", "evicting", "evicted", "starting", "readying",
                       "serving", "cleanup", "stopping", "answering", "ended"}]
  /\ of \in [Calls -> Execs \cup {NoCall}] /\ lock \in Execs \cup {NoCall}
  /\ runtimes \in SUBSET Execs /\ started \in SUBSET Execs /\ stopped \in SUBSET Execs
  /\ held \in SUBSET Execs
  /\ startup \in [Execs -> {"none", "spawning", "spawned", "failed"}]
  /\ ready \in [Execs -> {"pending", "set", "failed"}] /\ reader \in SUBSET Execs
  /\ valid \in SUBSET Execs
  /\ quiet \in SUBSET Execs /\ idle \in SUBSET Execs
  /\ stop \in [Execs -> {"none", "startup", "listeners", "kill", "reap"}]
  /\ closing \in {"no", "closing", "failing", "closed", "failed"}
  /\ closeWait \in SUBSET Execs
  /\ helper \in SUBSET Execs /\ group \in SUBSET Execs /\ busy \in SUBSET Execs
  /\ files \in SUBSET Execs /\ faults \in Nat
-----------------------------------------------------------------------------
(* Workspaces *)

OwnerOf(w) ==
  IF \E r \in runtimes : WorkspaceOf[r] = w
  THEN SessionOf[CHOOSE r \in runtimes : WorkspaceOf[r] = w]
  ELSE Nobody

WorkIn(w) == {SessionOf[r] : r \in {x \in helper \cup group : WorkspaceOf[x] = w}}

Leases == INSTANCE WorkspaceLeases
            WITH owner <- [w \in Workspaces |-> OwnerOf(w)],
                 work  <- [w \in Workspaces |-> WorkIn(w)]

\* "Only one root conversation can own an active runtime [...] per workspace"
\* (README.md:75), and no more than max_runtimes of them exist: whatever calls,
\* evictions, failing launches and failing teardowns do, a session gets a
\* workspace only when no process of the previous session is left in it.
ImplementsLeases == Leases!Spec

\* A process of a sandbox, its launcher included, belongs to a registered
\* runtime, so a later teardown can still reach it; and the directories it
\* uses are there: a teardown removes them when the cgroup is empty.
NoOrphans == helper \cup group \subseteq runtimes /\ group \subseteq files

\* What is evicted to make room is empty: no call is served in it, no call has
\* left a process behind that still runs, and nobody is connected to it.
EvictsOnlyEmpty ==
  [][\A c \in Execs :
       pc[c] = "waiting" /\ pc'[c] = "evicting" =>
         of'[c] \notin busy \cup held /\ Serving(of'[c]) = {}]_vars

\* When close() returns, nothing is left that the manager started: calls that
\* were waiting for the lock, evicting, or starting a runtime included.
ClosedIsEmpty == closing = "closed" => runtimes = {} /\ helper \cup group = {}
-----------------------------------------------------------------------------
(* Progress *)

\* A shell call that reaches the manager is admitted or answered: the lock is
\* never kept.  A runtime that is stopped goes, its calls end and who asked for
\* the stop is answered, unless a client stays connected to one of its
\* listeners: the teardown waits for the clients before it fails the channels
\* (manager.py:683-693).  The watcher tries again when a teardown fails, as long
\* as there is a watcher.
CallsAnswered ==
  /\ \A r \in Execs :
       r \in runtimes \cap stopped ~> r \notin runtimes \/ r \in held \/ closing # "no"
  /\ \A c \in Execs :
       pc[c] \notin {"new", "serving", "ended"} ~> pc[c] \in {"serving", "ended"}
  /\ \A c \in Stops : pc[c] \in {"stopping", "answering"} ~> pc[c] = "ended" \/ of[c] \in held
  /\ \A c \in Execs :
       pc[c] = "serving" /\ of[c] \in stopped ~> pc[c] = "ended" \/ of[c] \in held
=============================================================================
