-------------------------- MODULE WorkspaceLeases ---------------------------
(***************************************************************************)
(* What the preview manager promises about workspaces, without runtimes,   *)
(* locks or teardown: a workspace is leased to one session at a time, no   *)
(* more than MaxRuntimes are leased at once, and only the session that     *)
(* holds the lease has processes in the workspace.  PreviewManager          *)
(* implements it.                                                         *)
(***************************************************************************)
EXTENDS Naturals, FiniteSets

CONSTANTS Workspaces, Sessions, MaxRuntimes, Nobody

VARIABLES
  owner,   \* the session that holds each workspace
  work     \* the sessions that have processes in each workspace

vars == <<owner, work>>

Leased == {w \in Workspaces : owner[w] # Nobody}

Init ==
  /\ owner = [w \in Workspaces |-> Nobody]
  /\ work = [w \in Workspaces |-> {}]

Lease(w, s) ==
  /\ owner[w] = Nobody /\ Cardinality(Leased) < MaxRuntimes
  /\ owner' = [owner EXCEPT ![w] = s]
  /\ UNCHANGED work

\* Processes start and end for the owner.
Work(w) ==
  /\ owner[w] # Nobody
  /\ \E ss \in SUBSET {owner[w]} : work' = [work EXCEPT ![w] = ss]
  /\ UNCHANGED owner

\* The lease ends when nothing runs under it any more.
Release(w) ==
  /\ owner[w] # Nobody /\ work[w] = {}
  /\ owner' = [owner EXCEPT ![w] = Nobody]
  /\ UNCHANGED work

Next == \E w \in Workspaces : Work(w) \/ Release(w) \/ \E s \in Sessions : Lease(w, s)

Spec == Init /\ [][Next]_vars
=============================================================================
