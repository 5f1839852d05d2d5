----------------------------- MODULE BridgeInbox -----------------------------
(***************************************************************************)
(* Managed requests: an agent's tool call crosses from OpenCode's plugin   *)
(* to the bridge and back as files (managedRequest in pkgs/default.nix,    *)
(* process_registrations in pkgs/github-bridge/bridge.py).  The plugin     *)
(* writes a request, polls for the response and removes both; a run of the *)
(* bridge lists the requests, handles each, answers and removes it, and    *)
(* may be killed between any two of these steps.  Calls are numbered in    *)
(* the order in which their request files appear, which is that of mtime.  *)
(***************************************************************************)
EXTENDS Naturals, FiniteSets

CONSTANTS
  Callers,   \* a caller makes a call when its previous one is over
  MaxCalls,  \* bound on the calls
  Timeout,   \* how long a request may be begun, and its plugin waits
  MaxKills,  \* bound on restarts of OpenCode
  MaxCrashes \* bound on killed runs

ASSUME InboxAssumption ==
  /\ IsFiniteSet(Callers) /\ Callers # {}
  /\ MaxCalls \in Nat /\ Timeout \in Nat \ {0}
  /\ MaxKills \in Nat /\ MaxCrashes \in Nat

VARIABLES
  by, state, left,    \* of each call: its caller, its progress, the time it has
  inbox, response,    \* the files: requests, and what each response says
  old,                \* responses that were written more than a day ago
  pc, swept, todo,    \* the run: responses to inspect, requests to handle
  cur, reply,         \* the request it handles, and what it will answer
  effects,            \* calls whose operation was carried out
  kills, crashes

callVars == <<by, state, left>>
fileVars == <<inbox, response, old>>
runVars  == <<pc, swept, todo, cur, reply>>
vars == <<callVars, fileVars, runVars, effects, kills, crashes>>

Calls == 1..MaxCalls
Made  == {c \in Calls : state[c] # "unmade"}
Over  == {c \in Calls : state[c] \in {"ok", "failed", "late", "aborted", "killed"}}

Init ==
  /\ by \in [Calls -> Callers] /\ state = [c \in Calls |-> "unmade"]
  /\ left = [c \in Calls |-> Timeout]
  /\ inbox = {} /\ response = [c \in Calls |-> "none"] /\ old = {}
  /\ pc = "rest" /\ swept = {} /\ todo = {} /\ cur = 0 /\ reply = "none"
  /\ effects = {} /\ kills = 0 /\ crashes = 0
-----------------------------------------------------------------------------
(* The plugin, and OpenCode around it *)

\* The request appears whole: it is written beside the inbox and renamed.
Make(c) ==
  /\ state[c] = "unmade" /\ \A d \in 1..(c - 1) : d \in Made
  /\ \A d \in Made : by[d] = by[c] => d \in Over
  /\ state' = [state EXCEPT ![c] = "waiting"] /\ inbox' = inbox \cup {c}
  /\ UNCHANGED <<by, left, response, old, runVars, effects, kills, crashes>>

\* "<outcome>!" is a call that knows its outcome and has its files to remove.
Leaving == {"ok!", "failed!", "late!", "aborted!"}
Gives(c, outcome) == state' = [state EXCEPT ![c] = outcome]

\* The response is read and removed.
Read(c) ==
  /\ state[c] = "waiting" /\ response[c] # "none"
  /\ Gives(c, IF response[c] = "ok" THEN "ok!" ELSE "failed!")
  /\ response' = [response EXCEPT ![c] = "none"] /\ old' = old \ {c}
  /\ UNCHANGED <<by, left, inbox, runVars, effects, kills, crashes>>

\* After the last attempt it sleeps once more and does not look again.
GiveUp(c) ==
  /\ state[c] = "waiting" /\ left[c] = 0 /\ Gives(c, "late!")
  /\ UNCHANGED <<by, left, fileVars, runVars, effects, kills, crashes>>

Abort(c) ==
  /\ state[c] = "waiting" /\ Gives(c, "aborted!")
  /\ UNCHANGED <<by, left, fileVars, runVars, effects, kills, crashes>>

Outcome(s) == CASE s = "ok!" -> "ok" [] s = "failed!" -> "failed"
                [] s = "late!" -> "late" [] s = "aborted!" -> "aborted"

\* Mutant of Leave: the request is the bridge's to remove.
LeaveFile(c) ==
  /\ state[c] \in Leaving /\ Gives(c, Outcome(state[c]))
  /\ UNCHANGED <<by, left, fileVars, runVars, effects, kills, crashes>>

\* The request is removed whatever the outcome; then the agent is told.
Leave(c) ==
  /\ state[c] \in Leaving /\ Gives(c, Outcome(state[c]))
  /\ inbox' = inbox \ {c}
  /\ UNCHANGED <<by, left, response, old, runVars, effects, kills, crashes>>

\* OpenCode is restarted: the calls under way leave their files behind.
Kill ==
  /\ kills < MaxKills /\ kills' = kills + 1 /\ Made \ Over # {}
  /\ state' = [c \in Calls |-> IF c \in Made \ Over THEN "killed" ELSE state[c]]
  /\ UNCHANGED <<by, left, fileVars, runVars, effects, crashes>>

\* A request's time passes.
Tick ==
  /\ \E c \in Made : left[c] > 0
  /\ left' = [c \in Calls |-> IF c \in Made /\ left[c] > 0 THEN left[c] - 1 ELSE left[c]]
  /\ UNCHANGED <<by, state, fileVars, runVars, effects, kills, crashes>>

\* A day passes, in which a call is long over.
Age(c) ==
  /\ c \in Over /\ left[c] = 0 /\ response[c] # "none" /\ c \notin old
  /\ old' = old \cup {c}
  /\ UNCHANGED <<callVars, inbox, response, runVars, effects, kills, crashes>>
-----------------------------------------------------------------------------
(* process_registrations *)

BeginRun ==
  /\ pc = "rest" /\ pc' = "sweep" /\ swept' = {c \in Calls : response[c] # "none"}
  /\ UNCHANGED <<callVars, fileVars, todo, cur, reply, effects, kills, crashes>>

\* A response that its plugin has removed since the listing has no mtime: the
\* run fails.
Sweep(c) ==
  /\ pc = "sweep" /\ c \in swept /\ swept' = swept \ {c}
  /\ pc' = IF response[c] = "none" THEN "rest" ELSE pc
  /\ IF c \in old
     THEN response' = [response EXCEPT ![c] = "none"] /\ old' = old \ {c}
     ELSE UNCHANGED <<response, old>>
  /\ UNCHANGED <<callVars, inbox, todo, cur, reply, effects, kills, crashes>>

List ==
  /\ pc = "sweep" /\ swept = {} /\ pc' = "open" /\ todo' = inbox
  /\ UNCHANGED <<callVars, fileVars, swept, cur, reply, effects, kills, crashes>>

\* Mutant of First: in the order in which the directory lists them.
FirstListed(c) == c \in todo

\* The oldest request of the listing.
First(c) == c \in todo /\ \A d \in todo : c <= d

\* Mutant of Open: what was answered to the request before is kept.
OpenKeeping(c) ==
  /\ pc = "open" /\ First(c) /\ todo' = todo \ {c} /\ cur' = c
  /\ pc' = IF c \in inbox /\ left[c] > 0 THEN "handle" ELSE "answer"
  /\ reply' = IF reply = "none" THEN "error" ELSE reply
  /\ UNCHANGED <<callVars, fileVars, swept, effects, kills, crashes>>

\* A request that is gone, or whose time is over, gets an error.
Open(c) ==
  /\ pc = "open" /\ First(c) /\ todo' = todo \ {c} /\ cur' = c
  /\ pc' = IF c \in inbox /\ left[c] > 0 THEN "handle" ELSE "answer"
  /\ reply' = "error"
  /\ UNCHANGED <<callVars, fileVars, swept, effects, kills, crashes>>

\* register_pr, manage_github_remote: carried out, refused, or carried out by
\* a workspace command whose answer is lost.
Handle ==
  /\ pc = "handle" /\ pc' = "answer"
  /\ \/ reply' = "ok" /\ effects' = effects \cup {cur}
     \/ UNCHANGED reply /\ effects' \in {effects, effects \cup {cur}}
  /\ UNCHANGED <<callVars, fileVars, swept, todo, cur, kills, crashes>>

Answer ==
  /\ pc = "answer" /\ pc' = "unlink"
  /\ response' = [response EXCEPT ![cur] = reply] /\ old' = old \ {cur}
  /\ UNCHANGED <<callVars, inbox, swept, todo, cur, reply, effects, kills, crashes>>

Unlink ==
  /\ pc = "unlink" /\ pc' = "open" /\ inbox' = inbox \ {cur}
  /\ UNCHANGED <<callVars, response, old, swept, todo, cur, reply, effects, kills, crashes>>

EndRun ==
  /\ pc = "open" /\ todo = {} /\ pc' = "rest" /\ cur' = 0 /\ reply' = "none"
  /\ UNCHANGED <<callVars, fileVars, swept, todo, effects, kills, crashes>>

Crash ==
  /\ pc # "rest" /\ crashes < MaxCrashes /\ crashes' = crashes + 1
  /\ pc' = "rest" /\ swept' = {} /\ todo' = {} /\ cur' = 0 /\ reply' = "none"
  /\ UNCHANGED <<callVars, fileVars, effects, kills>>
-----------------------------------------------------------------------------
Plugin(c) == Read(c) \/ GiveUp(c) \/ Leave(c)

Run == \/ \E c \in Calls : Sweep(c) \/ Open(c)
       \/ List \/ Handle \/ Answer \/ Unlink \/ EndRun

Next ==
  \/ \E c \in Calls : Make(c) \/ Abort(c) \/ Plugin(c) \/ Age(c)
  \/ Kill \/ Tick \/ BeginRun \/ Run \/ Crash

Spec == Init /\ [][Next]_vars
-----------------------------------------------------------------------------
(* What managed requests promise *)

\* The state has its types; files and effects are those of
\* calls that were made, old responses of calls that are over.
InboxTypeOK ==
  /\ inbox \subseteq Made /\ todo \subseteq Made /\ swept \subseteq Made
  /\ old \subseteq {c \in Over : response[c] # "none"}
  /\ cur \in Made \cup {0} /\ (cur = 0 <=> reply = "none")
  /\ \A c \in Calls : left[c] \in 0..Timeout /\ (left[c] < Timeout => c \in Made)
  /\ effects \subseteq Made

\* An agent is told of success only when the operation was carried out,
\* although a request may be handled again and its response may be another's.
OkIsDone == \A c \in Calls : state[c] \in {"ok!", "ok"} => c \in effects

\* What the agent knows to be over is not begun any more: once a call has
\* returned, late, cancelled or answered, no run takes its request up.
OverIsNotBegun ==
  [][pc = "open" /\ pc' = "handle" => cur' \notin Over \/ state[cur'] = "killed"]_vars

\* An earlier operation of a caller is not carried out, for the first time or
\* again, after a later one: a conversation that registers a second pull
\* request or sets a remote anew finds it so, whatever was killed in between.
CallsInOrder ==
  [][pc = "handle" /\ pc' = "answer" =>
       \A d \in effects : by[d] = by[cur] => d <= cur]_vars
=============================================================================
