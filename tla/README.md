# A TLA+ model of the OpenCode VPS services

This directory specifies the parts of this repository that keep state and act
concurrently, checks them with TLC on small instances, and proves the most
important facts for all instances with TLAPS. Two systems are specified:

* the **GitHub bridge** (`src/pkgs/github-bridge/bridge.py`), which turns GitHub
  comments, assignments and reviews into prompts of coding agents, from the poll
  that finds them to the collection of the workspaces they were worked on in, and
  the managed requests by which an agent's tools reach the bridge
  (`src/pkgs/default.nix`);
* the **previews** (`src/pkgs/opencode-preview`): the **manager** and the **sandbox
  supervisor**, which give every coding session a sandbox in its workspace, with
  shell calls, browser tools and the ports of what runs there, the **MCP frontend**
  an agent speaks to, and the **gateway** through which a person sees the ports.

The rest of the repository is packaging and configuration.

Contents: [inventory](#inventory), [how the bridge works](#how-the-bridge-works),
[how previews work](#how-previews-work),
[modules](#modules), [runs](#runs), [what the code does not keep](#what-the-code-does-not-keep),
[proofs](#proofs), [limits of the model](#limits-of-the-model),
[not modelled](#not-modelled), [plan](#plan).

## Inventory

| component | state | operations | hard parts |
|---|---|---|---|
| Bridge database (`Database`) | SQLite tables `subjects`, `events`, `tasks`, `mappings`, `deliveries`, `delivery_events`, `metadata` | one method per transaction | what holds between two transactions when the run is killed there |
| Feedback and dispatch (`process_pending_events`, `continue_task`, `cancel`, `dispatch_pending`) | locals of one run; rows | queue feedback for the session a subject is mapped to; refresh, batch, seal and prompt it | lost responses, kills, edits between queueing and prompting, cancels that meet deliveries in progress |
| Starting tasks (`start_task`, `discard_unprompted_task`) | workspace, session, first prompt, task row, mapping | start or recover a task by deterministic names; discard it | a kill anywhere in nine calls; a command edited between attempts; the task limit |
| Completion and collection (`update_completed_tasks`, `cleanup_tasks`) | task state, workspace | complete idle tasks, collect clean ones after the retention period | a kill between the removal and its record; late feedback |
| Registration (`register_pr`, `process_registrations`) | inbox and response files, mappings | map a pull request to the session that made it | answers lost by kills; sessions without a task row |
| Polling (`poll_notifications`, `discover_notification`, `consider_mention`, `record_action`) | `notifications_last_modified`, `notifications_initialized`, `last_event_scan_at`, events | read the subjects GitHub notified of and record each actionable event once | late, repeated and edited events; kills between the three marks; a poll that takes minutes |
| Triggers (`discover_issue_or_pr`, `refresh_event`) | events of a timeline, tasks, mapping | start on an assignment or review request, stop on its withdrawal | the issue, its timeline and its reviewers are read in different calls; order within a second; withdrawals before the task is mapped |
| `delete-session` | task, session, workspace, rows | remove them in turn | runs beside the bridge, as another process |
| Workspace script (`opencode-workspace.sh`) | Btrfs snapshots, task markers | `prepare-task`, `restore-task`, `inspect-task`, `head-task`, `remove-task`, manual commands | preparing twice, with another action |
| Preview manager (`manager.py`) | `Manager.runtimes`, `stopping`, `lock`, `closing`; in each `Runtime` its processes, channels, `active_execs`, heartbeat and `idle_since` | `_get_runtime`, `_exec`, `_mcp`, `_stop_request`, `read_frames`, `_watch`, `_stop_runtime`, `close` | eviction against admission, stop while starting, slots of disconnected callers, teardowns that fail |
| Sandbox supervisor (`supervisor.py`) | commands with credits, pending kills, pipes, streams, output buffer | admit, credit, cancel, read, report exit and heartbeat | TERM then KILL, output against credits, exit only after draining |
| MCP transport (`mcp_transport.py`) | the browser's process, what it serves, the last request, retired processes, its private home | `call`, `cancel`, `message`, `service`, `refresh`, `reset`, `reap` | late cancels, a selection while a browser is retired, a namespace that is not confirmed empty |
| MCP frontend (`mcp_frontend.py`) | pending calls, output lock | `accept`, `call`, `send`, `run` | duplicate IDs, cancels against answers, an output nobody reads |
| Connections (`manager.py` `_ports`, `_accept`, `_connection`; `supervisor.py` `Stream`) | listeners, mappings with tokens, channels, streams with credits | report, show and withdraw ports; relay TCP | a listener whose closing waits for clients; half-closes; limits counted on two sides |
| Preview gateway (`gateway.py`) | none of its own over time | authenticate, proxy | an entry that is stale when it connects |
| OpenCode plugin (`pkgs/default.nix`, `managedRequest`) | request files | ask and await the bridge | time-outs against late answers |
| NixOS modules, hosts, patches, tool packages | none | declarative | - |

What makes each component correct:

* *Feedback*: every event the controller wrote reaches an agent once, unless it
  was withdrawn; nothing is recorded as delivered that no agent has; the text of
  an accepted prompt never changes; a cancel stops what was queued; events of a
  subject are taken up in order.
* *Starting*: one session and one first prompt for an event, whatever is
  retried; a prompted session is never thrown away as unprompted; no more than
  `max_tasks` automated tasks at a time; a subject is mapped only to a session
  that has its first prompt.
* *Collection*: a workspace disappears only when nobody works in it or will be
  asked to without its being restored.
* *Runtimes*: a workspace belongs to one session until the last process of its
  sandbox is gone; no more than `max_runtimes` exist; only empty runtimes are
  evicted; whatever fails, a sandbox can still be reached by a teardown; the lock
  is never kept; `close` leaves nothing behind.
* *Discovery*: nothing GitHub has notified of is passed over; what was there before the
  bridge is never acted on, what is posted afterwards always is; what is settled is
  not settled again; a trigger counts while it stands, and its withdrawal stops what
  it started and nothing that was started later.
* *Managed requests*: success is told only of what was done; what has returned to the
  agent is not begun any more; a conversation's requests are done in their order.
* *Browser tools*: what the manager admits finds the supervisor free; a cancel ends
  only what its own request left; the answer that closes a browser is delivered
  whole.
* *Previews*: a token opens the runtime and port it was issued for and nothing else;
  what is shown is served, and what is served gets shown; a client that is told the
  end has all the data; no stream stays behind.
* *MCP frontend*: one answer for a request, none after its cancel; it ends with nothing
  running.
* *Shell calls*: a slot comes back when its command has ended, also when its caller has
  left; a caller gets all output before the exit status; a runtime that is stopped for
  being idle is idle; a call whose process has ended ends.

## How the bridge works

systemd starts `github-bridge run` every minute and whenever a request file
appears; it is a oneshot service, so at most one run exists. A run polls GitHub
and records events, handles the pending events in source order, dispatches the
deliveries that wait, looks for tasks that are complete, collects old ones, and
ends. It talks to four others, none of which shares its transactions: GitHub
(where the controller may edit, delete or close at any time), OpenCode (sessions
and messages), the workspace script (snapshots), and SQLite. A run may be killed
between any two calls, and any call may raise before or after it took effect.
What makes retries possible is that everything a run creates has a name derived
from the event it is for: task ID, session title, delivery ID, message ID.

An event `e` is `pending`, and either starts a task of its own, or is `queued`
in a delivery for the session its subject is mapped to, or is a cancel, or is
ignored. A delivery is `pending`, then `dispatching` (sealed: nothing joins it
any more), then `delivered`, or `cancelled`.

## How previews work

One asyncio process, the manager, answers HTTP calls on a control socket. The
first call of a session in a workspace creates a *runtime*: a cgroup, a host
process that enters it and becomes a sandbox, and in the sandbox the
supervisor, which speaks frames over its standard input and output. A lock
serializes finding and creating runtimes. When the limit is reached, the runtime
that has been idle for longest is torn down first. A reader task per runtime
takes the supervisor's frames; a watcher looks every second for runtimes that
are no longer valid (no heartbeat for five seconds, a changed directory, the
maximal age) or have been idle for the time-out. Teardown is one task per runtime,
reserved synchronously (`stopped`) and awaited by whoever wants it done.

A browser request goes to the supervisor's MCP child, which starts a browser server in
a namespace and home of its own, one for all requests of the runtime until another
engine is selected, a request is cancelled, or the answer itself closes it. Retired
processes are reaped, and their home removed, before the next is started.

Each heartbeat lists the ports on which the workload listens. The reader opens a Unix
socket and a mapping with a hostname and a token for each; the gateway checks the
token and connects there; the manager relays each connection through the frames to a
stream of the supervisor, which dials the port inside the sandbox. Both directions
have windows of unacknowledged data.

A shell call reserves a channel, sends `exec`, and forwards what the reader puts
into its queue. The supervisor may have 63 unacknowledged chunks on the way
(`QUEUE_SIZE - 1` credits); the handler returns one after each write. A caller that
leaves makes the handler send `cancel`; the supervisor then discards output,
signals the process group, and reports the exit when the kill deadline is over.

## Modules

The bridge:

| module | what it models |
|---|---|
| `BridgeStore` | constants, all variables, and one operator for each method of class `Database` |
| `BridgeFeedback` | `process_pending_events`, `continue_task`, `cancel`, `dispatch_pending` |
| `BridgeStart` | `start_task`, `discard_unprompted_task` |
| `BridgeUpkeep` | `update_completed_tasks`, `cleanup_tasks`, `register_pr`, `delete_session` |
| `BridgePoll` | `poll_notifications`, `discover_notification`, `consider_mention`, `record_action` with the marks in `metadata` |
| `BridgePollProperties` | what polling promises |
| `BridgePollProofs` | the inductive invariant of `BridgePoll` and its theorems |
| `BridgeTriggers` | the timeline part of `discover_issue_or_pr`, `refresh_event` of triggers, their processing, and its properties |
| `BridgeTriggersProofs` | the inductive invariants of `BridgeTriggers` and its theorems |
| `BridgeInbox` | `process_registrations` and the plugin's `managedRequest`, and its properties |
| `BridgeInboxProofs` | the inductive invariant of `BridgeInbox` and its theorems |
| `Bridge` | initial states, the controller, the agents, discovery, kills and failing calls, `Next`, fairness |
| `BridgeProperties` | the type invariant and every property |
| `MCBridge...` | definitions for the instances TLC checks |
| `BridgeProofs` | the inductive invariants of the composed bridge and the theorems |

The previews:

| module | what it models |
|---|---|
| `WorkspaceLeases` | the abstract promise: a workspace is leased to one session at a time, at most `MaxRuntimes` at once, and only its holder has processes there |
| `PreviewManager` | the life of runtimes: `_get_runtime`, `_stop_request`, `_watch`, `_stop_runtime`, `close`, reader, launcher |
| `PreviewManagerProperties` | type invariant, the refinement mapping to `WorkspaceLeases`, safety and progress |
| `PreviewManagerProofs` | the inductive invariant, the safety theorems, and that the manager implements `WorkspaceLeases` |
| `PreviewExec` | shell calls inside one runtime: `_exec`, `Runtime.send`, `read_frames`, and the supervisor's command loop, composed by two frame pipes |
| `PreviewExecProperties` | what both processes promise together |
| `PreviewExecProofs` | the inductive invariant of `PreviewExec` and its theorems |
| `PreviewMcp`, `PreviewMcpProperties` | browser requests inside one runtime: `_mcp`, the pipes, the supervisor and `MCPChild` |
| `PreviewPorts`, `PreviewPortsProperties` | the ports of a workspace over its runtimes: `_ports`, `_accept`, `_stop_runtime`, the gateway's look-up and check |
| `PreviewStreams`, `PreviewStreamsProperties` | the data of connections: `_connection`, its upload, the supervisor's streams |
| `PreviewConnectionsProofs` | the inductive invariants of `PreviewPorts` and of `PreviewStreams`, and their theorems |
| `PreviewFrontend` | `MCPFrontend`, and its properties |
| `PreviewBrowserProofs` | the inductive invariants of `PreviewFrontend` and of `PreviewMcp`, and their theorems |
| `MCPreview...` | definitions for the instances TLC checks |

`BridgeStore`, `BridgeFeedback`, `BridgeStart`, `BridgeUpkeep` and `Bridge` extend one another
in this order and are one specification, that of a run over the rows of an event that
was discovered; `BridgeProperties` and `BridgeProofs` extend it. `BridgePoll`,
`BridgeTriggers` and `BridgeInbox` specify what comes before and beside it, with what
follows abstracted to what their properties need. In the same way `PreviewManager` is
the life of runtimes, and `PreviewExec`, `PreviewMcp`, `PreviewPorts` and
`PreviewStreams` are each one use of a runtime, with its pipes and its teardown. Operators whose comment says "Mutant of" are plausible bugs
of the operator that follows. They are not part of the specification; each one
is listed in `PROJECT.json` with the property that it breaks.

### The bridge

**State.** The first group of variables is the database (`evState`, `evAction`,
`taskState`, `mapping`, `delState`, `delTask`, `carried`, `older`), the second is
the world (`github`, `aged`, `sess`, `title`, `startMsg`, `contMsg`, `stray`,
`workspace`), the third is the run: `pc` is the line it is at and the others are
its locals (`ev` the event at hand, `dl` and `rowState` the `delivery` and
`delivery_state` of `dispatch_pending`, `held` the session read from a mapping,
`todo`, `queue`, `ctx`, `tasksLeft` the lists its loops walk, `blockedSub` and
`blockedSess` the sets of `process_pending_events`). A killed run loses the third
group and nothing else (`Bridge!Idle`). `cliPc` and `cliTask` are the same for a
`delete-session` process.

**Identities.** Events are numbers in the order of `pending_events`. The task,
session and workspace that event `e` starts are all `e`; the delivery named after
`e` and its message are `e`. The code derives each of these from the event by
hashing, and the model takes the hashes to be injective. `contMsg[t][d]` is the
set of events whose text the message of delivery `d` in session `t` carries, so
the contents of a prompt can be compared without modelling text. `title[e]` is
the command in the title of the session; `stray` remembers sessions that were
prompted and that no title finds any more.

**Steps.** One transaction or one call to another service is one action, with the
reads that precede it. Between two actions the run may be killed (`Crash`); the
action after a call may be replaced by an exception (`PendingRaises`,
`DispatchRaises`, `CleanupRaises`), which is both a call that failed and a
response that was lost. Exceptions that follow from the state (limit reached,
no task row, no workspace to read a head from, session gone) are always
possible and cost nothing (`Refusal`); the others are bounded by `MaxFaults`. A
database that fails between two transactions is a kill.

**Environment.** The controller posts (`Post`) and edits (`Edit`, which is also a
deletion and the closing of a subject) at any time. Agents stop (`AgentWorks`)
and, when `UserPrompts` is set, leave uncommitted work or are prompted by a
person in the web interface. `Discover` records any subset of what is on
GitHub in each poll.

### The preview manager

**Steps.** The manager is one event loop, so an action of `PreviewManager` is what
one task does between two awaits. `pc[c]` is where the handler of call `c` is:
`waiting` for the lock, `evicting` and `evicted`, `starting` (the launcher is
being spawned), `readying` (`ready` is awaited), `serving`, `cleanup` (awaiting
the teardown of its failed runtime), `answering`, and `stopping` for a `/stop` request.
`stop[r]` is where the teardown task of runtime `r` is: `startup` (it waits for the
launch to settle), `listeners` (the reader is cancelled, the listeners are closed, and
their clients are waited for), `kill` (only now the channels of the calls have failed),
`reap` (launcher killed, cgroup being emptied). Awaiting a task that others await
too is in `Awaiting`: the teardown's end moves every waiting handler on. `held` are the
runtimes of which a listener has a client (`Visit`, `VisitEnds`); a client may stay for ever.

**Identities.** A runtime is named for the call that creates it, so a new runtime
is never confused with an old one of the same workspace; the code draws random
runtime IDs.

**World.** `helper` are the runtimes whose spawned host process lives, `group`
those with processes in their cgroup, `busy` those in which commands left
processes behind. `launch.py` enters the cgroup at any time while it lives (`Launch`),
which is why the teardown kills it before the cgroup. Processes may end at any
time; heartbeats (`Heartbeat`) are read whenever the sandbox lives, and `Lapse` is
any reason for which a runtime becomes invalid.

**Abstractions.** A call is `serving` from its admission to its end; what happens
there is `PreviewExec`, and its slots are not counted here. Which idle runtime is
evicted is left open. `quiet` and `idle` stand for the comparison of heartbeat and
activity times and for `idle_since`; ports count like processes, so nobody connects to a
`quiet` runtime. The clients of all listeners of a runtime are one bit; `PreviewPorts`
tells them apart.

### Shell calls

`PreviewExec` is one started runtime. `toSup` and `fromSup` are the pipes, in order and
without loss; `hand` is the frame for which `read_frames` yields (`sleep(0)`) between
looking up its channel and putting it. `active` is `Runtime.active_execs`, `channels`
the reserved channels, `commands`, `credits`, `discard` and `kills` the tables of the
supervisor, `buf` the output in a command's pipes, `children` the commands that have left
processes behind. When a process has ended, `PollExit` takes what FIONREAD says is in its pipes
(`exited`, `remaining`); what is to be read from then on is that and no more (`Queued`), although
descendants may go on writing, for ever (`Write`), and the exit is reported when it is read. A time-out of a write, of the response or of a send is a caller that
leaves (`Leave`). `SendCredit` reads `active` before `Runtime.send` takes its write lock,
so a credit may be sent for a call that has ended; the model lets it be sent or not in
that case. The teardown has two of the steps it has in `PreviewManager`: the channels fail
(`FailChannels`), and everything is killed (`KillAll`). It is never assumed to go on, as the first
waits for the clients of the runtime's listeners. MCP requests and TCP connections, which share channels and
activity, have modules of their own; the shared limit of the supervisor's output buffer is left
out.

### Polling

`BridgePoll` has the objects of GitHub that are found through notifications, comments
and submitted reviews (`Items`), in `Subjects`. `content` is what an item says now; `page`
is what one request for the comments, resp. reviews, of a subject has returned, so that an
edit may fall between any two reads. `cursor` is the stored `Last-Modified`, as the set of
items notified of at that time; a poll that finds nothing new takes the 304 path of
`Fetch`. `EndScan` keeps the cursor after a failure; `SaveCursor`, `SaveInitialized` and
`SaveTime` are the three transactions at the end of a poll. Time is in minutes and
relative: `age[i]` is how long ago an item was posted, `gap[i]` how old it was when the last complete poll ended
(so `Historical` is `gap[i] > Grace`), and both stop counting just beyond the grace. `Delay`
is how late GitHub may notify, `ScanTime` how long a poll may take: they are assumptions
about the world, and the runs show which of them the code needs.

### Triggers

`BridgeTriggers` is one subject and its timeline; `kind` says whether the bot is assigned or
asked for a review, and `Kinds` which of both a run has. `ReadSubject`, `ReadEvents` and
`ReadReviewers` are the three calls of a scan (of an assignment only the first two, as the
assignees are part of the issue), `Consider` one turn of the loop over events,
and the rest is `process_pending_events` for starts and cancels, one step per transaction or
call. The position of an event in the timeline is its GitHub number; `Ties` lets
two events carry the same second. `Fault` is a kill or an exception at any point.

### Managed requests

`BridgeInbox` has a plugin process for each call (`Make`, `Read`, `GiveUp`, `Abort`, `Leave`) and
the run (`BeginRun`, `Sweep`, `List`, `Open`, `Handle`, `Answer`, `Unlink`), which share the
files `inbox` and `response`. `effects` are the calls whose operation was carried out, also where the
answer is an error because the workspace command's reply was lost. `left[c]` is the
time before `expires_at`; the plugin looks a last time before it is over, and the run checks
it when it opens the request. `old` are responses the next sweep removes.

### Browser tools

`PreviewMcp` is one started runtime. `id`, `last`, `phase`, `engine`, `retiring` are the fields of
`MCPChild`; `child` and `old` are the process in use and the retired one, `home` its private
directory. `phase` is `wait` (start when the old one is gone), `call`, `result` (the answer is being
emitted in frames), `ready`. `out` and `barrier` are the supervisor's output buffer and
the position retirement waits for (mcp_transport.py:401). `lock` is the queue of tasks
for the write lock of the runtime; on an overflow the reader itself queues for it
(`hand = "overflow"`) and reads nothing before. What the browser says is reduced to an answer, an
answer that retires it, and a failure.

### Ports

`PreviewPorts` is one workspace and its successive runtimes (`run`). `reader` is where
`read_frames` is: reading, applying a heartbeat's ports (`Drop`, then `Withdraw` when the listener is closed, then `Listen`)
or gone. `Closed` is `Server.wait_closed()`: since Python 3.12 it returns when the listener's
connections have ended. `teardown` follows `_stop_runtime` in its order: listeners,
connections, processes. `tab` is the link a client has logged in with, `entry` what the
gateway's look-up returned; the socket of a port is opened by its path, so it is the
current runtime's (`Reachable`).

### Connections

`PreviewStreams` is one runtime with its connections (`Relays`). `lock` is the queue for the write
lock, `input` and `output` are the supervisor's, `socket[c]` is how far it has dialled. `at[c]` is where `_connection` is,
`up[c]` where its upload task is, `pending[c]` the unacknowledged data of the upload; `buffer`,
`ended`, `shut`, `readEnd` are the fields of `Stream`. Data is counted in chunks. The runtime
is not stopped in this module.

### MCP frontend

`PreviewFrontend` is one process of `mcp_frontend.py`. `pending` is its table, `task[i]` where the
task of call `i` is, `waiting` and `holder` the queue of the output lock and who has it,
`answered[i]` counts answers. `run` goes from `on` over `ending` (the tasks are cancelled and gathered)
to `over`.

## Runs

| run | question | instance and bounds |
|---|---|---|
| `Feedback` | Is feedback neither lost nor sent twice nor joined to a prompt that exists, in order, whatever fails, and is no workspace collected under it? | `MCBridge`: the pull request of a task (event 0); one comment (a continue or a cancel), two reviews, a manual session to which the pull request is registered at any time, four faults |
| `Starts` | Do interrupted and edited starts recover what an earlier attempt left, and does an accepted prompt keep its text? | `MCBridge`: nothing is mapped; a command and a review, two edits to any command, overflow, a person who prompts, registration by a manual session, `delete-session`, one fault |
| `Settle` | Is every event settled, and all feedback prompted or withdrawn in the end? | `MCBridge`: a comment on an issue, a continue or a cancel, and a review of a pull request that is registered late or never; two tasks at a time, two faults |
| `Polls` | Is nothing passed over, and nothing fresh taken for history? | `MCBridgePoll`: a comment and a review of two subjects, a delay of one minute and a poll of one, a grace of two; a dry run that goes live, one edit, one failing subject, one kill |
| `Requests` | Is what the controller asks for taken, and does a withdrawal stop only what is older? | `MCBridgeTriggers`: assignments and review requests, four events on the timeline, reopening, two faults |
| `Inbox` | Is success told only of what was done, is nothing begun that is over, is the order kept? | `MCBridgeInbox`: three calls of one conversation, a time-out of one tick, one kill of the bridge, one restart of OpenCode |
| `Teardown` | Is a workspace leased exclusively, does nothing stay behind, is only what is empty evicted, is every call answered and every teardown repeated? | `MCPreviewManager`: two sessions with a workspace each, room for one; two calls arrive: of both sessions, of one session, or a call and a `/stop`; clients of their listeners, `close`, one failing teardown |
| `Calls` | Is output complete, is what is idle empty, does every slot come back? | `MCPreviewExec`: two calls, one slot, a queue of two, a pipe of one chunk; one call writes two chunks until its exit is noticed, and what it left behind goes on |
| `Browsers` | Does the supervisor serve what the manager admits, does a cancel end only its own, is no captured answer lost? | `MCPreviewMcp`: two calls, two engines, answers of two chunks |
| `Ports` | Does a client reach only what it opened, does nothing outlive a runtime, is what is served shown? | `MCPreviewPorts`: two clients, two ports, two runtimes in turn, three starts or ends of servers |
| `Streams` | Do the windows agree, is the data complete at the end, does every stream end? | `MCPreviewStreams`: one connection, three chunks up and two down, windows of two |
| `Frontend` | Is no answer late, and does every call leave the table? | `MCPreviewFrontend`: three IDs used twice each, two at a time |

**The bounds.** The hazards of the bridge need at most: two deliveries that meet (a batch and
a comment), a batch with two members, and a fault between two steps plus one in
each retry. Three events besides the settled one give all of these in `Feedback`; the longest
behaviour that we know to matter there, a review that is queued for one session, then for another, withdrawn
and brought back ("brought back" below), takes four faults, which is the bound. Two `CONSTRAINT`s keep
the runs small: `OneRegistration` (`Feedback`) lets the pull request change hands once and no review
age, which nothing reads while the subject has a session; `Orderly` (`Starts`) lets a person go on only
in sessions that the bridge prompted, and commit what is done. `Starts` has one fault, because the two edits between
the attempts, the other session and the operator are the interesting part. With `MaxTasks = 1` every second start meets
the limit. The three marks of a poll need one kill between them and one
subject that fails; the grace needs a delay and a slow poll that add up to it,
which they exactly do. Four events are the shortest timeline in which something is asked for,
withdrawn and asked for again while a closing or a further withdrawal waits. Three requests give an
order with something between.

For the previews, the hazards are between two calls, or a call and a teardown. With one slot
free (`MaxRuntimes = 1`, `MaxExecs = 1`) every second call meets the limit. In `Teardown` the
calls of one behaviour are one of three sets (`Crowds`): an eviction needs two sessions, a
join or a change of hands two calls of one session, and `/stop` a call to stop. A runtime is never
created twice by one call, so two calls of a session are two generations of its
sandbox. A queue of two places is the smallest that has room for data and exit; two
chunks fill it once and need a credit returned; a pipe of one chunk makes the command wait for its reader; three in a window of two need an
acknowledgement. One heartbeat at a time is in the pipe (`ReportPorts`). Two ports and two
runtimes are what a stale entry can be wrong about. With two of three IDs pending
the third is answered busy.

The passing runs claim what the code keeps. Where more faults, edits or registrations make the code do
otherwise, the property names the case as an exception (`PromptedOnce` has three, `DeliveredReachedAgent`,
`PostedIsSealed`, `DiscardOnlyUnprompted`, `CurrentIsTaken`, `DeliveriesSettle` and `CallsAnswered` one each), and
the next section has a recipe that reaches it.
Some instances leave out an ingredient altogether, because with it the code keeps less, as the recipes show:
`Feedback` has no edits, no overflow and no `delete-session`, `Starts` does not delete the session of
the command that is edited, in `Settle` there is room for the tasks there are and nobody who prompts again and again,
`Polls` has a delay within the grace, `Requests` no two events in a second.

**Properties.** Each is stated with the behaviour of the
code it is about. `DeliveredReachedAgent`, `PromptedOnce`, `QueuedIsCarried`,
`PostedIsSealed` and `CancelWithdraws` relate rows to what OpenCode has; they can
fail only through several steps, usually with a kill between them.
`PromptsAreFinal`, `DeliveredWasPosted`, `SubjectOrder` and `DiscardOnlyUnprompted`
say what no step may do. `PromptedOnce` looks at what is posted, so that a second message with the same
text counts, in whatever session or delivery. `NothingSkipped` relates the stored cursor to the events, `FreshIsTaken` the
grace to the delays. `ImplementsLeases` is the refinement: owner of a
workspace is the session of its registered runtime, and its work are the sessions
whose launcher or sandbox still lives there. `SlotsReturn` is the other side of
the comment at manager.py:224, and says that what a command left behind cannot keep its slot. `IdleIsEmpty` is
about heartbeats that were overtaken, `AdmittedIsServed`, `CreditsAgree` and `ReachesWhatItOpened` about two
processes that count or remember the same thing.

**Fairness of the bridge** (`Bridge!Fairness`) is assumed only in `Settle`.
Weak fairness of the run and of starting it is the timer of
`modules/github-bridge.nix`, which starts another run a minute after each one. An
agent ends its work (weakly fair) because a prompt ends or is aborted; a review
gets older than `REGISTRATION_GRACE` because time passes. Strong fairness is
assumed of two choices that are made anew in every run: that the head of a pull
request does not move during every single attempt to start on it, and that a
task is not younger than thirty seconds whenever it is looked at. Discovery,
registration, edits, faults and the operator are not assumed to happen. With
`MaxFaults` bounded, faults stop in the end, as they must for anything to
settle. A person who goes on prompting a session keeps it busy, and feedback waits for
as long: with `UserPrompts` nothing settles. In `Polls` the run, the interval and GitHub's
notifications are weakly fair; time passes only as far as `Delay` and `ScanTime` let it.

**Fairness of the previews** (`Teardown`, `Calls`, `Ports`, `Streams`, `Frontend`) is weak: the
event loop runs a task that can go on, the watcher sweeps every second, spawning a
process settles, the supervisor's loop serves its input, its kill deadlines, every
command and every stream (it rotates them), and processes that were killed die. A runtime whose frames nobody reads, or
whose reader waits for the clients of a listener, goes silent after five seconds (`Lapse`, `WatchStale`, `Heard`). A call
of a stopped runtime ends once its channel has failed (`Finish` with `ChannelsFailed`), which the teardown does only
when the clients of the listeners have left (manager.py:683-693): nobody assumes that they do, and so
`CallsAnswered` and `SlotsReturn` leave out a runtime that is `held`, resp. a teardown that has not come to the channels. A command is never assumed to
end, a caller to leave, a client to read, or a sandbox to become ready: that every call is answered
rests on the time-out of thirty seconds, which is the code's own (`StartFails`), and that the
frontend's calls finish on `OUTPUT_TIMEOUT`.

## What the code does not keep

These are behaviours found while modelling in which the code does otherwise than
the repository says, or than one would want. Each is a run of the list above with some
constants (or the property) changed; TLC ends it with a counterexample. They delimit what the
passing runs claim, and are kept as recipes and not as runs: copy the `.cfg` without its `CONSTRAINT`, change
what the second column says (for `Feedback` also `Manual = {}` unless the column gives it), and check the property
of the third, in which "without" names an exception to be struck out. The properties are
in the properties' modules although no run above has them.

| recipe | run and changes | property | what happens |
|---|---|---|---|
| resume after collection | `Settle` | `DeliveriesSettle` without `HeadLost` | A cancel turns a collected task into a paused one. A later continue does not restore its workspace, reading the local head of a pull request fails in every run, and the feedback never reaches the agent. |
| late feedback | `Feedback`; `Events = {0,1,2}`, `Reviews = {2}`, `SubjectOf <- Split`, `MaxFaults = 1` | `WorkHasWorkspace` | A collection killed between the removal and its record leaves the task `collecting`; feedback makes it active without restoring, and the agent is prompted without a workspace. |
| lost link | `Feedback`; `CanOverflow = TRUE`, `MaxFaults = 1` | `QueuedIsCarried` | A batch outgrows its prompt and the event its delivery is named after is the one to move: the move deletes the link it has just written (bridge.py:2433). |
| cancelled batch | `Feedback`; `Reviews = {1,3}`, `InitialCommands = {"continue"}`, `EditCommands = {"cancel"}`, `MaxEdits = 1`, `MaxFaults = 0` | `PausedStaysQuiet` | A comment in a batch is edited to a cancel: the session is paused and aborted, and then prompted with the rest of the batch (bridge.py:2399). |
| reopened delivery | `Feedback`; `Events = {0,1,2}`, `Reviews = {2}`, `MaxFaults = 3` | that no delivery which is `Posted` is `pending` | A delivery was sent and its run killed; a cancel withdraws it; its event, still pending after an earlier fault, continues and reopens the delivery as pending, although its message exists. |
| joined open | `Feedback`; `MaxFaults = 3` | `DeliveredReachedAgent` without its last disjunct | The same, and a review joins the delivery while it is open again: the message is found, and finalizing the delivery records the review as delivered too, which no agent has read. |
| false delivered | `Feedback`; `Events = {0,1,2}`, `Reviews = {2}`, `EditCommands = {"none","continue","cancel"}`, `MaxEdits = 2`, `MaxFaults = 1` | `DeliveredReachedAgent` | The event a delivery is named after is edited away, and back again after the rest was sent; it joins the sealed delivery by its name, and finalizing that records it as delivered. |
| registered again | `Feedback`; `Events = {0,1,2}`, `Reviews = {2}`, `Manual = {9}`, `MaxFaults = 1` | `PromptedOnce` without `Shared` | Between a kill and the retry the pull request is registered to another session: the event stays in the delivery of the first and is queued for the second. |
| sent twice | `Feedback`; `Events = {0,1,2}`, `Reviews = {1,2}`, `InitialCommands = {"continue"}`, `MaxFaults = 3` | the same | A run is killed after a review joined a batch and before its event was marked as queued. In the next one continuing it fails, while the batch is sent, and the run is killed before that is recorded. The batch is then sealed, so the review gets a delivery of its own: the agent is given its text twice. |
| brought back | `Feedback`; `Events = {0,1,2}`, `Reviews = {2}`, `Manual = {9}`, `MaxFaults = 4` | `PromptedOnce` without `BroughtBack` | A delivery is sent to one session and its run killed; the pull request is registered to another, where a cancel withdraws it; its event, still pending, takes the row up for the new session and is posted there too. |
| started elsewhere | `Feedback`; `Events = {0,2}`, `Reviews = {2}`, `Manual = {9}`, `InitialMapping <- HalfMapped`, `MaxFaults = 1` | `PromptedOnce` without `StartedBefore` | A review starts a session of its own, which is prompted and not recorded; the pull request is registered to another session before the retry, which continues that one with the same review. |
| passed over | `Feedback`; `Events = {0,1,2}`, `Reviews = {2}`, `MaxTasks = 2`, `InitialCommands = {"implement","continue"}`, `MaxFaults = 0` | `SubjectOrder` | A start that is discarded because the command or the head changed while its workspace was prepared stays pending without blocking its subject, and a later event goes on (bridge.py:2252). |
| wrong session | `Feedback`; `Reviews = {3}`, `Manual = {9}`, `CanOverflow = TRUE`, `MaxFaults = 2` | `CancelWithdraws` | A review is queued in one session's batch; its pull request is registered to another session, where it gets a delivery that a cancel withdraws; the batch outgrows its prompt, and the move makes that delivery pending again for the paused session: `move_delivery_event` reopens a row without setting its session (bridge.py:674-676), `queue_delivery` sets it (632-637). |
| dirty collection | `Feedback`; `Events = {0,1}`, `Reviews = {}`, `UserPrompts = TRUE`, `MaxFaults = 0` | `CollectsOnlyClean` | A workspace becomes dirty after `inspect-task` and before `remove-task` (bridge.py:2803-2816). |
| delete race | `Feedback`; `Events = {0,1}`, `Reviews = {1}`, `Deletable = {0}`, `MaxFaults = 0` | `DeletesOnlyQuiet` | A session is prompted after `delete_session` has read its status (bridge.py:2842-2848). |
| deleted meanwhile | `Feedback`; `Deletable = {0}`, `MaxFaults = 0` | `QueuedIsCarried` | The records of a session are deleted while the run queues feedback for it: a delivery stays behind that nothing dispatches. |
| discarded prompt | `Starts`; `Reviews = {}` | `DiscardOnlyUnprompted` without `~found` | A start that was prompted but not recorded is edited to another command and then withdrawn: the prompted session is deleted, although `discard_unprompted_task` says that it removes artifacts "only after proving the deterministic prompt is absent" (bridge.py:2301): what is proved absent is the prompt under the new title. |
| edited and deleted | `Starts`; `Deletable = {1}` | `MappedWasPrompted` | A command is edited, its run fails, and its session is deleted meanwhile: the retry maps what has no prompt. |
| stranded review | `Starts`; `Manual = {}`, `Deletable = {}`, `InitialCommands = {"implement"}`, `MaxEdits = 0`, `UserPrompts = FALSE`, `FairSpec` | `EventsSettle` | A killed start holds the only slot; an earlier command, discovered later, is refused for the limit and blocks the subject, so the start is never retried. |
| abandoned start | `Settle`; `MaxTasks = 1` | `EventsSettle` | A start that fails after it was recorded as queued holds the only slot. Its pull request is then registered to a task that was collected, whose continue is refused for the limit and blocks the session: the start is never taken up again, nor is its slot returned. |
| leaked slot | `Starts`; `Events = {0,1,2}`, `Reviews = {}`, `SubjectOf <- OnIssue`, `Manual = {}`, `Deletable = {}`, `InitialCommands = {"implement","continue"}`, `MaxEdits = 0` | `TaskLimit` | A start is killed after it was recorded as active and before its event was; the task completes, another takes the slot, and the retry makes the first active again without looking at the limit (bridge.py:2220). With `MaxFaults = 0` the limit holds. |
| late notice | `Polls`; `Delay = 2` | `FreshIsTaken` | GitHub's notice and a slow poll together take longer than the grace: a command given meanwhile is recorded as history. `GraceSuffices` gives the exact condition. |
| half a baseline | `Polls`; `Subjects = {s1}`, `SubjectOf <- OneSubject`, `Reviews = {}`, `DryRun = FALSE`, `MaxEdits = 0`, `MaxFailures = 0` | `HistoryStays` | The first poll is killed between `notifications_initialized` and `last_event_scan_at`: what was there before the bridge and is noticed only then is acted on. Without a kill it holds. |
| stale assignees | `Requests`; `Kinds = {"assignment"}`, `MaxEvents = 2`, `MaxFaults = 0` | `CurrentIsTaken` without its exception | The issue, with its assignees, is read before its timeline: an assignment between the two is recorded as ignored and never looked at again (bridge.py:1430). |
| same second | `Requests`; `Kinds = {"assignment"}`, `Ties = TRUE`, `MaxEvents = 3`, `MaxFaults = 0` | `CancelsOlder` | A withdrawal and the assignment that follows it carry the same second: starts are sorted first, and the withdrawal stops the replacement. `WithdrawalIsOlder` shows that this is the only way. |
| lost cancel | `Requests`; `Kinds = {"assignment"}`, `MayReopen = FALSE`, `MaxEvents = 2`, `MaxFaults = 1`, `FairSpec` | `WithdrawnIsStopped` | The start fails between its prompt and its mapping, and the bot is unassigned: the withdrawal is looked at while nothing is mapped, is ignored for good, and the agent goes on (bridge.py:1480). Without a fault it holds. |
| reopened port | `Ports`; `Conns = {c1}`, `Ports = {p1}`, `MaxPorts = 1`, `MaxRuns = 1`, `MaxChanges = 2` | `TokenKept` | A server ends with a client connected: the reader waits for the listener to close, which waits for the client, reads no heartbeat for five seconds, and the runtime is torn down with its tokens (manager.py:748). |
| open connection | the same; `MaxChanges = 1` | `StopKills` | `/stop` awaits the closing of the listeners before it cuts their connections: a connection neither side ends keeps the sandbox alive, and the calls in it waiting (manager.py:681-696). In `Teardown` the same is `CallsAnswered` without `held`. |

## Proofs

Eight modules prove theorems for all values of the constants. Each has one or more inductive
invariants, and the properties follow from them; TLC checked the invariants,
as invariants of small instances, before they were proved. The runs state those
properties of the theorems that a mutant of the code can break; types, and the
other theorems' statements (`MappingGoesOn`, `SettledStays`, `ShownHasServer`, `PortLimit`,
`TokensStay`, `AnsweredOnce`, `OverMeansOver`, `CommandsHaveSlots`, `NoCreditRefused`,
`PausedQuiet`, `CommentsGivenOnce`, the invariants of `PreviewMcp` and `PreviewStreams`), are left to
the proofs. Every safety property that a run checks is stated by a theorem, some of them under a
condition on the constants; the progress properties are not ("Only model-checked").

### The bridge

`BridgeProofs` proves, for any finite set of events and any subjects, tasks, edits and
faults, under the assumptions `StoreAssumption`, `FeedbackAssumption`,
`UpkeepAssumption` and `BridgeAssumption` (TLC evaluates them in every run):

* `TypeCorrect`: `Spec => []TypeOK`.
* `PromptsFinal`: `Spec => PromptsAreFinal`. No message of a delivery is ever
  sent again with another text.
* `DeliveredPosted`: `Spec => DeliveredWasPosted`. No delivery is recorded as
  delivered unless OpenCode has its message or its session was deleted.

The inductive invariant is `IInv == TypeOK /\ EventsKnown /\ DispatchInv`.

* `TypeOK` alone is not inductive: what `refresh_event` writes to `evAction` is
  what GitHub says, so it has to be known that the run works only on events that
  were posted. That is `EventsKnown`, which follows the events through `todo`,
  `ctx`, the rows and the links (`KnownStays`, `KnownStep`).
* `Control` ties `pc` to the delivery in progress: labels of `dispatch_pending`
  have a delivery, no other label has one, and a sealed delivery has text to
  send. Its lemma for `SelectContexts` needs that a non-empty set of numbers has
  a least element (`FirstExists`, from well-founded induction on the naturals).
* `Waiting` says that what is queued or taken has not been delivered before, so
  that an exception cannot put a delivery back to `delivered`.
* `Message` is the heart: between `message_exists` and the prompt the delivery in
  progress has no message, and at its end it has one. It is kept because only
  `PostPrompt` gives a delivery a message (`OnlyPosts`), because its session
  stays the same or is deleted (`TargetStays`), and because a message goes only
  with its session (`SessionsStay`).

The step lemmas go by groups of variables (database, world, run, command line)
and, within each, by groups of actions. The two action theorems then follow
from `OnlyPosts` and `OnlyFinalizes`: the one step that could break them is
`PostPrompt`, resp. `Finalize`, and `Message` excludes it.

The other theorems of the bridge are about what holds between tables, and between
tables and OpenCode. Most hold only where the environment leaves something out, and "What the
code does not keep" has, where one is known, the behaviour that a condition excludes; two need no condition, because
their property names its exception. The conditions are:
`CanOverflow = FALSE` (feedback fits its prompt, so no batch is split), `Deletable = {}`
(nobody runs `delete-session`), and of the controller `NoLateCancels` (no comment becomes a cancel
after it was posted), `NoRestarts` (none is withdrawn, or becomes a start), `OnlyContinues` (none
becomes anything but a continue) and `NoCancels` (in addition none is a cancel). Faults, kills,
registrations, persons who prompt a session, and the number of everything are unrestricted.

| theorem | property | conditions | excluded |
|---|---|---|---|
| `CollectedAreQuiet` | `CollectedIsQuiet` | `CanOverflow = FALSE` | none known: the argument needs that no row of another session is reopened (the instance of *wrong session* keeps it with `CanOverflow = TRUE` too) |
| `CancelsWithdraw` | `CancelWithdraws` | `CanOverflow = FALSE`, `NoLateCancels` | wrong session, cancelled batch |
| `PausedQuiet` | `PausedStaysQuiet` | the same | cancelled batch |
| `MappedPrompted` | `MappedWasPrompted` | `Deletable = {}`, `NoRestarts` | edited and deleted |
| `DiscardsUnprompted` | `DiscardOnlyUnprompted` | none | |
| `PostedSealed` | `PostedIsSealed` | none | |
| `QueuedCarried` | `QueuedIsCarried` | `Deletable = {}`, `OnlyContinues`, `CanOverflow = FALSE` | lost link, deleted meanwhile |
| `DeliveredReached` | `DeliveredReachedAgent` | the same | false delivered |
| `CommentsGivenOnce` | comments are given to an agent once | `Deletable = {}`, `NoCancels` | |
| `TextPostedOnce` | `PromptedOnce` | `Deletable = {}`, `OnlyContinues`, `CanOverflow = FALSE` | |
| `SubjectsInOrder` | `SubjectOrder` | `Deletable = {}`, `NoRestarts`; comments start nothing (`NoStarts`), or neither they nor the heads of their subjects change (`Unmoved`) | passed over |

Each invariant is added to those before it:

* `QuietInv` (for `CollectedAreQuiet`): `Whole` says that a batch is not split; `Aware` ties the labels at which feedback is
  queued or a workspace collected to the state of the task read before, and says that `queue`,
  the list of the dispatch loop, still names live deliveries.
* `PauseInv`: `Sincere` follows what GitHub says through `carried`, `ctx` and `todo`, so that a
  cancel is never taken for feedback; hence the task of a delivery in progress is not
  paused (`Unpaused`).
* `StartInv` is the heart of `start_task`: a session with its first prompt has
  the title of the command the event still has (`Begun`), so that every later attempt
  finds it; a mapping, or the row of a delivery, names such a session only (`Mapped`); and where the run
  is in `start_task` says what it knows of session and prompt (`Starting`). `Asked` and `Gathered` keep
  feedback and starts apart, `Between` and `InHand` follow the event in hand.
* `FeedInv`: without withdrawals a dispatch has nothing to drop (`Fed`, `Steady`), every delivery has a
  session that has its prompt (`Rows`, `Target`), and that session exists (`Attended`).
* `FoundUnprompted` (for `DiscardsUnprompted`): the session found under the command in hand has no prompt until
  the step that makes it; one that had would have been adopted.
* `SealKnown` (for `PostedSealed`): what is posted was sealed in this run or before, and what is finalized
  still has the state it was taken with, or no row.
* `SealInv` (for `CommentsGivenOnce`, without cancels): a message belongs to the session and the row it was sent for, which
  is sealed (`Sealed`), and the run knows that (`Marked`).
* `CarryInv`: a row goes with the link to its own event (`Rooted`), which a move out of
  a batch that is too long would break ("lost link"); what a delivered row links is delivered (`Done`); and what `continue_task`
  has just queued is linked to a live row before the event is marked (`JustQueued`).
* `ReachInv`: the message of a sealed delivery has all that the delivery links (`Filled`). It is kept
  because nothing joins a sealed delivery (`SealKnown`), because what is linked while the prompt is made is still
  in `todo` or in `ctx` (`Batch`), and because a delivery that is finalized without being sealed was
  taken open (`Ended`), which is the exception of the property. `Answered` says the same of starts and cancels.
* `OwnText`: a comment is linked by the delivery named after it and by no other, so a second
  delivery or batch cannot have its text. For reviews, which share deliveries, it is false, and the text of one may be
  posted again: `Texts` says that what is posted stays linked, so a review that was given before is
  linked by another delivery (`Shared`), or by this one to another session (`BroughtBack`).
* `Waits` and `InOrder`: what is pending and was passed in this run comes before what is in hand and to come (`Before`), and
  either has its subject or session in `blockedSub` and `blockedSess` (`Blocked`), or is a review that may wait
  (`Passable`; `Reviewed` says that a review is started only while its pull request has no session). A failure puts
  the subject into `blockedSub` and `blockedSess`; so what is in hand is the first of its subject. The one way out of a turn that
  neither settles an event nor blocks its subject is `DiscardWorkspace`; `Startless` and `Settling` show
  in two cases that no comment takes it.

`CarriedSteps`, `MappingSteps`, `StateComes`, `ActionComes`, `TextSteps` and `PhaseSteps` say which
actions change each table and each local, and how; with them each of the invariants is disturbed by a
few actions only.

`BridgePollProofs` proves, for any items, subjects, edits, failures and kills, under
`PollAssumption`:

* `PollTypes`, and `SettledStays`: what is settled is not looked at again.
* `CursorIsSafe`: `Spec => []NothingSkipped`.
* `GraceSuffices`: `ASSUME Delay + ScanTime <= Grace PROVE Spec => FreshIsTaken`. This is the
  exact condition under which the five minutes of the code are enough: with
  one minute more of delay TLC finds a command that is taken for history ("late notice" above).

`IInv == Types /\ PollTypeOK /\ Ageless /\ Scanned /\ NothingSkipped /\ Baselined`. `Scanned` is
why the cursor may be stored: an item of the fetched notifications that is not yet recorded is
in a subject still to be read, or on the page that is being read, or the poll has failed,
in which case the label `cursor` is not reached. An edit between two reads is the
reason for `page` in it. `Timely` is the clock: what is not notified of is no older than `Delay`, what
is notified of and not fetched no older than `Delay` and the time of this poll. It is
needed at `time`, where an unread item must have been posted no more than the grace before.

`BridgeTriggersProofs` proves, for any timeline and any number of faults:

* `TriggersTypes`: only what was asked for has a task or a session.
* `CurrentAreTaken`: `Spec => CurrentIsTaken`, for assignments and review requests; its one exception is an assignment
  that falls between the reads of the issue and of its timeline ("stale assignees").
* `WithdrawalIsOlder`: `ASSUME ~Ties PROVE Spec => CancelsOlder`, and `MappingGoesOn` under the same
  assumption: the subject is never mapped back to a task older than the last that was
  delivered.

For review requests `CurrentAreTaken` rests on the order of the reads: an event that is current, and among
those read, was current when the reviewers were read after them (`Heard`), because a request that ended is
made again only by a later event (`CurrentGrows`). The other argument: the scan looks at events in the order of the timeline (`Prefix`); so what becomes
pending later is later; the run takes what is pending from the first of
`pending_events`, which is the oldest when seconds tell events apart (`Clock`, `FirstIsOldest`), and
leaves nothing older behind (`Oldest`); hence nothing older than the mapped event is
pending, and a withdrawal that is pending is later than what it would stop.

`BridgeInboxProofs` proves, for any callers, calls, time-outs, kills and crashes of OpenCode:

* `InboxTypes`; `SuccessIsDone`: `Spec => []OkIsDone`; `ReturnedIsNotBegun`: `Spec => OverIsNotBegun`;
  `InOrder`: `Spec => CallsInOrder`.

Order is the part that needs strengthening. A run lists the requests once and
takes them from the oldest; `Sorted` says that whatever precedes a listed request in its
conversation and is still there is listed too, which holds because a caller makes
one call at a time and returns only when its request is gone (`OneAtATime`, `OverIsGone`), so
nothing older appears after the listing. `NothingBefore` carries this over a kill: before
an operation that was carried out nothing of the conversation is left to carry out.

### The previews

`PreviewManagerProofs` proves, for any finite set of shell calls, any stop requests,
sessions, workspaces, limit and failing teardowns, under `ManagerAssumption` and
`LeaseAssumption`:

* `ManagerTypeCorrect`: `Spec => []ManagerTypeOK`.
* `Leased`: `Spec => ImplementsLeases`. The manager implements `WorkspaceLeases`.
* `OrphansNever`: `Spec => []NoOrphans`. Every process is where a teardown finds it.
* `CloseIsComplete`: `Spec => []ClosedIsEmpty`.
* `EvictionIsSafe`: `Spec => EvictsOnlyEmpty`.

Its inductive invariant is the type invariant with seven parts, each needed for the
next.

* `LockHeld`: a handler between taking and releasing the lock is its holder. Hence
  (`Exclusive`) nobody else creates or evicts meanwhile.
* `OneRuntime`: registered runtimes have different workspaces, and the workspace for
  which room is made has none. The code does not look for an owner again after
  awaiting the eviction (manager.py:527-535), only for its hostname; the lock is why
  it need not.
* `Room`: the limit holds, and an evicted place is still free when the evictor
  goes on, for the same reason.
* `TeardownOrder`: only registered runtimes are torn down; a launch that has not
  settled belongs to one whose teardown still waits for it; and while the cgroup is
  emptied the launcher is dead, so that nothing enters it again.
* `NoOrphans` follows from that order: a runtime is forgotten when its cgroup is empty and
  its launcher is dead, and no launcher can come later.
* `CloseWaits`: while `close` waits it waits for all runtimes that are left. It is kept
  because nothing is created once `closing` is set, not even by a handler that
  evicted before (the second test of `closing`, in `MayCreate`).
* `QuietIsEmpty`: a heartbeat that found nothing is dropped when a call ends, and so
  nothing that a call left behind is counted as idle; nor is a runtime with a client, as it has a port.

For the refinement, `Ownership` says what the mapping's `CHOOSE` picks (by `OneRuntime`),
`OwnWork` that only the owner works in a workspace (by `NoOrphans`), and
`LeasedAreFew` that there are no more leases than runtimes (a surjection). Then
`Create` is `Lease`, `StopDone` is `Release`, what starts or ends processes is `Work`
or nothing, and every other step changes none of it.

`PreviewConnectionsProofs` proves of ports, for any clients, ports, limit, number of runtimes and changes:

* `LinksAreKept`: `Spec => ReachesWhatItOpened`; `GoneCloses`: `Spec => []GoneIsClosed`;
  `ShownHasServer`, `PortLimit`, `TokensStay` and `PortsTypes`.

`IInv == Types /\ PortsTypeOK /\ Current /\ Links /\ Order /\ Counted /\ ShownIsServed`. `Links` says
that no mapping that exists has the token of a link to something else; it is kept
because tokens are drawn anew (`issued`) and mappings change neither runtime nor
port (`Current`). What the gateway has looked up may be stale when it connects; the path
it opens is then gone or, as `Links` has it, of the runtime it looked up. `Order` follows the teardown:
no connection is accepted after the listeners are closed, none is left after they are gathered.

Of streams it proves, under `StreamsAssumption`, for any connections, windows and amounts of data:

* `CreditsHold`: `StreamsSpec => []CreditsAgree`. No acknowledgement is ever taken for invalid, and the
  supervisor's buffer keeps its bound.
* `EndsAreComplete`: `StreamsSpec => []ToldHasAll`. Who is told the end has all the data.
* `StreamsInvariance`: the invariant they follow from.

`StreamsInv` follows one connection through both pipes. `Attached` says who has a channel, and that
who lost it by an overflow has the error first in its queue; `Opening`, that a connection's connect is its first frame and there
is one; `Window`, that data is on its way only when all sent before is
acknowledged, which is why the manager's count of what is pending and the supervisor's buffer
cannot drift apart; `Uploaded` and `Carried` count what each side has sent and got. The order at the end is
stated over the concatenation of a connection's queue, the frame in the reader's hand and the pipe
(`Total`, `Comes`), which a step of the reader leaves as it is: behind an end comes no data
(`EndLast`), and before a `closed` there was an end or an error (`ClosedLast`).

`PreviewExecProofs` proves, under `ExecAssumption`, for any calls, queue and limits:

* `OutputComplete`: `Spec => []OutputBeforeExit`; `IdleRuntimes`: `Spec => []IdleIsEmpty`.
* `CommandsHaveSlots`: what the supervisor runs has a slot of the manager; `NoCreditRefused`: no credit that
  arrives exceeds the window; `ExecTypes`.

`Complete` says where all that a command has written until its exit was noticed is (with the caller, in its queue, in hand, in
the pipe, in what is `Queued` of the command's own pipes); `ExitLast` that nothing comes behind an exit. `Window` counts credits: what the
supervisor holds, what is on its way, and one for each chunk between it and the caller are together
at most `QUEUE_SIZE - 1`. For its sums `Count` counts a frame in a pipe, with lemmas for appending and taking.
A call's frames arrive in order, its exec first (`Unsent`, `OnItsWay`, `ExecFirst`), so that a command belongs to a
call that is counted in `active_execs` until the exit is read (`Slots`). `Heartbeat` is the argument for `IdleIsEmpty`: after
a heartbeat that found nothing, whatever has left processes behind has an exit yet to come, and reading that
exit makes the heartbeat stale.

`PreviewBrowserProofs` proves of the frontend, for any IDs, limit and agent:

* `NothingLate`: `FrontendSpec => NoLateAnswer`; `AnsweredOnce`: no ID is answered more often than it was
  asked; `OverMeansOver`: the end finds no task and nobody with the output; `FrontendTypes`.

`IInv == Types /\ FrontendTypeOK /\ Queue /\ Owed /\ Apart`. Each who waits for the output lock waits once,
has an answer to send, and does not hold it (`Queue`); whoever is to answer is owed one by an
ID that has been asked more often than answered (`Owed`); the reader answers itself only
for an ID without a task (`Apart`). The lemmas `ReaderAnswers`, `ReaderLeaves` and `TaskLeaves` say what
each does to the queue, in which a cancelled task may stand anywhere.

Of browser requests it proves, under `McpAssumption`, for any calls, engines and sizes of answers:

* `AdmittedAreServed`: `Spec => []AdmittedIsServed`; `CapturedAreWritten`: `Spec => []CapturedIsWritten`;
  `CancelsAreOwn`: `Spec => []CancelsOnlyOwn`; and `McpInvariance`, the invariant.

`OneAtATime` is the core of `McpInv`: the active request of the manager is at one place on its way there and back, in the
pipe to the supervisor, in the child, or as one ending in the output or the pipe back; so where a request arrives, the child
is free. `Admitted` and `Heard` put what waits for the write lock before that and what was read after it.
`CancelledLeft` says that wherever a cancel or its answer is, its caller has no channel any more, and `Awaited` that the
barrier of a retirement is behind every answer that retires.

### Only model-checked

* Liveness and fairness are out of the prover's reach, `ENABLED` with them: `EventsSettle`,
  `DeliveriesSettle` and the other progress properties stay with TLC.
* The bridge's properties with edits into other commands, overflow or `delete-session`, as far as the table above excludes
  them: TLC checks them on the instances of the runs.

## Limits of the model

The bridge:

* Repository renames, and with them the second title of `start_task`
  (bridge.py:2256-2263), are left out; so is a second session in a workspace.
* After a prompted session was left behind under another title, a mapping to it
  is not told apart from a mapping to the session that replaced it.
* Text is modelled only as the set of events a prompt carries; that the length of
  a prompt is at most 32768 characters is a nondeterministic choice
  (`CanOverflow`).
* In `Bridge`, ties in `created_at` (whole seconds) are broken by insertion. `BridgeTriggers` has
  ties.
* The specifications of the bridge are not composed into one: `Bridge` discovers any subset of what is posted
  in each run, `BridgePoll` and `BridgeTriggers` say which; a request that registers a pull
  request is one step of `Bridge` and a file with its life in `BridgeInbox`.
* `BridgePoll`: GitHub's `Last-Modified` is exact and always sent, and one page holds all
  comments of a subject. Notifications are never marked as read by others. That an event's subject is closed or the
  comment deleted is content `none`.
* `BridgeTriggers`: the start of a task takes the state of the subject and its timeline in one
  step, although they are two requests.
* `BridgeInbox`: what parallel calls of one conversation may expect of their order is not
  stated: the code promises none. A plugin killed between the temporary file and its rename
  leaves a file the model does not have. Aborting a call whose request is being handled does
  not undo it; the model has that, and no property forbids it.

The previews:

* Request bodies, directories and identities are reduced to which session and
  workspace a call names and whether a runtime is valid.
* `PreviewManager` has no clients of listeners after the teardown has closed them; whether one may still be accepted
  then is in `PreviewPorts`. That a client holds a teardown up is in both and in `PreviewExec`.
* Shell calls, browser requests, ports and connections are four uses of a runtime in four modules. What they
  share in it is in each of them (the pipes, the write lock, the queue bound) or in none (the
  limit of the supervisor's output buffer, 8 MiB over all of them).
* `PreviewStreams`: the runtime is not stopped; `PreviewPorts` has the connections' end by a teardown.
* `Closed` (`Server.wait_closed`) is that of Python 3.12 and later, which waits for connections.
* `PreviewFrontend`: a reader that fails or is at its end stops at once.

## Not modelled

* *Preview client*: a sequential wrapper around one socket, without state of its own.
* *Preview gateway*, in part: cookies, origins, headers, the list of previews and the
  copying of HTTP bodies are transformations of data. What it remembers and when it looks it
  up is in `PreviewPorts`.
* *Manager and supervisor*, in part: the checks of request bodies and directories, hostnames, the creation of
  cgroups, the scan of `/proc` for ports and the buffer limits.
* *Preview launcher*, in part: the checks of its arguments and its file descriptors.
* *Bridge*, in part: HTTP, pages and rate limits of GitHub; the validation of a managed
  request; what `manage_github_remote` and the workspace scripts do in Git; subjects' texts.
* *Sandbox runtime patches, host configuration, tool packages*: policy generation, declarative
  configuration and builds. Nothing in them changes over time.

## Plan

What remains, in order:

1. Weaker conditions for the theorems of the bridge: `DeliveredReachedAgent` and `PromptedOnce` with edits that withdraw
   feedback, `MappedWasPrompted` with edits into other commands.
2. `TaskLimit` without kills, as a property of a run and as a theorem.
3. An abstract specification of feedback (an event is waiting, prompted or withdrawn) with
   `Bridge` as its implementation.
4. The supervisor's output buffer as a resource that shell calls, browser requests and
   streams of one runtime share.
