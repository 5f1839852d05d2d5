------------------------------ MODULE MCBridge -------------------------------
(* Small instances of Bridge: an issue, and a pull request made for it.    *)
EXTENDS BridgeProperties

issue == "issue"
pr    == "pr"

MCSubjects     == {issue, pr}
MCPullRequests == {pr}

\* A task that was started earlier (event 0) for the issue, and made the PR.
Mapped == [s \in MCSubjects |-> 0]
Unmapped == [s \in MCSubjects |-> NoTask]
\* The same, and the pull request is not registered.
HalfMapped == [s \in MCSubjects |-> IF s = issue THEN 0 ELSE NoTask]

OnPr      == [e \in Events |-> pr]
OnIssue   == [e \in Events |-> issue]
Split     == [e \in Events |-> IF e \in Reviews THEN pr ELSE issue]

\* Bounds of Starts.  A person goes on only in a session the bridge has prompted,
\* while its task is at work or when it got feedback, and commits all work.
Orderly ==
  \A t \in Tasks :
    /\ workspace[t] # "dirty"
    /\ sess[t] = "busy" =>
         \/ t \in startMsg /\ taskState[t] \in ActiveStates \cup {"none", "paused"}
         \/ \E d \in Events : contMsg[t][d] # {}

\* Bounds of Feedback.  No subject is ever without a session there, so the age
\* of a review decides nothing; and the pull request changes hands once.
OneRegistration ==
  aged = {} /\ \A t \in Manual : taskState[t] # "none" => mapping[pr] = t
=============================================================================
