------------------------ MODULE BridgePollProperties -------------------------
(* What polling promises. *)
EXTENDS BridgePoll

\* The state has its types; a poll at rest has no locals, items the bridge has
\* not recorded are not yet older than the time they were seen at.
PollTypeOK ==
  /\ content \in [Items -> Contents] /\ evState \in [Items -> States]
  /\ notified \subseteq Posted /\ fresh \subseteq Posted \ ancient
  /\ \A i \in Items : gap[i] <= age[i] /\ age[i] <= Grace + 1
  /\ (\A S \in cursor : S \subseteq notified) /\ fetched \subseteq notified
  /\ \A i \in Items : page[i] # "unposted" => subject = SubjectOf[i]
  /\ pc = "rest" => took = 0 /\ todo = {} /\ subject = NoSubject

\* The cursor passes over nothing: whatever GitHub had notified of when the
\* notifications were fetched is recorded before a poll may answer that nothing
\* changed, although subjects fail, the run is killed between any two steps and
\* GitHub goes on meanwhile ("test_notification_cursor_does_not_advance_after_
\* partial_failure", tests/github-bridge/test_bridge.py:690).
NothingSkipped == \A S \in cursor : \A i \in S : evState[i] # "unseen"

\* "fresh commands are not mistaken for historical activity" (README.md:933-935):
\* what is posted after the initial baseline never becomes history.
FreshIsTaken == \A i \in fresh : evState[i] # "baseline"

\* "Older previously unseen events remain baselined" (README.md:935): what was
\* there before the bridge, and was not edited since, is never acted on, however
\* late its subject turns up among the notifications.
HistoryStays ==
  \A i \in ancient \ edited : evState[i] \in {"unseen", "baseline"}

\* "events observed as dry-run are not replayed after activation" (README.md:
\* 1008-1009), nor is anything else that is settled, whatever it is edited to.
FinalStays ==
  [][\A i \in Items : evState[i] \in Final => evState'[i] = evState[i]]_vars

\* Every command the controller posts after the baseline, and leaves as it is,
\* is acted on in the end.
CommandsRun ==
  \A i \in Authorized :
    i \in fresh \ edited /\ content[i] = "command"
      ~> evState[i] \in {"delivered", "dry-run"} \/ i \in edited
=============================================================================
