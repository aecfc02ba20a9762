--------------------------- MODULE MCWorkstation ---------------------------
(* Small afternoons in the office.                                         *)
EXTENDS Workstation

MCAlbums == <<Feed, ShuffleDisc, "track-a", "track-b">>

Blank == [kind |-> "event", project |-> "p1", type |-> "none", actor |-> "none", target |-> "none",
          approval |-> "none", task |-> "none", status |-> "none"]

Says(type, actor, target) == [Blank EXCEPT !.type = type, !.actor = actor, !.target = target]
Asks(type, approval, project) == [Blank EXCEPT !.type = type, !.approval = approval, !.project = project]
Moves(task, status) == [Blank EXCEPT !.kind = "task", !.task = task, !.status = status]

Quiet ==
  [script |-> <<>>, start |-> "p1", switches |-> <<>>, newProject |-> "p2", panels |-> {}, piped |-> {"p1", "p2"},
   errors |-> 0, fails |-> 0, remounts |-> 0, acts |-> <<>>, steps |-> <<>>, command |-> "t3",
   asked |-> <<"developer", "chief-of-staff">>, prompt |-> {},
   owner |-> [t1 |-> "developer", t2 |-> "reviewer", t3 |-> "developer", l1 |-> "developer", l2 |-> "reviewer"],
   slots |-> 1, music |-> FALSE, isolates |-> {"i1"}, polls |-> 0,
   inserts |-> "fail", evictions |-> 0]

\* One isolate: approvals come and go while loads overlap, fail and are
\* answered late.
Approving ==
  [Quiet EXCEPT !.script = <<Asks("APPROVAL_REQUESTED", "a1", "p1"), Asks("APPROVAL_GRANTED", "a1", "p1")>>,
                !.errors = 1, !.fails = 1, !.slots = 2]

\* Two isolates, one of which is dropped: a request may be unknown where it is
\* decided, and loads are answered from different lists.
Spreading ==
  [Quiet EXCEPT !.script = <<Asks("APPROVAL_REQUESTED", "a1", "p1"), Asks("APPROVAL_REJECTED", "a1", "p1")>>,
                !.isolates = {"i1", "i2"}, !.inserts = "at once", !.polls = 1, !.evictions = 1]

\* Streams of two isolates that break: rows that are late or never come, and
\* SELECTs that overlap or fail.
Streaming ==
  [Quiet EXCEPT !.script = <<Says("TASK_UPDATED", "none", "none"), Says("TASK_UPDATED", "none", "none"),
                             Says("TASK_UPDATED", "none", "none")>>,
                !.isolates = {"i1", "i2"}, !.inserts = "late", !.polls = 1, !.errors = 1, !.fails = 1, !.slots = 0]

\* An isolate is dropped and numbers its events from one again.
Restarting ==
  [Streaming EXCEPT !.errors = 0, !.fails = 0, !.evictions = 1]

\* SELECTs of a stream overlap.
Overtaking == [Streaming EXCEPT !.polls = 2, !.errors = 0, !.fails = 0]

\* The user goes to another project and back while loads overlap.
Switching ==
  [Quiet EXCEPT !.script = <<Asks("APPROVAL_REQUESTED", "a1", "p1"), Asks("APPROVAL_GRANTED", "a1", "p1")>>,
                !.switches = <<"p2", "p1">>, !.slots = 2]

\* The same with a table from which the streams catch up.
Returning ==
  [Switching EXCEPT !.script = <<Asks("APPROVAL_REQUESTED", "a1", "p1")>>, !.inserts = "at once", !.polls = 1]

\* Home is left and shown again, and what was missed is read from the table.
Leaving ==
  [Quiet EXCEPT !.script = <<Says("OBJECTIVE_SUBMITTED", "ceo", "none"), Says("TASK_UPDATED", "none", "none"),
                             Says("TASK_UPDATED", "none", "none")>>,
                !.inserts = "at once", !.polls = 1, !.errors = 1, !.remounts = 1]

\* Panels of two projects, one of them just created.
Panelling ==
  [Quiet EXCEPT !.script = <<Asks("APPROVAL_REQUESTED", "a1", "p2")>>, !.acts = <<"create">>,
                !.panels = {"awareness", "pipelines"}, !.fails = 1]

\* Walks and talk.
Walking ==
  [Quiet EXCEPT !.script = <<Says("AGENT_HANDOFF", "chief-of-staff", "developer"), Says("REVIEW_FINDING", "reviewer", "developer"),
                             Says("MEETING_STARTED", "ceo", "none"), Says("REVIEW_APPROVED", "reviewer", "none")>>]

\* A meeting.
Meeting ==
  [Quiet EXCEPT !.script = <<Says("MEETING_STARTED", "ceo", "none"), Says("PLAN_FORMULATED", "chief-of-staff", "none"),
                             Says("STEP_DELEGATED", "chief-of-staff", "developer"), Says("MEETING_ENDED", "ceo", "none")>>, !.slots = 0]

\* A plan is executed while its tasks move on at the server.
Working ==
  [Quiet EXCEPT !.script = <<Moves("t1", "RUNNING"), Moves("t1", "COMPLETED")>>, !.acts = <<"all">>,
                !.steps = <<[agent |-> "developer", task |-> "t1", local |-> "l1"]>>]

\* A checkpoint is decided in the pause between two steps.
Pausing ==
  [Quiet EXCEPT !.acts = <<"all", "pipeline">>, !.slots = 0,
                !.steps = <<[agent |-> "developer", task |-> "t1", local |-> "l1"],
                            [agent |-> "developer", task |-> "t2", local |-> "l2"]>>]

\* A step and a command.
Commanding ==
  [Quiet EXCEPT !.acts = <<"step", "submit">>, !.fails = 1, !.slots = 0,
                !.steps = <<[agent |-> "developer", task |-> "t1", local |-> "l1"]>>]

\* A handoff to the employee at work.
Interrupting ==
  [Quiet EXCEPT !.script = <<Says("AGENT_HANDOFF", "chief-of-staff", "developer")>>, !.acts = <<"step">>,
                !.steps = <<[agent |-> "developer", task |-> "t1", local |-> "l1"]>>]

\* The chat, with chatter in the background.
Talking == [Quiet EXCEPT !.acts = <<"talk", "banter">>, !.fails = 1]

\* A subject on which everybody has the same words.
Gossiping == [Quiet EXCEPT !.acts = <<"talk">>, !.prompt = {"pool"}, !.fails = 1, !.slots = 0]

Listening == [Quiet EXCEPT !.music = TRUE]

MCScenarios ==
  {Approving, Spreading, Streaming, Restarting, Overtaking, Switching, Returning, Leaving, Panelling,
   Walking, Meeting, Working, Pausing, Commanding, Interrupting, Talking, Gossiping, Listening}

=============================================================================
