----------------------------- MODULE MCOffice ------------------------------
(* Two isolates, one of which can execute, one stream and one conversation;  *)
(* one server of the PDL API with one browser; two processes with letters;   *)
(* three roles at their desks.                                               *)
EXTENDS OfficeSystem

MCPipelines == {<<[deps |-> {}, chk |-> FALSE], [deps |-> {1}, chk |-> TRUE]>>,
                <<[deps |-> {2}, chk |-> FALSE], [deps |-> {1}, chk |-> FALSE]>>,
                <<[deps |-> {}, chk |-> TRUE], [deps |-> {1, 3}, chk |-> FALSE]>>}
MCPlans == {[deps |-> <<>>, agents |-> <<>>],
            [deps |-> <<{}, {1}>>, agents |-> <<"ceo", "developer">>]}
MCMaxRequests == [pipelines |-> 5, approvals |-> 3, events |-> 2, tasks |-> 3, commands |-> 3,
                  browsers |-> 3, intakes |-> 3, boards |-> 5, letters |-> 5, context |-> 1]
MCMaxEvents == [pipelines |-> 0, approvals |-> 6, events |-> 3, tasks |-> 0, commands |-> 4,
                browsers |-> 0, intakes |-> 0, boards |-> 0, letters |-> 0, context |-> 0]
MCMessages == {{"vague"}, {"inquiry", "QUESTION"}, {"imperative", "FEATURE", "production"}}
MCPromotions == {[id |-> "p", session |-> "s", branch |-> "feature", authorized |-> TRUE],
                 [id |-> "q", session |-> "t", branch |-> "main", authorized |-> FALSE]}

MCBudget == [CURRENT |-> 400, GOVERNED |-> 200, HISTORICAL |-> 150]
MCItem(status, own) == [status |-> status, own |-> own, size |-> 120]
MCNew == MCItem("ACTIVE", TRUE)
MCForeign == MCItem("ACTIVE", FALSE)
MCStored == {<<{}, {}, {}>>, <<{MCNew, MCForeign}, {MCNew}, {}>>, <<{MCNew}, {MCItem("SUPERSEDED", TRUE)}, {MCForeign}>>,
             <<{MCForeign}, {MCNew, MCForeign}, {MCNew}>>}
MCGiven == {[texts |-> [CEO |-> c, TASK |-> t, QA |-> q], lessons |-> st[1], skills |-> st[2], memories |-> st[3],
             objective |-> o] : c \in {0, 280}, t \in {0, 90, 450}, q \in {0, 90, 280}, st \in MCStored, o \in BOOLEAN}
=============================================================================
