-------------------------- MODULE ContextAssembly --------------------------
(***************************************************************************)
(* What an agent of the office is given to read, and what it is told about  *)
(* its decision.  Blocks of text are ordered by authority and by the        *)
(* priorities of the role, and each class of authority has a budget of      *)
(* characters of its own.  A text is its length; none is 0.                 *)
(***************************************************************************)
EXTENDS OfficeApi

CONSTANTS Roles,     \* of chief-of-staff, architect, developer, reviewer, qa-engineer
          Given,     \* inputs: texts, lessons, skills, memories, objective
          Budget,    \* class of authority -> characters
          MinRoom,   \* a block is cut only when more is left (100)
          Suffix     \* characters of the mark a cut block ends with (26)

ASSUME BudgetAssumption ==
  /\ MinRoom \in Nat /\ Suffix \in Nat
  /\ \A class \in {"CURRENT", "GOVERNED", "HISTORICAL"} : Budget[class] \in Nat

VARIABLES desk,      \* what the last assembly was given and returned
          decision   \* the decision context built from it

deskVars == <<desk, decision>>

Nothing == [pc |-> "idle"]

ContextInit == Init /\ desk = Nothing /\ decision = Nothing

\* The sources of a role, most important first.
RoleOrder ==
  [role \in Roles |->
     (CASE role = "chief-of-staff" -> <<"CEO", "TASK", "RUNTIME", "SECURITY", "REVIEW", "QA", "DEPENDENCY">>
        [] role = "architect"      -> <<"TASK", "RUNTIME", "SECURITY", "REVIEW", "DEPENDENCY", "CEO", "QA">>
        [] role = "developer"      -> <<"TASK", "RUNTIME", "REVIEW", "QA", "SECURITY", "DEPENDENCY", "CEO">>
        [] role = "reviewer"       -> <<"TASK", "REVIEW", "SECURITY", "RUNTIME", "QA", "DEPENDENCY", "CEO">>
        [] role = "qa-engineer"    -> <<"TASK", "QA", "RUNTIME", "REVIEW", "DEPENDENCY", "SECURITY", "CEO">>)
     \o <<"LESSONS", "SKILLS", "MEMORIES">>]

Authority(source) ==
  IF source \in {"LESSONS", "SKILLS"} THEN "GOVERNED" ELSE IF source = "MEMORIES" THEN "HISTORICAL" ELSE "CURRENT"

\* Active items of the tenant of the task.
Usable(items) == {i \in items : i.status = "ACTIVE" /\ i.own}

TextOf(items) == FoldSet(LAMBDA i, n : i.size + n, 0, Usable(items))

SizeOf(given, source) ==
  CASE source = "LESSONS"  -> TextOf(given.lessons)
    [] source = "SKILLS"   -> TextOf(given.skills)
    [] source = "MEMORIES" -> TextOf(given.memories)
    [] OTHER -> IF source \in DOMAIN given.texts THEN given.texts[source] ELSE 0

\* One block for every source with a text, in the order in which the budget is spent.
Blocks(role, given) ==
  LET present == SelectSeq(RoleOrder[role], LAMBDA s : SizeOf(given, s) > 0)
  IN  [k \in DOMAIN present |-> [source |-> present[k], size |-> SizeOf(given, present[k]), cut |-> FALSE]]

Used(kept, class) ==
  FoldSeq(LAMBDA b, n : IF Authority(b.source) = class THEN b.size + n ELSE n, 0, kept)

\* A block goes in whole if it fits, cut if there is room enough, or not at all; a
\* smaller one after it may still fit.
Admit(kept, block) ==
  LET room == Budget[Authority(block.source)] - Used(kept, Authority(block.source))
  IN  CASE block.size <= room -> Append(kept, block)
        [] block.size > room /\ room > MinRoom -> Append(kept, [block EXCEPT !.size = room + Suffix, !.cut = TRUE])
        [] OTHER -> kept

Assembled(role, given) == FoldLeft(Admit, <<>>, Blocks(role, given))

KeptOf(class) == SelectSeq(desk.kept, LAMBDA b : Authority(b.source) = class)

\* assembleContext()
AssembleContext(role, given) ==
  /\ Request({"context"})
  /\ desk' = [pc |-> "assembled", role |-> role, given |-> given, kept |-> Assembled(role, given)]
  /\ decision' = Nothing
  /\ UNCHANGED <<workload, mem, bus, work, faults>>

\* Where the statement of the objective comes from.
ObjectiveSource ==
  CASE desk.role = "chief-of-staff" /\ SizeOf(desk.given, "CEO") > 0 -> "CEO_DIRECTIVE"
    [] desk.given.objective \/ SizeOf(desk.given, "TASK") > 0 -> "TASK_INSTRUCTION"
    [] OTHER -> "UNKNOWN"

\* Mutant: an objective is enough.
Confidence_NoEvidence == IF ObjectiveSource = "UNKNOWN" THEN "LOW" ELSE "HIGH"

Confidence ==
  CASE ObjectiveSource = "UNKNOWN" \/ desk.kept = <<>> -> "LOW"
    [] ObjectiveSource # "UNKNOWN" /\ KeptOf("CURRENT") # <<>> -> "HIGH"
    [] OTHER -> "MEDIUM"

NextAction(role) ==
  CASE role \in {"chief-of-staff", "architect"} -> "INSPECT"
    [] role = "reviewer" -> "REVIEW"
    [] role = "qa-engineer" -> "TEST"
    [] OTHER -> "IMPLEMENT"

MayApprove(role) == role = "reviewer"

\* buildDecisionContext(): advice only, nothing is carried out.
BuildDecision(flagged, iteration) ==
  /\ desk.pc = "assembled" /\ desk' = [desk EXCEPT !.pc = "decided"]
  /\ decision' = [pc |-> "built", confidence |-> Confidence, objective |-> ObjectiveSource,
                  evidence |-> {desk.kept[k].source : k \in DOMAIN desk.kept},
                  next |-> NextAction(desk.role), mayApprove |-> MayApprove(desk.role),
                  approval |-> flagged, blocked |-> iteration >= MaxReviewIterations]
  /\ UNCHANGED vars

ContextNext ==
  \/ \E role \in Roles, given \in Given : AssembleContext(role, given)
  \/ \E flagged \in BOOLEAN, n \in 0..MaxReviewIterations : BuildDecision(flagged, n)

-----------------------------------------------------------------------------
(* Properties *)

\* No class overruns its budget by more than the mark of one cut block, and nothing
\* of a class is left out before the room is nearly gone, whatever the sizes and the
\* order of the role (the budget loop of assembleContext).
BudgetIsKept ==
  desk # Nothing =>
    \A class \in DOMAIN Budget :
      LET wanted == SelectSeq(Blocks(desk.role, desk.given), LAMBDA b : Authority(b.source) = class)
      IN  /\ Used(desk.kept, class) <= Budget[class] + Suffix
          /\ Len(KeptOf(class)) < Len(wanted) => Used(desk.kept, class) >= Budget[class] - MinRoom
          /\ Cardinality({k \in DOMAIN desk.kept : desk.kept[k].cut /\ Authority(desk.kept[k].source) = class}) <= 1

\* What an agent reads is what it would read if the items of other tenants and the
\* retired ones did not exist: they neither appear nor take room from others (the
\* filters of assembleContext).
OthersDoNotCount ==
  desk # Nothing =>
    LET mine(items) == {i \in items : i.own /\ i.status = "ACTIVE"}
    IN  desk.kept = Assembled(desk.role, [desk.given EXCEPT !.lessons = mine(@), !.skills = mine(@), !.memories = mine(@)])

\* A decision is called certain only on current evidence, and with an instruction
\* in force it always is: however much history, lessons and long texts come along,
\* the first current source of the role is read (assembleContext before
\* buildDecisionContext).
CertainOnCurrentEvidence ==
  decision # Nothing =>
    LET current == {s \in decision.evidence : Authority(s) = "CURRENT"}
        first == SelectSeq(Blocks(desk.role, desk.given), LAMBDA b : Authority(b.source) = "CURRENT")
    IN  /\ decision.confidence = "HIGH" => current # {}
        /\ (SizeOf(desk.given, "TASK") > 0 /\ \A class \in DOMAIN Budget : Budget[class] > MinRoom) =>
             decision.confidence = "HIGH" /\ first[1].source \in current

\* What an agent is given to read and to decide on is sound: within its budget, its own, and certain only
\* about what current evidence supports.
BriefingIsSound == BudgetIsKept /\ OthersDoNotCount /\ CertainOnCurrentEvidence
=============================================================================
