--------------------------- MODULE Attempt_proofs ---------------------------
(***************************************************************************)
(* What the attempts at a task guarantee, proved for any number of runs,   *)
(* providers and jobs: only clean commits are pushed, and only the work of *)
(* the attempt that won; what is reported complete is on the remote.       *)
(***************************************************************************)
EXTENDS Attempt, TLAPS

-----------------------------------------------------------------------------
(* Commits *)

Names == {"f", "c", "p", "z", "g"}
Paths == {PlainPath, AliasConfig, ProductPath, ZonePath}
Changes == [name : Names, shows : Paths, touches : SUBSET Paths, by : SUBSET (Runs \X Attempts)]
Commits == Seq(SUBSET Changes)

\* Change sets made by the authors in W alone, and change sets without a
\* protected path.
Own(W) == SUBSET {x \in Changes : x.by \subseteq W}
Clean == SUBSET {x \in Changes : TrustBoundaryAllows(x.touches)}

\* A sequence is one of whatever its elements are.
LEMMA SequenceOf ==
  ASSUME NEW S, NEW T, NEW s \in Seq(S), \A i \in 1 .. Len(s) : s[i] \in T
  PROVE  s \in Seq(T)
OBVIOUS

LEMMA SeqGrows ==
  ASSUME NEW S, NEW T, S \subseteq T
  PROVE  Seq(S) \subseteq Seq(T)
OBVIOUS

LEMMA PrefixAt ==
  ASSUME NEW S, NEW s \in Seq(S), NEW t \in Seq(S)
  PROVE  IsPrefix(s, t) <=> (Len(s) <= Len(t) /\ \A i \in 1 .. Len(s) : s[i] = t[i])
<1>1. ASSUME Len(s) <= Len(t)
      PROVE  /\ SubSeq(s, 1, Len(s)) = s
             /\ SubSeq(t, 1, Len(s)) \in Seq(S)
             /\ Len(SubSeq(t, 1, Len(s))) = Len(s)
             /\ \A i \in 1 .. Len(s) : SubSeq(t, 1, Len(s))[i] = t[i]
  BY <1>1
<1>2. ASSUME NEW u \in Seq(S), Len(u) = Len(s), \A i \in 1 .. Len(s) : u[i] = s[i]
      PROVE  u = s
  BY <1>2
<1> QED BY <1>1, <1>2 DEF IsPrefix

LEMMA PrefixReflexive ==
  ASSUME NEW S, NEW s \in Seq(S)
  PROVE  IsPrefix(s, s)
BY PrefixAt

LEMMA PrefixTransitive ==
  ASSUME NEW S, NEW s \in Seq(S), NEW t \in Seq(S), NEW u \in Seq(S),
         IsPrefix(s, t), IsPrefix(t, u)
  PROVE  IsPrefix(s, u)
<1>1. /\ Len(s) <= Len(t) /\ Len(t) <= Len(u)
      /\ Len(s) \in Nat /\ Len(t) \in Nat /\ Len(u) \in Nat
      /\ \A i \in 1 .. Len(s) : s[i] = t[i]
      /\ \A i \in 1 .. Len(t) : t[i] = u[i]
  BY PrefixAt
<1> QED BY <1>1, PrefixAt

\* More authors, more commits.
LEMMA OwnGrows ==
  ASSUME NEW V, NEW W, V \subseteq W
  PROVE  Own(V) \subseteq Own(W) /\ Seq(Own(V)) \subseteq Seq(Own(W))
<1>1. Own(V) \subseteq Own(W)
  BY DEF Own
<1> QED BY <1>1

\* The commits of others on the default branch change nothing here.
LEMMA MainIsHarmless ==
  ASSUME NEW W
  PROVE  Seq({{}}) \subseteq Seq(Own(W)) /\ Seq({{}}) \subseteq Seq(Clean) /\ Seq({{}}) \subseteq Commits
<1>1. {{}} \subseteq Own(W) /\ {{}} \subseteq Clean /\ {{}} \subseteq SUBSET Changes
  BY DEF Own, Clean
<1> QED BY <1>1, SeqGrows, Zenon DEF Commits

LEMMA ChangeTyped ==
  ASSUME NEW e \in DOMAIN Effects, NEW who \in Runs \X Attempts
  PROVE  Change(e, who) \in Changes /\ Change(e, who).by = {who}
<1>1. DOMAIN Effects = {"edit", "alias", "product", "zone", "stray", "moved"}
  BY DEF Effects
<1>2. /\ Effects[e].name \in Names /\ Effects[e].shows \in Paths
      /\ Effects[e].touches \in SUBSET Paths
  <2> HIDE DEF PlainPath, AliasConfig, ProductPath, ZonePath
  <2> QED BY <1>1 DEF Effects, Names, Paths
<1> QED BY <1>2 DEF Change, Changes

\* Whoever writes a file again shares it with those who wrote it before.
LEMMA WrittenTyped ==
  ASSUME NEW W, NEW tree \in Own(W), NEW c \in Changes, c.by \subseteq W
  PROVE  Written(tree, c) \in Own(W)
<1> DEFINE old == {x \in tree : x.name = c.name}
           new == [c EXCEPT !.touches = @ \cup UNION {x.touches : x \in old},
                            !.by = @ \cup UNION {x.by : x \in old}]
<1>1. \A x \in tree : x \in Changes /\ x.by \subseteq W
  BY DEF Own
<1>2. \A x \in Changes : x.touches \in SUBSET Paths /\ x.by \in SUBSET (Runs \X Attempts)
  BY DEF Changes
<1>3. /\ UNION {x.touches : x \in old} \subseteq Paths
      /\ UNION {x.by : x \in old} \subseteq Runs \X Attempts
      /\ UNION {x.by : x \in old} \subseteq W
  BY <1>1, <1>2
<1>4. new \in Changes /\ new.by = c.by \cup UNION {x.by : x \in old}
  BY <1>3 DEF Changes
<1>5. Written(tree, c) = (tree \ old) \cup {new}
  BY DEF Written
<1> HIDE DEF new, old
<1>6. new \in {x \in Changes : x.by \subseteq W}
  BY <1>3, <1>4
<1> QED BY <1>1, <1>5, <1>6 DEF Own

\* A commit is clean when the base is and the scan of the range passes.
LEMMA RangeIsClean ==
  ASSUME NEW base \in Seq(Clean), NEW commit \in Commits, IsPrefix(base, commit),
         ChangesetAllowed(Touched(SubSeq(commit, Len(base) + 1, Len(commit))))
  PROVE  commit \in Seq(Clean)
<1> DEFINE range == SubSeq(commit, Len(base) + 1, Len(commit))
<1>1. Clean \subseteq SUBSET Changes
  BY DEF Clean
<1>2. base \in Commits /\ Len(base) \in Nat /\ Len(commit) \in Nat
  BY <1>1 DEF Commits
<1>3. Len(base) <= Len(commit) /\ \A i \in 1 .. Len(base) : commit[i] = base[i]
  BY <1>2, PrefixAt DEF Commits
<1>4. ASSUME NEW i \in 1 .. Len(commit) PROVE commit[i] \in Clean
  <2>1. CASE i <= Len(base)
    BY <1>2, <1>3, <2>1
  <2>2. CASE i > Len(base)
    <3>1. /\ i - Len(base) \in 1 .. Len(range)
          /\ range[i - Len(base)] = commit[i]
          /\ DOMAIN range = 1 .. Len(range)
      BY <1>2, <1>3, <2>2 DEF Commits
    <3>2. commit[i] \in Range(range)
      <4> HIDE DEF range
      <4> QED BY <3>1 DEF Range
    <3>3. \A x \in commit[i] : x.touches \subseteq Touched(range)
      <4> HIDE DEF range
      <4> QED BY <3>2 DEF Touched
    <3>4. \A x \in commit[i] : TrustBoundaryAllows(x.touches)
      BY <3>3 DEF ChangesetAllowed, TrustBoundaryAllows, ViolatedPaths
    <3>5. commit[i] \in SUBSET Changes
      BY DEF Commits
    <3> QED BY <3>4, <3>5 DEF Clean
  <2> QED BY <1>2, <2>1, <2>2
<1> QED BY <1>4, SequenceOf DEF Commits

-----------------------------------------------------------------------------
(* Types *)

Statuses == {"ABSENT", "QUEUED", "CLAIMED", "RUNNING", "TESTING", "BLOCKED", "COMPLETED", "FAILED"}
Outs == {"none", "ROUTER_TIMEOUT_TOTAL", "START_ERROR", "ROUTER_TIMEOUT", "WORKER_CANCELLED", "ALL_PROVIDERS_FAILED"}
        \cup UNION {j.answers : j \in Jobs}
Codes == {"none", "GIT_EXECUTION_FAILED", "SECURITY_VIOLATION", "FAILED_UNEXPECTED_CHANGES", "TASK_TESTS_FAILED",
          "COMMIT_FAILED", "REVIEW_CHANGES_REQUESTED", "KILL_SWITCH"}
Results == {"none", "NOT_REQUESTED", "UNAUTHORIZED_PRODUCT", "PERSISTENCE_INELIGIBLE", "REPOSITORY_MISMATCH",
            "PROTECTED_BRANCH_PROHIBITED", "BRANCH_POLICY_VIOLATION", "LOCAL_SHA_MISMATCH", "MISSING_GITHUB_TOKEN",
            "REMOTE_INSPECTION_FAILED", "VERIFIED", "NON_FAST_FORWARD_REJECTED", "PROTECTED_PATH_VIOLATION",
            "PUSH_FAILED", "REMOTE_VERIFICATION_FAILED", "REMOTE_SHA_MISMATCH"}
TestTexts == {"none"} \cup UNION {j.testFailures : j \in Jobs}

Shas == [on : BOOLEAN, commit : Commits]
Fins == [status : {"NONE", "FAILED", "COMPLETED"}, code : Codes, text : TestTexts, sha : Shas,
         changed : SUBSET Changes]
Run == [pc : Pcs, attempt : Attempts, ws : Attempts, active : BOOLEAN, late : BOOLEAN, asked : BOOLEAN,
        out : Outs, declared : SUBSET Names, fin : Fins, fixes : 0 .. MaxCorrections, base : Commits,
        persisted : Results]
Dirs == [on : BOOLEAN, git : BOOLEAN, head : Commits, tree : SUBSET Changes]

Typed ==
  /\ job \in Jobs
  /\ task \in [status : Statuses, sha : Shas]
  /\ wk \in [Runs -> Run]
  /\ dirs \in [Runs -> [Attempts -> Dirs]]
  /\ zombies \subseteq Runs \X Attempts \X Attempts
  /\ refs \in [main : Seq({{}}), work : Shas]

\* Commits as such are not looked into any further.
LEMMA CommitFacts ==
  /\ <<>> \in Commits
  /\ Seq({{}}) \subseteq Commits
  /\ NoCommit \in Shas
  /\ \A c \in Commits : Sha(c) \in Shas
  /\ \A c \in Commits, t \in SUBSET Changes : Append(c, t) \in Commits
  /\ NoDir \in Dirs /\ [NoDir EXCEPT !.on = TRUE] \in Dirs
<1>1. /\ <<>> \in Commits
      /\ \A c \in Commits, t \in SUBSET Changes : Append(c, t) \in Commits
  BY DEF Commits
<1>2. Seq({{}}) \subseteq Commits
  BY MainIsHarmless
<1> QED BY <1>1, <1>2 DEF Shas, NoCommit, Sha, Dirs, NoDir

LEMMA TypedInitially == Init => Typed
<1> SUFFICES ASSUME Init PROVE Typed
  OBVIOUS
<1>1. 1 \in Attempts
  BY ProvidersAssumption DEF Attempts
<1>2. NoFin \in Fins
  BY CommitFacts DEF NoFin, Fins, Codes, TestTexts
<1>3. Idle \in Run
  BY <1>1, <1>2, CommitFacts DEF Idle, Run, Pcs, Outs, Results, MaxCorrections
<1>4. <<{}>> \in Seq({{}})
  OBVIOUS
<1>5. refs \in [main : Seq({{}}), work : Shas]
  BY <1>4, CommitFacts DEF Init
<1>6. task \in [status : Statuses, sha : Shas]
  BY CommitFacts DEF Init, Statuses
<1> QED BY <1>3, <1>5, <1>6, CommitFacts DEF Init, Typed

\* Steps that change only the record of one run, and the row.
LEMMA RunTyped ==
  ASSUME Typed, NEW r \in Runs, UNCHANGED <<job, dirs, zombies, refs>>,
         task' \in [status : Statuses, sha : Shas],
         \/ Claim(r) \/ Blocked(r) \/ StartRunning(r) \/ CheckSpec(r) \/ NoBudget(r) \/ ProviderReturns(r)
         \/ DeadlinePasses(r) \/ Cancel(r) \/ AttemptWins(r) \/ AgentThrows(r) \/ EndAttempts(r)
         \/ CorrectionReturns(r) \/ StartCorrection(r) \/ InspectRemote(r) \/ ScanRange(r) \/ Verify(r)
         \/ Complete(r)
  PROVE  Typed'
<1>1. wk[r] \in Run
  BY DEF Typed
<1>2. \A x \in Run : [wk EXCEPT ![r] = x] \in [Runs -> Run]
  BY DEF Typed
<1>20. \A p \in Pcs : [wk EXCEPT ![r].pc = p] \in [Runs -> Run]
  BY <1>1 DEF Typed, Run
<1>21. \A p \in Results : [wk EXCEPT ![r].pc = "gate", ![r].persisted = p] \in [Runs -> Run]
  BY <1>1 DEF Typed, Run, Pcs
<1>3. CASE Claim(r)
  BY <1>1, <1>3 DEF Typed, Run, Claim, Goes, Pcs
<1>4. CASE Blocked(r)
  BY <1>1, <1>4 DEF Typed, Run, Blocked, Goes, Pcs
<1>5. CASE StartRunning(r)
  BY <1>1, <1>5 DEF Typed, Run, StartRunning, Pcs
<1>6. CASE CheckSpec(r)
  <2>1. CASE AssertSealedExecutable(spec)
    <3>1. [wk EXCEPT ![r].pc = "attempt", ![r].active = TRUE] \in [Runs -> Run]
      BY <1>1 DEF Typed, Run, Pcs
    <3> QED BY <1>6, <2>1, <3>1 DEF Typed, CheckSpec
  <2>2. CASE ~AssertSealedExecutable(spec)
    BY <1>6, <1>20, <2>2 DEF Typed, CheckSpec, Leaves, Pcs
  <2> QED BY <2>1, <2>2
<1>7. CASE NoBudget(r)
  BY <1>1, <1>7 DEF Typed, Run, NoBudget, Ran, Pcs, Outs
<1>8. CASE DeadlinePasses(r)
  BY <1>1, <1>8 DEF Typed, Run, DeadlinePasses, Pcs
<1>9. CASE Cancel(r)
  BY <1>1, <1>9 DEF Typed, Run, Cancel, Pcs
<1>10. CASE AttemptWins(r)
  BY <1>1, <1>10 DEF Typed, Run, AttemptWins, Goes, Pcs
<1>11. CASE AgentThrows(r)
  BY <1>1, <1>11 DEF Typed, Run, AgentThrows, Leaves, Pcs
<1>12. CASE EndAttempts(r)
  BY <1>12, <1>20 DEF Typed, EndAttempts, Goes, Leaves, Pcs
<1>13. CASE CorrectionReturns(r)
  BY <1>1, <1>13 DEF Typed, Run, CorrectionReturns, Goes, Pcs
<1>14. CASE StartCorrection(r)
  <2>1. wk' = [wk EXCEPT ![r].pc = "fixing",
                         ![r].fixes = IF wk[r].fixes < MaxCorrections THEN wk[r].fixes + 1 ELSE wk[r].fixes]
    BY <1>1, <1>14 DEF Run, StartCorrection
  <2>2. (IF wk[r].fixes < MaxCorrections THEN wk[r].fixes + 1 ELSE wk[r].fixes) \in 0 .. MaxCorrections
    BY <1>1 DEF Run, MaxCorrections
  <2> QED BY <1>1, <2>1, <2>2 DEF Typed, Run, Pcs
<1>15. CASE Verify(r)
  BY <1>15, <1>21 DEF Typed, Verify, Persisted, Results
<1>16. CASE Complete(r)
  BY <1>1, <1>16 DEF Typed, Run, Complete, Goes, Pcs
<1>17. CASE ProviderReturns(r)
  <2>1. PICK out \in job.answers : wk' = [wk EXCEPT ![r].pc = "returned", ![r].out = out]
    BY <1>17 DEF ProviderReturns
  <2>2. out \in Outs
    BY DEF Outs, Typed
  <2> QED BY <1>1, <2>1, <2>2 DEF Typed, Run, Pcs
<1>18. CASE InspectRemote(r)
  <2>1. refs.main \in Commits /\ refs.work.commit \in Commits
    BY CommitFacts DEF Typed, Shas
  <2>2. \A b \in Commits : [wk EXCEPT ![r].pc = "scan", ![r].base = b] \in [Runs -> Run]
    BY <1>1 DEF Typed, Run, Pcs
  <2>3. wk' \in [Runs -> Run]
    <3>1. \/ \E p \in Results : wk' = [wk EXCEPT ![r].pc = "gate", ![r].persisted = p]
          \/ \E b \in Commits : wk' = [wk EXCEPT ![r].pc = "scan", ![r].base = b]
      BY <1>18, <2>1 DEF InspectRemote, Persisted, Results
    <3> QED BY <3>1, <1>21, <2>2, Zenon
  <2> QED BY <2>3 DEF Typed
<1>19. CASE ScanRange(r)
  <2>1. \/ \E p \in Results : wk' = [wk EXCEPT ![r].pc = "gate", ![r].persisted = p]
        \/ wk' = [wk EXCEPT ![r].pc = "push"]
    BY <1>19 DEF ScanRange, Persisted, Goes, Results
  <2>2. "push" \in Pcs
    BY DEF Pcs
  <2>3. wk' \in [Runs -> Run]
    BY <2>1, <2>2, <1>20, <1>21, Zenon
  <2> QED BY <2>3 DEF Typed
<1> QED BY <1>3, <1>4, <1>5, <1>6, <1>7, <1>8, <1>9, <1>10, <1>11, <1>12, <1>13, <1>14, <1>15, <1>16, <1>17, <1>18, <1>19

\* Finalization, judgement and the start of persistence.
LEMMA FinTyped ==
  ASSUME Typed, NEW r \in Runs,
         Inspect(r) \/ Judge(r) \/ StartPersistence(r)
  PROVE  Typed'
<1>1. wk[r] \in Run /\ wk[r].fin \in Fins /\ wk[r].ws \in Attempts /\ Dir(r) \in Dirs
  BY DEF Typed, Run, Dir
<1>2. \A p \in Pcs : [wk EXCEPT ![r].pc = p] \in [Runs -> Run]
  BY <1>1 DEF Typed, Run
<1>3. \A f \in Fins : /\ [wk EXCEPT ![r].pc = "finalized", ![r].fin = f] \in [Runs -> Run]
                       /\ [wk EXCEPT ![r].pc = "judged", ![r].fin = f] \in [Runs -> Run]
  BY <1>1 DEF Typed, Run, Pcs
<1>4. \A p \in Results : [wk EXCEPT ![r].pc = "gate", ![r].persisted = p] \in [Runs -> Run]
  BY <1>1 DEF Typed, Run, Pcs
<1>5. CASE Inspect(r)
  <2>1. InspectionFault(r) \in Codes
    BY DEF InspectionFault, Codes
  <2>2. /\ Outcome("FAILED", "GIT_EXECUTION_FAILED", "none", NoCommit, {}) \in Fins
        /\ Outcome("COMPLETED", "none", "none", NoCommit, {}) \in Fins
        /\ Outcome("FAILED", InspectionFault(r), "none", NoCommit, Dir(r).tree) \in Fins
    BY <1>1, <2>1, CommitFacts DEF Outcome, Fins, Codes, TestTexts, Dirs
  <2>3. \/ \E f \in Fins : wk' = [wk EXCEPT ![r].pc = "finalized", ![r].fin = f]
        \/ wk' = [wk EXCEPT ![r].pc = "tests"]
    BY <1>5, <2>2 DEF Inspect, Finalizes, Goes
  <2>4. "tests" \in Pcs
    BY DEF Pcs
  <2>5. wk' \in [Runs -> Run]
    BY <1>2, <1>3, <2>3, <2>4, Zenon
  <2> QED BY <1>5, <2>5 DEF Inspect, Typed
<1>6. CASE Judge(r)
  <2>1. \A s \in {"FAILED"}, c \in Codes : [wk[r].fin EXCEPT !.status = s, !.code = c] \in Fins
    BY <1>1 DEF Fins
  <2>2. \E f \in Fins : wk' = [wk EXCEPT ![r].pc = "judged", ![r].fin = f]
    BY <1>1, <1>6, <2>1 DEF Judge, Judged, Codes
  <2>4. wk' \in [Runs -> Run]
    BY <1>3, <2>2, Zenon
  <2> QED BY <1>6, <2>4 DEF Judge, Typed
<1>7. CASE StartPersistence(r)
  <2>1. StaticFault(r) \in Results
    BY DEF StaticFault, Results
  <2>2. [wk EXCEPT ![r].pc = "gate", ![r].fin.status = "FAILED", ![r].fin.code = "KILL_SWITCH"] \in [Runs -> Run]
    BY <1>1 DEF Typed, Run, Fins, Pcs, Codes
  <2>3. \/ \E p \in Results : wk' = [wk EXCEPT ![r].pc = "gate", ![r].persisted = p]
        \/ wk' = [wk EXCEPT ![r].pc = "gate", ![r].fin.status = "FAILED", ![r].fin.code = "KILL_SWITCH"]
        \/ wk' = [wk EXCEPT ![r].pc = "remote"]
    <3>1. "none" \in Results /\ "NOT_REQUESTED" \in Results
      BY DEF Results
    <3> QED BY <1>7, <2>1, <3>1, Zenon DEF StartPersistence, Persisted, Goes
  <2>4. "remote" \in Pcs
    BY DEF Pcs
  <2>5. wk' \in [Runs -> Run]
    BY <1>2, <1>4, <2>2, <2>3, <2>4, ZenonT(60)
  <2> QED BY <1>7, <2>5 DEF StartPersistence, Typed
<1> QED BY <1>5, <1>6, <1>7

\* Tests may write before the commit.
LEMMA TestTyped ==
  ASSUME Typed, NEW r \in Runs, TestAndCommit(r)
  PROVE  Typed'
<1>1. wk[r] \in Run /\ wk[r].ws \in Attempts /\ wk[r].attempt \in Attempts /\ Dir(r) \in Dirs
  BY DEF Typed, Run, Dir
<1>2. \A f \in Fins : [wk EXCEPT ![r].pc = "finalized", ![r].fin = f] \in [Runs -> Run]
  BY <1>1 DEF Typed, Run, Pcs
<1>3. \A d \in Dirs : [dirs EXCEPT ![r][wk[r].ws] = d] \in [Runs -> [Attempts -> Dirs]]
  BY <1>1 DEF Typed
<1>4. PICK wrote \in {{}} \cup {{Change(e, <<r, wk[r].attempt>>)} : e \in job.testWrites} :
        LET d == Dir(r)
            tree == (UNION {Written(d.tree, c) : c \in wrote}) \cup (IF wrote = {} THEN d.tree ELSE {})
            after == Append(d.head, tree)
        IN \/ \E text \in job.testFailures :
                /\ dirs' = [dirs EXCEPT ![r][wk[r].ws].tree = tree]
                /\ Finalizes(r, Outcome("FAILED", "TASK_TESTS_FAILED", text, NoCommit, d.tree))
           \/ /\ Fails
              /\ dirs' = [dirs EXCEPT ![r][wk[r].ws].tree = tree]
              /\ Finalizes(r, Outcome("FAILED", "COMMIT_FAILED", "none", NoCommit, d.tree))
           \/ /\ dirs' = [dirs EXCEPT ![r][wk[r].ws] = [d EXCEPT !.head = after, !.tree = {}]]
              /\ \/ Finalizes(r, Outcome("COMPLETED", "none", "none", Sha(after), d.tree))
                 \/ Fails /\ Finalizes(r, Outcome("FAILED", "GIT_EXECUTION_FAILED", "none", Sha(after), d.tree))
  BY DEF TestAndCommit
<1> DEFINE d == Dir(r)
           tree == (UNION {Written(d.tree, c) : c \in wrote}) \cup (IF wrote = {} THEN d.tree ELSE {})
           after == Append(d.head, tree)
<1>5. tree \in SUBSET Changes
  <2>1. CASE wrote = {}
    BY <1>1, <2>1 DEF Dirs
  <2>2. CASE wrote # {}
    <3>1. PICK e \in job.testWrites : wrote = {Change(e, <<r, wk[r].attempt>>)}
      BY <2>2
    <3>2. e \in DOMAIN Effects /\ <<r, wk[r].attempt>> \in Runs \X Attempts
      BY <1>1, JobsAssumption DEF Typed
    <3>3. Change(e, <<r, wk[r].attempt>>) \in Changes
      BY <3>2, ChangeTyped
    <3>4. Written(d.tree, Change(e, <<r, wk[r].attempt>>)) \in Own(Runs \X Attempts)
      <4>1. d.tree \in Own(Runs \X Attempts)
        BY <1>1 DEF Dirs, Own, Changes
      <4>2. Change(e, <<r, wk[r].attempt>>).by \subseteq Runs \X Attempts
        BY <3>3 DEF Changes
      <4> QED BY <3>3, <4>1, <4>2, WrittenTyped
    <3>5. tree = Written(d.tree, Change(e, <<r, wk[r].attempt>>))
      BY <3>1
    <3> QED BY <3>4, <3>5 DEF Own
  <2> QED BY <2>1, <2>2
<1>6. d \in Dirs /\ d.tree \in SUBSET Changes /\ d.head \in Commits /\ after \in Commits
  BY <1>1, <1>5, CommitFacts DEF Dirs
<1> HIDE DEF tree, after, d
<1>7. /\ \A text \in job.testFailures :
           Outcome("FAILED", "TASK_TESTS_FAILED", text, NoCommit, d.tree) \in Fins
      /\ Outcome("FAILED", "COMMIT_FAILED", "none", NoCommit, d.tree) \in Fins
      /\ Outcome("COMPLETED", "none", "none", Sha(after), d.tree) \in Fins
      /\ Outcome("FAILED", "GIT_EXECUTION_FAILED", "none", Sha(after), d.tree) \in Fins
  <2>1. \A text \in job.testFailures : text \in TestTexts
    BY DEF TestTexts, Typed
  <2>2. "none" \in TestTexts /\ NoCommit \in Shas /\ Sha(after) \in Shas
    BY <1>6, CommitFacts DEF TestTexts
  <2> QED BY <1>6, <2>1, <2>2 DEF Outcome, Fins, Codes
<1>8. \E f \in Fins : wk' = [wk EXCEPT ![r].pc = "finalized", ![r].fin = f]
  BY <1>4, <1>7, Zenon DEF Finalizes, d, tree, after
<1>9. /\ [dirs EXCEPT ![r][wk[r].ws].tree = tree] = [dirs EXCEPT ![r][wk[r].ws] = [d EXCEPT !.tree = tree]]
      /\ [d EXCEPT !.tree = tree] \in Dirs
      /\ [d EXCEPT !.head = after, !.tree = {}] \in Dirs
  BY <1>5, <1>6 DEF Dirs, Dir, d
<1>10. \E x \in Dirs : dirs' = [dirs EXCEPT ![r][wk[r].ws] = x]
  <2>1. \/ dirs' = [dirs EXCEPT ![r][wk[r].ws].tree = tree]
        \/ dirs' = [dirs EXCEPT ![r][wk[r].ws] = [d EXCEPT !.head = after, !.tree = {}]]
    BY <1>4, Zenon DEF d, tree, after
  <2> QED BY <1>9, <2>1
<1>11. wk' \in [Runs -> Run] /\ dirs' \in [Runs -> [Attempts -> Dirs]]
  BY <1>2, <1>3, <1>8, <1>10, Zenon
<1> QED BY <1>11 DEF TestAndCommit, Typed

\* Agents are providers of a run, in an attempt and its workspace.
LEMMA AgentsTyped ==
  ASSUME Typed
  PROVE  Agents \subseteq Runs \X Attempts \X Attempts
<1>1. \A q \in Runs : wk[q] \in Run /\ wk[q].attempt \in Attempts /\ wk[q].ws \in Attempts
  BY DEF Typed, Run
<1> QED BY <1>1 DEF Agents, Typed

\* The tools of the agents.
LEMMA ToolTyped ==
  ASSUME Typed, NEW g \in Agents, WriteFile(g) \/ RunCommand(g) \/ GitCommit(g)
  PROVE  Typed'
<1>1. g \in Runs \X Attempts \X Attempts /\ g[1] \in Runs /\ g[2] \in Attempts /\ g[3] \in Attempts
      /\ <<g[1], g[2]>> \in Runs \X Attempts
  BY AgentsTyped
<1>2. dirs[g[1]][g[3]] \in Dirs /\ wk[g[1]] \in Run
  BY <1>1 DEF Typed
<1>3. \A x \in Dirs : [dirs EXCEPT ![g[1]][g[3]] = x] \in [Runs -> [Attempts -> Dirs]]
  BY <1>1 DEF Typed
<1> DEFINE d == dirs[g[1]][g[3]]
<1>4. ASSUME NEW e \in DOMAIN Effects
      PROVE  /\ Effects[e].name \in Names
             /\ Written(d.tree, Change(e, <<g[1], g[2]>>)) \in SUBSET Changes
  <2>1. Change(e, <<g[1], g[2]>>) \in Changes /\ Change(e, <<g[1], g[2]>>).name = Effects[e].name
    BY <1>1, ChangeTyped DEF Change
  <2>2. d.tree \in Own(Runs \X Attempts) /\ Change(e, <<g[1], g[2]>>).by \subseteq Runs \X Attempts
    BY <1>2, <2>1 DEF Dirs, Own, Changes
  <2>3. Written(d.tree, Change(e, <<g[1], g[2]>>)) \in Own(Runs \X Attempts)
    BY <2>1, <2>2, WrittenTyped
  <2> QED BY <2>1, <2>3 DEF Own, Changes
<1>5. CASE WriteFile(g)
  <2>1. PICK e \in DOMAIN Effects :
          /\ dirs' = [dirs EXCEPT ![g[1]][g[3]] =
                        [d EXCEPT !.on = TRUE, !.tree = Written(d.tree, Change(e, <<g[1], g[2]>>))]]
          /\ Declare(g, Effects[e].name)
    BY <1>5 DEF WriteFile
  <2>3. [d EXCEPT !.on = TRUE, !.tree = Written(d.tree, Change(e, <<g[1], g[2]>>))] \in Dirs
    BY <1>2, <1>4 DEF Dirs
  <2>4. \A n \in Names : [wk EXCEPT ![g[1]].declared = @ \cup {n}] \in [Runs -> Run]
    BY <1>1, <1>2 DEF Typed, Run
  <2>5. wk' \in [Runs -> Run] /\ dirs' \in [Runs -> [Attempts -> Dirs]]
    BY <1>3, <1>4, <2>1, <2>3, <2>4 DEF Declare, Typed
  <2> QED BY <1>5, <2>5 DEF WriteFile, Typed
<1>6. CASE RunCommand(g)
  <2>1. PICK e \in DOMAIN Effects :
          dirs' = [dirs EXCEPT ![g[1]][g[3]].tree = Written(@, Change(e, <<g[1], g[2]>>))]
    BY <1>6 DEF RunCommand
  <2>2. dirs' = [dirs EXCEPT ![g[1]][g[3]] = [d EXCEPT !.tree = Written(d.tree, Change(e, <<g[1], g[2]>>))]]
    BY <1>1, <1>2, <2>1 DEF Typed, Dirs
  <2>3. [d EXCEPT !.tree = Written(d.tree, Change(e, <<g[1], g[2]>>))] \in Dirs
    BY <1>2, <1>4 DEF Dirs
  <2>4. dirs' \in [Runs -> [Attempts -> Dirs]]
    BY <1>3, <2>2, <2>3
  <2> QED BY <1>6, <2>4 DEF RunCommand, Typed
<1>7. CASE GitCommit(g)
  <2>1. Append(d.head, d.tree) \in Commits
    BY <1>2, CommitFacts DEF Dirs
  <2>2. [d EXCEPT !.head = Append(d.head, d.tree), !.tree = {}] \in Dirs
    BY <1>2, <2>1 DEF Dirs
  <2>3. dirs' = [dirs EXCEPT ![g[1]][g[3]] = [d EXCEPT !.head = Append(d.head, d.tree), !.tree = {}]]
    BY <1>2, <1>7 DEF GitCommit, Dirs
  <2>4. dirs' \in [Runs -> [Attempts -> Dirs]]
    BY <1>3, <2>2, <2>3
  <2> QED BY <1>7, <2>4 DEF GitCommit, Typed
<1> QED BY <1>5, <1>6, <1>7

\* Workspaces that come and go, and late providers.
LEMMA PlaceTyped ==
  ASSUME Typed, NEW r \in Runs,
         \/ StartAttempt(r) \/ StartError(r) \/ AttemptCancelled(r) \/ AttemptFails(r) \/ NextProvider(r) \/ Leave(r)
         \/ ProviderTimesOut(r) \/ Crash(r)
  PROVE  Typed'
<1>1. wk[r] \in Run /\ wk[r].ws \in Attempts /\ wk[r].attempt \in Attempts
  BY DEF Typed, Run
<1>2. \A p \in Pcs : [wk EXCEPT ![r].pc = p] \in [Runs -> Run]
  BY <1>1 DEF Typed, Run
<1>3. \A o \in Outs : [wk EXCEPT ![r].pc = "ran", ![r].out = o] \in [Runs -> Run]
  BY <1>1 DEF Typed, Run, Pcs
<1>4. \A a \in Attempts, x \in Dirs : [dirs EXCEPT ![r][a] = x] \in [Runs -> [Attempts -> Dirs]]
  BY DEF Typed
<1>5. Removed(r) \in [Runs -> [Attempts -> Dirs]]
  BY <1>1, <1>4, CommitFacts DEF Removed
<1>6. CASE StartAttempt(r)
  <2>1. Checkout \in Commits
    BY CommitFacts DEF Checkout, Typed, Shas
  <2>2. [on |-> TRUE, git |-> TRUE, head |-> Checkout, tree |-> {}] \in Dirs
    BY <2>1 DEF Dirs
  <2>3. [wk EXCEPT ![r].pc = "agent", ![r].ws = Workspace(r), ![r].declared = {}] \in [Runs -> Run]
    BY <1>1 DEF Workspace, Typed, Run, Pcs
  <2>4. wk' \in [Runs -> Run] /\ dirs' \in [Runs -> [Attempts -> Dirs]]
    BY <1>1, <1>4, <1>6, <2>2, <2>3 DEF StartAttempt, Workspace
  <2> QED BY <1>6, <2>4 DEF StartAttempt, Typed
<1>7. CASE StartError(r)
  <2>1. dirs' \in [Runs -> [Attempts -> Dirs]]
    BY <1>1, <1>4, <1>7, CommitFacts DEF StartError
  <2>2. task' \in [status : Statuses, sha : Shas]
    BY <1>7 DEF StartError, Leaves, Save, Typed, Statuses
  <2>3. "START_ERROR" \in Outs /\ "leaving" \in Pcs
    BY DEF Outs, Pcs
  <2>4. wk' \in [Runs -> Run]
    BY <1>2, <1>3, <1>7, <2>3 DEF StartError, Leaves, Ran
  <2> QED BY <1>7, <2>1, <2>2, <2>4 DEF StartError, Typed
<1>8. CASE AttemptCancelled(r) \/ AttemptFails(r)
  <2>1. {"WORKER_CANCELLED", "ALL_PROVIDERS_FAILED", "ROUTER_TIMEOUT_TOTAL", wk[r].out} \subseteq Outs
    BY <1>1 DEF Outs, Run
  <2>2. \E o \in Outs : wk' = [wk EXCEPT ![r].pc = "ran", ![r].out = o]
    BY <1>8, <2>1 DEF AttemptCancelled, AttemptFails, Ran
  <2>3. wk' \in [Runs -> Run]
    BY <1>3, <2>2, Zenon
  <2> QED BY <1>5, <1>8, <2>3 DEF AttemptCancelled, AttemptFails, Typed
<1>9. CASE NextProvider(r)
  <2>1. wk[r].attempt + 1 \in Attempts
    BY <1>1, <1>9, ProvidersAssumption DEF NextProvider, Attempts
  <2>2. [wk EXCEPT ![r].pc = "attempt", ![r].attempt = wk[r].attempt + 1] \in [Runs -> Run]
    BY <1>1, <2>1 DEF Typed, Run, Pcs
  <2>3. wk' = [wk EXCEPT ![r].pc = "attempt", ![r].attempt = wk[r].attempt + 1]
    BY <1>1, <1>9 DEF NextProvider, Run
  <2>4. wk' \in [Runs -> Run]
    BY <2>2, <2>3, Zenon
  <2> QED BY <1>5, <1>9, <2>4 DEF NextProvider, Typed
<1>10. CASE Leave(r)
  <2>1. [wk EXCEPT ![r].pc = "done", ![r].active = FALSE] \in [Runs -> Run]
    BY <1>1 DEF Typed, Run, Pcs
  <2> QED BY <1>5, <1>10, <2>1 DEF Leave, Typed
<1>11. CASE ProviderTimesOut(r)
  <2>1. [wk EXCEPT ![r].pc = "returned", ![r].out = "ROUTER_TIMEOUT"] \in [Runs -> Run]
    BY <1>1 DEF Typed, Run, Pcs, Outs
  <2>2. <<r, wk[r].attempt, wk[r].ws>> \in Runs \X Attempts \X Attempts
    BY <1>1
  <2>3. zombies' \subseteq Runs \X Attempts \X Attempts
    BY <1>11, <2>2 DEF ProviderTimesOut, Typed
  <2> QED BY <1>11, <2>1, <2>3 DEF ProviderTimesOut, Typed
<1>12. CASE Crash(r)
  <2>1. "dead" \in Pcs
    BY DEF Pcs
  <2> QED BY <1>2, <1>12, <2>1 DEF Crash, Typed
<1> QED BY <1>6, <1>7, <1>8, <1>9, <1>10, <1>11, <1>12

\* The row is completed by the last step of a run alone; every other write keeps its sha.
LEMMA RowWrites ==
  ASSUME Typed, [Next]_vars
  PROVE  \/ UNCHANGED task
         \/ \E s \in Statuses \ {"COMPLETED"} : Save(s, task.sha)
         \/ \E r \in Runs : Complete(r)
<1>1. ASSUME NEW r \in Runs,
             \/ Claim(r) \/ Blocked(r) \/ StartRunning(r) \/ CheckSpec(r) \/ StartError(r) \/ AgentThrows(r)
             \/ EndAttempts(r)
      PROVE  UNCHANGED task \/ \E s \in Statuses \ {"COMPLETED"} : Save(s, task.sha)
  BY <1>1 DEF Claim, Blocked, StartRunning, CheckSpec, StartError, AgentThrows, EndAttempts, Leaves, Statuses
<1>2. ASSUME NEW r \in Runs,
             \/ NoBudget(r) \/ StartAttempt(r) \/ AttemptCancelled(r) \/ AttemptWins(r) \/ AttemptFails(r)
             \/ NextProvider(r) \/ Inspect(r) \/ TestAndCommit(r) \/ StartCorrection(r) \/ Judge(r)
             \/ StartPersistence(r) \/ InspectRemote(r) \/ ScanRange(r) \/ Push(r) \/ Verify(r) \/ Leave(r)
             \/ ProviderReturns(r) \/ ProviderTimesOut(r) \/ CorrectionReturns(r) \/ DeadlinePasses(r)
             \/ Cancel(r) \/ Crash(r)
      PROVE  UNCHANGED task
  BY <1>2 DEF NoBudget, StartAttempt, AttemptCancelled, AttemptWins, AttemptFails, NextProvider, Inspect,
              TestAndCommit, StartCorrection, Judge, StartPersistence, InspectRemote, ScanRange, Push, Verify, Leave,
              ProviderReturns, ProviderTimesOut, CorrectionReturns, DeadlinePasses, Cancel, Crash
<1>3. ASSUME NEW g \in Agents, WriteFile(g) \/ RunCommand(g) \/ GitCommit(g) PROVE UNCHANGED task
  BY <1>3 DEF WriteFile, RunCommand, GitCommit
<1>4. CASE CommitIntake
  <2>1. task \in [status : Statuses, sha : Shas]
    BY DEF Typed
  <2> QED BY <1>4, <2>1 DEF CommitIntake, Save, Statuses
<1>5. CASE Requeue
  BY <1>5 DEF Requeue, Statuses
<1>6. CASE RollbackIntake \/ OtherPush \/ ProcessIntake \/ InsertTask \/ StoreSpec \/ SealSpec \/ UNCHANGED vars
  BY <1>6 DEF RollbackIntake, OtherPush, ProcessIntake, InsertTask, StoreSpec, SealSpec, vars
<1> QED BY <1>1, <1>2, <1>3, <1>4, <1>5, <1>6 DEF Next, IntakeStep, RunStep, Answer

LEMMA RowTyped ==
  ASSUME Typed, Next
  PROVE  task' \in [status : Statuses, sha : Shas]
<1>1. ASSUME NEW s \in Statuses, NEW sha \in Shas, Save(s, sha)
      PROVE  task' \in [status : Statuses, sha : Shas]
  BY <1>1 DEF Save, Typed
<1>2. task \in [status : Statuses, sha : Shas] /\ task.sha \in Shas
  BY DEF Typed
<1>3. ASSUME NEW r \in Runs, Complete(r) PROVE task' \in [status : Statuses, sha : Shas]
  <2>1. wk[r].fin.sha \in Shas
    BY DEF Typed, Run, Fins
  <2>2. \E s \in Statuses : Save(s, wk[r].fin.sha)
    BY <1>3 DEF Complete, Statuses
  <2> QED BY <1>1, <2>1, <2>2
<1> QED BY <1>1, <1>2, <1>3, RowWrites

LEMMA PushTyped ==
  ASSUME Typed, NEW r \in Runs, Push(r)
  PROVE  Typed'
<1>1. wk[r] \in Run /\ wk[r].fin.sha \in Shas
  BY DEF Typed, Run, Fins
<1>2. [wk EXCEPT ![r].pc = "verify"] \in [Runs -> Run]
  BY <1>1 DEF Typed, Run, Pcs
<1>3. [wk EXCEPT ![r].pc = "gate", ![r].persisted = "PUSH_FAILED"] \in [Runs -> Run]
  BY <1>1 DEF Typed, Run, Pcs, Results
<1>4. [refs EXCEPT !.work = wk[r].fin.sha] \in [main : Seq({{}}), work : Shas]
  BY <1>1 DEF Typed
<1>5. wk' \in [Runs -> Run] /\ refs' \in [main : Seq({{}}), work : Shas]
  BY <1>2, <1>3, <1>4 DEF Push, Goes, Persisted, Typed
<1> QED BY <1>5 DEF Push, Typed

LEMMA TypedStep ==
  ASSUME Typed, [Next]_vars
  PROVE  Typed'
<1>1. CASE UNCHANGED vars
  BY <1>1 DEF vars, Typed
<1>2. CASE IntakeStep \/ RollbackIntake \/ Requeue
  <2>1. UNCHANGED <<job, wk, dirs, zombies, refs>>
    BY <1>2 DEF IntakeStep, ProcessIntake, InsertTask, StoreSpec, SealSpec, CommitIntake, RollbackIntake, Requeue
  <2>2. task' \in [status : Statuses, sha : Shas]
    BY <1>2, RowTyped DEF Next
  <2> QED BY <2>1, <2>2 DEF Typed
<1>3. CASE OtherPush
  <2>1. refs' \in [main : Seq({{}}), work : Shas]
    <3>1. Append(refs.main, {}) \in Seq({{}})
      BY DEF Typed
    <3> QED BY <1>3, <3>1 DEF OtherPush, Typed
  <2> QED BY <1>3, <2>1 DEF OtherPush, Typed
<1>4. ASSUME NEW r \in Runs,
             \/ Claim(r) \/ Blocked(r) \/ StartRunning(r) \/ CheckSpec(r) \/ NoBudget(r) \/ ProviderReturns(r)
             \/ DeadlinePasses(r) \/ Cancel(r) \/ AttemptWins(r) \/ AgentThrows(r) \/ EndAttempts(r)
             \/ CorrectionReturns(r) \/ StartCorrection(r) \/ InspectRemote(r) \/ ScanRange(r) \/ Verify(r)
             \/ Complete(r)
      PROVE  Typed'
  <2>1. task' \in [status : Statuses, sha : Shas]
    BY <1>4, RowTyped DEF Next, RunStep, Answer
  <2>2. UNCHANGED <<job, dirs, zombies, refs>>
    BY <1>4 DEF Claim, Blocked, StartRunning, CheckSpec, NoBudget, ProviderReturns, DeadlinePasses, Cancel, AttemptWins,
                AgentThrows, EndAttempts, CorrectionReturns, StartCorrection, InspectRemote, ScanRange, Verify, Complete
  <2> QED BY <1>4, <2>1, <2>2, RunTyped
<1> QED BY <1>1, <1>2, <1>3, <1>4, FinTyped, TestTyped, ToolTyped, PlaceTyped, PushTyped DEF Next, RunStep, Answer

-----------------------------------------------------------------------------
(* Runs: who moves, and what a run's phase says of it *)

RunAct(r) == Claim(r) \/ RunStep(r) \/ Answer(r) \/ DeadlinePasses(r) \/ Cancel(r) \/ Crash(r)

\* While these phases last, another attempt may follow.
Early == {"idle", "claimed", "running", "attempt", "agent", "returned"}

\* The winner's workspace is that of its attempt, and a cancelled run is on its way out.
Phase(w) ==
  /\ (w.pc \in {"agent", "returned", "testing", "tests", "finalized", "fixing"} \/ (w.pc = "ran" /\ w.out = "COMPLETED"))
       => w.ws = w.attempt
  /\ w.asked => ~w.active /\ w.pc \in {"agent", "returned", "ran", "leaving", "done", "dead"}

\* Once the attempts are over, the attempt is fixed.
Settled(w, v) == w.pc \notin Early => v.pc \notin Early /\ v.attempt = w.attempt

LEMMA StartOfRun ==
  ASSUME Typed, NEW r \in Runs, Phase(wk[r]),
         \/ Claim(r) \/ Blocked(r) \/ StartRunning(r) \/ CheckSpec(r) \/ NoBudget(r) \/ StartAttempt(r)
         \/ StartError(r)
  PROVE  /\ Phase(wk'[r]) /\ Settled(wk[r], wk'[r])
         /\ \A q \in Runs \ {r} : wk'[q] = wk[q]
<1>1. wk[r] \in Run /\ wk \in [Runs -> Run]
  BY DEF Typed
<1> HIDE DEF Typed
<1>2. CASE Claim(r)
  BY <1>1, <1>2 DEF Run, Claim, Goes, Phase, Settled, Early
<1>3. CASE Blocked(r)
  BY <1>1, <1>3 DEF Run, Blocked, Goes, Phase, Settled, Early
<1>4. CASE StartRunning(r)
  BY <1>1, <1>4 DEF Run, StartRunning, Phase, Settled, Early
<1>5. CASE CheckSpec(r)
  BY <1>1, <1>5 DEF Run, CheckSpec, Leaves, Phase, Settled, Early
<1>6. CASE NoBudget(r)
  BY <1>1, <1>6 DEF Run, NoBudget, Ran, Phase, Settled, Early
<1>7. CASE StartAttempt(r)
  BY <1>1, <1>7 DEF Run, StartAttempt, Workspace, Phase, Settled, Early
<1>8. CASE StartError(r)
  BY <1>1, <1>8 DEF Run, StartError, Ran, Leaves, Phase, Settled, Early
<1> QED BY <1>2, <1>3, <1>4, <1>5, <1>6, <1>7, <1>8

LEMMA EndOfAttempt ==
  ASSUME Typed, NEW r \in Runs, Phase(wk[r]),
         \/ ProviderReturns(r) \/ ProviderTimesOut(r) \/ DeadlinePasses(r) \/ Cancel(r) \/ AttemptCancelled(r)
         \/ AttemptWins(r) \/ AgentThrows(r) \/ AttemptFails(r) \/ NextProvider(r) \/ EndAttempts(r)
  PROVE  /\ Phase(wk'[r]) /\ Settled(wk[r], wk'[r])
         /\ \A q \in Runs \ {r} : wk'[q] = wk[q]
<1>1. wk[r] \in Run /\ wk \in [Runs -> Run]
  BY DEF Typed
<1>2. CASE ProviderReturns(r)
  <2>1. PICK out \in job.answers : wk' = [wk EXCEPT ![r].pc = "returned", ![r].out = out]
    BY <1>2 DEF ProviderReturns
  <2>2. wk[r].pc = "agent"
    BY <1>2 DEF ProviderReturns
  <2> QED BY <1>1, <2>1, <2>2 DEF Run, Phase, Settled, Early
<1>3. CASE ProviderTimesOut(r)
  BY <1>1, <1>3 DEF Run, ProviderTimesOut, Phase, Settled, Early
<1>4. CASE DeadlinePasses(r)
  BY <1>1, <1>4 DEF Run, DeadlinePasses, Phase, Settled, Early
<1>5. CASE Cancel(r)
  BY <1>1, <1>5 DEF Run, Cancel, Phase, Settled, Early
<1>6. CASE AttemptCancelled(r)
  BY <1>1, <1>6 DEF Run, AttemptCancelled, Ran, Phase, Settled, Early
<1>7. CASE AttemptWins(r)
  BY <1>1, <1>7 DEF Run, AttemptWins, Goes, Phase, Settled, Early
<1>8. CASE AgentThrows(r)
  BY <1>1, <1>8 DEF Run, AgentThrows, Leaves, Phase, Settled, Early
<1>9. CASE AttemptFails(r)
  <2>1. PICK out \in {wk[r].out, "ALL_PROVIDERS_FAILED", "ROUTER_TIMEOUT_TOTAL"} : Ran(r, out)
    BY <1>9 DEF AttemptFails
  <2>2. out # "COMPLETED" /\ wk[r].pc = "returned" /\ wk[r].active
    BY <1>9 DEF AttemptFails
  <2> QED BY <1>1, <2>1, <2>2 DEF Run, Ran, Phase, Settled, Early
<1>10. CASE NextProvider(r)
  BY <1>1, <1>10 DEF Run, NextProvider, Phase, Settled, Early
<1>11. CASE EndAttempts(r)
  BY <1>1, <1>11 DEF Run, EndAttempts, Leaves, Goes, Phase, Settled, Early
<1> QED BY <1>2, <1>3, <1>4, <1>5, <1>6, <1>7, <1>8, <1>9, <1>10, <1>11

LEMMA EndOfRun ==
  ASSUME Typed, NEW r \in Runs, Phase(wk[r]),
         \/ Inspect(r) \/ TestAndCommit(r) \/ StartCorrection(r) \/ CorrectionReturns(r) \/ Judge(r)
         \/ StartPersistence(r) \/ InspectRemote(r) \/ ScanRange(r) \/ Push(r) \/ Verify(r) \/ Complete(r)
         \/ Leave(r) \/ Crash(r)
  PROVE  /\ Phase(wk'[r]) /\ Settled(wk[r], wk'[r])
         /\ \A q \in Runs \ {r} : wk'[q] = wk[q]
<1>1. wk[r] \in Run /\ wk \in [Runs -> Run]
  BY DEF Typed
<1>2. CASE Inspect(r)
  <2>1. \/ \E f : wk' = [wk EXCEPT ![r].pc = "finalized", ![r].fin = f]
        \/ wk' = [wk EXCEPT ![r].pc = "tests"]
    BY <1>2, Zenon DEF Inspect, Finalizes, Goes
  <2>2. wk[r].pc = "testing"
    BY <1>2 DEF Inspect
  <2> QED BY <1>1, <2>1, <2>2 DEF Run, Phase, Settled, Early
<1>3. CASE TestAndCommit(r)
  <2>1. \E f : wk' = [wk EXCEPT ![r].pc = "finalized", ![r].fin = f]
    BY <1>3, Zenon DEF TestAndCommit, Finalizes
  <2>2. wk[r].pc = "tests"
    BY <1>3 DEF TestAndCommit
  <2> QED BY <1>1, <2>1, <2>2 DEF Run, Phase, Settled, Early
<1>4. CASE StartCorrection(r)
  BY <1>1, <1>4 DEF Run, StartCorrection, Phase, Settled, Early
<1>5. CASE CorrectionReturns(r)
  BY <1>1, <1>5 DEF Run, CorrectionReturns, Goes, Phase, Settled, Early
<1>6. CASE Judge(r)
  <2>1. \E f : wk' = [wk EXCEPT ![r].pc = "judged", ![r].fin = f]
    BY <1>6, Zenon DEF Judge, Judged
  <2>2. wk[r].pc = "finalized"
    BY <1>6 DEF Judge
  <2> QED BY <1>1, <2>1, <2>2 DEF Run, Phase, Settled, Early
<1>7. CASE StartPersistence(r)
  <2>1. \/ \E p : wk' = [wk EXCEPT ![r].pc = "gate", ![r].persisted = p]
        \/ wk' = [wk EXCEPT ![r].pc = "gate", ![r].fin.status = "FAILED", ![r].fin.code = "KILL_SWITCH"]
        \/ wk' = [wk EXCEPT ![r].pc = "remote"]
    BY <1>7, Zenon DEF StartPersistence, Persisted, Goes
  <2>2. wk[r].pc = "judged"
    BY <1>7 DEF StartPersistence
  <2> QED BY <1>1, <2>1, <2>2 DEF Run, Phase, Settled, Early
<1>8. CASE InspectRemote(r)
  <2>1. \/ \E p : wk' = [wk EXCEPT ![r].pc = "gate", ![r].persisted = p]
        \/ \E b : wk' = [wk EXCEPT ![r].pc = "scan", ![r].base = b]
    BY <1>8, Zenon DEF InspectRemote, Persisted
  <2>2. wk[r].pc = "remote"
    BY <1>8 DEF InspectRemote
  <2> QED BY <1>1, <2>1, <2>2 DEF Run, Phase, Settled, Early
<1>9. CASE ScanRange(r) \/ Push(r) \/ Verify(r)
  <2>1. \/ \E p : wk' = [wk EXCEPT ![r].pc = "gate", ![r].persisted = p]
        \/ \E p \in {"push", "verify"} : wk' = [wk EXCEPT ![r].pc = p]
    BY <1>9 DEF ScanRange, Push, Verify, Persisted, Goes
  <2>2. wk[r].pc \in {"scan", "push", "verify"}
    BY <1>9 DEF ScanRange, Push, Verify
  <2> QED BY <1>1, <2>1, <2>2 DEF Run, Phase, Settled, Early
<1>10. CASE Complete(r)
  BY <1>1, <1>10 DEF Run, Complete, Goes, Phase, Settled, Early
<1>11. CASE Leave(r)
  BY <1>1, <1>11 DEF Run, Leave, Phase, Settled, Early
<1>12. CASE Crash(r)
  BY <1>1, <1>12 DEF Run, Crash, Phase, Settled, Early
<1> QED BY <1>2, <1>3, <1>4, <1>5, <1>6, <1>7, <1>8, <1>9, <1>10, <1>11, <1>12

\* Every step of a run moves that run alone.
LEMMA RunStepOf ==
  ASSUME Typed, NEW r \in Runs, Phase(wk[r]), RunAct(r)
  PROVE  /\ Phase(wk'[r]) /\ Settled(wk[r], wk'[r])
         /\ \A q \in Runs \ {r} : wk'[q] = wk[q]
BY StartOfRun, EndOfAttempt, EndOfRun DEF RunAct, RunStep, Answer

\* Tools, intake and the rest of the world leave the runs where they are.
WorldAct ==
  \/ IntakeStep \/ RollbackIntake \/ Requeue \/ OtherPush \/ UNCHANGED vars
  \/ \E g \in Agents : WriteFile(g) \/ RunCommand(g) \/ GitCommit(g)

Still(w, v) ==
  /\ v.pc = w.pc /\ v.attempt = w.attempt /\ v.ws = w.ws /\ v.active = w.active /\ v.asked = w.asked
  /\ v.out = w.out /\ v.fin = w.fin /\ v.base = w.base /\ v.persisted = w.persisted

LEMMA NextCases ==
  [Next]_vars => WorldAct \/ \E r \in Runs : RunAct(r)
BY DEF Next, WorldAct, RunAct

LEMMA WorldKeepsRuns ==
  ASSUME Typed, WorldAct
  PROVE  \A q \in Runs : Still(wk[q], wk'[q])
<1>1. wk \in [Runs -> Run]
  BY DEF Typed
<1>2. CASE UNCHANGED wk
  BY <1>2 DEF Still
<1>3. ASSUME NEW g \in Agents, NEW n, wk' = [wk EXCEPT ![g[1]].declared = @ \cup {n}]
      PROVE  \A q \in Runs : Still(wk[q], wk'[q])
  <2>1. g[1] \in Runs /\ wk[g[1]] \in Run
    BY AgentsTyped, <1>1
  <2> QED BY <1>1, <1>3, <2>1 DEF Still, Run
<1>4. ASSUME NEW g \in Agents, WriteFile(g)
      PROVE  UNCHANGED wk \/ \E n : wk' = [wk EXCEPT ![g[1]].declared = @ \cup {n}]
  BY <1>4 DEF WriteFile, Declare
<1>5. ASSUME NEW g \in Agents, RunCommand(g) \/ GitCommit(g)
      PROVE  UNCHANGED wk
  BY <1>5 DEF RunCommand, GitCommit
<1>6. ASSUME IntakeStep \/ RollbackIntake \/ Requeue \/ OtherPush \/ UNCHANGED vars
      PROVE  UNCHANGED wk
  BY <1>6 DEF IntakeStep, ProcessIntake, InsertTask, StoreSpec, SealSpec, CommitIntake, RollbackIntake, Requeue,
              OtherPush, vars
<1> QED BY <1>2, <1>3, <1>4, <1>5, <1>6 DEF WorldAct

\* The attempts that are over, each the one its run has settled on.
Fixed == {<<q, wk[q].attempt>> : q \in {p \in Runs : wk[p].pc \notin Early}}

LEMMA PhaseStep ==
  ASSUME Typed, \A q \in Runs : Phase(wk[q]), [Next]_vars
  PROVE  (\A q \in Runs : Phase(wk[q]))' /\ Fixed \subseteq Fixed'
<1>1. \A q \in Runs : Phase(wk'[q]) /\ Settled(wk[q], wk'[q])
  <2>1. CASE WorldAct
    <3>1. \A q \in Runs : Still(wk[q], wk'[q])
      BY <2>1, WorldKeepsRuns
    <3> QED BY <3>1 DEF Still, Phase, Settled
  <2>2. ASSUME NEW r \in Runs, RunAct(r) PROVE \A q \in Runs : Phase(wk'[q]) /\ Settled(wk[q], wk'[q])
    <3>1. /\ Phase(wk'[r]) /\ Settled(wk[r], wk'[r])
          /\ \A q \in Runs \ {r} : wk'[q] = wk[q]
      BY <2>2, RunStepOf
    <3> QED BY <3>1 DEF Settled
  <2> QED BY <2>1, <2>2, NextCases
<1> QED BY <1>1 DEF Fixed, Settled

-----------------------------------------------------------------------------
(* Whose work it is *)

\* The workspace of an attempt holds its own work, on top of the work of attempts in W.
OwnDirs(D, W) ==
  \A q \in Runs, a \in Attempts : /\ D[q][a].head \in Seq(Own(W \cup {<<q, a>>}))
                                  /\ D[q][a].tree \in Own(W \cup {<<q, a>>})

OwnWork ==
  /\ OwnDirs(dirs, Fixed)
  /\ \A q \in Runs : wk[q].fin.sha.commit \in Seq(Own(Fixed))
  /\ refs.work.commit \in Seq(Own(Fixed))
  /\ \A g \in zombies : g[2] = g[3]

LEMMA OwnDirsGrow ==
  ASSUME NEW D, NEW V, NEW W, V \subseteq W, OwnDirs(D, V)
  PROVE  OwnDirs(D, W)
<1>1. ASSUME NEW q \in Runs, NEW a \in Attempts
      PROVE  /\ Own(V \cup {<<q, a>>}) \subseteq Own(W \cup {<<q, a>>})
             /\ Seq(Own(V \cup {<<q, a>>})) \subseteq Seq(Own(W \cup {<<q, a>>}))
  <2>1. V \cup {<<q, a>>} \subseteq W \cup {<<q, a>>}
    OBVIOUS
  <2> QED BY <2>1, OwnGrows
<1> QED BY <1>1 DEF OwnDirs

LEMMA OwnDirsWritten ==
  ASSUME NEW D \in [Runs -> [Attempts -> Dirs]], NEW W, OwnDirs(D, W), NEW r \in Runs, NEW b \in Attempts, NEW x \in Dirs,
         x.head \in Seq(Own(W \cup {<<r, b>>})), x.tree \in Own(W \cup {<<r, b>>})
  PROVE  OwnDirs([D EXCEPT ![r][b] = x], W)
<1>1. ASSUME NEW q \in Runs, NEW a \in Attempts
      PROVE  [D EXCEPT ![r][b] = x][q][a] = IF q = r /\ a = b THEN x ELSE D[q][a]
  OBVIOUS
<1>2. ASSUME NEW q \in Runs, NEW a \in Attempts, q = r /\ a = b
      PROVE  /\ [D EXCEPT ![r][b] = x][q][a].head \in Seq(Own(W \cup {<<q, a>>}))
             /\ [D EXCEPT ![r][b] = x][q][a].tree \in Own(W \cup {<<q, a>>})
  BY <1>1, <1>2
<1>3. ASSUME NEW q \in Runs, NEW a \in Attempts, ~(q = r /\ a = b)
      PROVE  /\ [D EXCEPT ![r][b] = x][q][a].head \in Seq(Own(W \cup {<<q, a>>}))
             /\ [D EXCEPT ![r][b] = x][q][a].tree \in Own(W \cup {<<q, a>>})
  BY <1>1, <1>3 DEF OwnDirs
<1> QED BY <1>2, <1>3 DEF OwnDirs

\* Removing a workspace leaves nothing of anyone.
LEMMA OwnDirsRemoved ==
  ASSUME NEW D \in [Runs -> [Attempts -> Dirs]], NEW W, OwnDirs(D, W), NEW r \in Runs, NEW b \in Attempts
  PROVE  /\ OwnDirs([D EXCEPT ![r][b] = NoDir], W)
         /\ OwnDirs([D EXCEPT ![r][b] = [NoDir EXCEPT !.on = TRUE]], W)
<1>1. <<>> \in Seq(Own(W \cup {<<r, b>>})) /\ {} \in Own(W \cup {<<r, b>>})
  BY DEF Own
<1>2. NoDir.head = <<>> /\ NoDir.tree = {} /\ [NoDir EXCEPT !.on = TRUE].head = <<>> /\ [NoDir EXCEPT !.on = TRUE].tree = {}
  BY DEF NoDir
<1>3. ASSUME NEW x \in Dirs, x.head = <<>>, x.tree = {} PROVE OwnDirs([D EXCEPT ![r][b] = x], W)
  <2>1. x.head \in Seq(Own(W \cup {<<r, b>>})) /\ x.tree \in Own(W \cup {<<r, b>>})
    BY <1>1, <1>3
  <2> QED BY <2>1, OwnDirsWritten
<1>4. NoDir \in Dirs /\ [NoDir EXCEPT !.on = TRUE] \in Dirs
  BY CommitFacts
<1> HIDE DEF NoDir
<1> QED BY <1>2, <1>3, <1>4, Zenon

\* Whoever uses the tools writes in the workspace of its own attempt.
LEMMA AgentsAtHome ==
  ASSUME Typed, OwnWork, \A q \in Runs : Phase(wk[q]), NEW g \in Agents
  PROVE  g[2] = g[3]
BY DEF Agents, OwnWork, Phase

LEMMA ToolsKeepOwn ==
  ASSUME Typed, OwnWork, \A q \in Runs : Phase(wk[q]), NEW g \in Agents, WriteFile(g) \/ RunCommand(g) \/ GitCommit(g)
  PROVE  OwnDirs(dirs', Fixed) /\ UNCHANGED <<zombies, refs>>
<1>1. g[1] \in Runs /\ g[2] \in Attempts /\ g[3] = g[2] /\ <<g[1], g[2]>> \in Runs \X Attempts
  BY AgentsTyped, AgentsAtHome
<1> DEFINE d == dirs[g[1]][g[3]]
           W == Fixed \cup {<<g[1], g[3]>>}
<1>2. d \in Dirs /\ d.head \in Seq(Own(W)) /\ d.tree \in Own(W) /\ dirs \in [Runs -> [Attempts -> Dirs]]
      /\ OwnDirs(dirs, Fixed)
  BY <1>1, ZenonT(60) DEF Typed, OwnWork, OwnDirs
<1>3. ASSUME NEW e \in DOMAIN Effects
      PROVE  Written(d.tree, Change(e, <<g[1], g[2]>>)) \in Own(W)
  <2>1. Change(e, <<g[1], g[2]>>) \in Changes /\ Change(e, <<g[1], g[2]>>).by \subseteq W
    BY <1>1, ChangeTyped
  <2> HIDE DEF W, d
  <2> QED BY <1>2, <2>1, WrittenTyped
<1>4. ASSUME NEW x, dirs' = [dirs EXCEPT ![g[1]][g[3]] = x], x \in Dirs, x.head \in Seq(Own(W)), x.tree \in Own(W)
      PROVE  OwnDirs(dirs', Fixed)
  BY <1>1, <1>2, <1>4, OwnDirsWritten
<1>5. Own(W) \subseteq SUBSET Changes
  BY DEF Own
<1>6. CASE WriteFile(g)
  <2>1. PICK e \in DOMAIN Effects :
          dirs' = [dirs EXCEPT ![g[1]][g[3]] =
                     [d EXCEPT !.on = TRUE, !.tree = Written(d.tree, Change(e, <<g[1], g[2]>>))]]
    BY <1>6 DEF WriteFile
  <2> DEFINE x == [d EXCEPT !.on = TRUE, !.tree = Written(d.tree, Change(e, <<g[1], g[2]>>))]
  <2>2. x \in Dirs /\ x.head \in Seq(Own(W)) /\ x.tree \in Own(W)
    <3>1. Written(d.tree, Change(e, <<g[1], g[2]>>)) \in Own(W)
      BY <1>3
    <3>2. x.head = d.head /\ x.tree = Written(d.tree, Change(e, <<g[1], g[2]>>))
      BY <1>2 DEF Dirs
    <3>3. x \in Dirs
      BY <1>2, <1>5, <3>1 DEF Dirs
    <3> QED BY <1>2, <3>1, <3>2, <3>3
  <2> QED BY <1>4, <1>6, <2>1, <2>2 DEF WriteFile
<1>7. CASE RunCommand(g)
  <2>1. PICK e \in DOMAIN Effects :
          dirs' = [dirs EXCEPT ![g[1]][g[3]].tree = Written(@, Change(e, <<g[1], g[2]>>))]
    BY <1>7 DEF RunCommand
  <2> DEFINE x == [d EXCEPT !.tree = Written(d.tree, Change(e, <<g[1], g[2]>>))]
  <2>2. dirs' = [dirs EXCEPT ![g[1]][g[3]] = x]
    BY <1>1, <1>2, <2>1 DEF Typed, Dirs
  <2>3. x \in Dirs /\ x.head \in Seq(Own(W)) /\ x.tree \in Own(W)
    <3>1. Written(d.tree, Change(e, <<g[1], g[2]>>)) \in Own(W)
      BY <1>3
    <3>2. x.head = d.head /\ x.tree = Written(d.tree, Change(e, <<g[1], g[2]>>))
      BY <1>2 DEF Dirs
    <3>3. x \in Dirs
      BY <1>2, <1>5, <3>1 DEF Dirs
    <3> QED BY <1>2, <3>1, <3>2, <3>3
  <2> QED BY <1>4, <1>7, <2>2, <2>3 DEF RunCommand
<1>8. CASE GitCommit(g)
  <2> DEFINE x == [d EXCEPT !.head = Append(d.head, d.tree), !.tree = {}]
  <2>1. dirs' = [dirs EXCEPT ![g[1]][g[3]] = x]
    BY <1>2, <1>8 DEF GitCommit, Dirs
  <2>2. x \in Dirs /\ x.head \in Seq(Own(W)) /\ x.tree \in Own(W)
    <3>1. Append(d.head, d.tree) \in Commits
      BY <1>2, CommitFacts DEF Dirs
    <3>2. Append(d.head, d.tree) \in Seq(Own(W)) /\ {} \in Own(W)
      <4> HIDE DEF d, W
      <4>1. {} \in Own(W)
        BY DEF Own
      <4> QED BY <1>2, <4>1
    <3>3. x.head = Append(d.head, d.tree) /\ x.tree = {} /\ x \in Dirs
      BY <1>2, <3>1 DEF Dirs
    <3> QED BY <3>2, <3>3
  <2> QED BY <1>4, <1>8, <2>1, <2>2 DEF GitCommit
<1> QED BY <1>6, <1>7, <1>8

\* A workspace starts from the branch, or from main, which has nothing of ours.
LEMMA PlacesKeepOwn ==
  ASSUME Typed, OwnWork, \A q \in Runs : Phase(wk[q]), NEW r \in Runs,
         \/ StartAttempt(r) \/ StartError(r) \/ AttemptCancelled(r) \/ AttemptFails(r) \/ NextProvider(r) \/ Leave(r)
         \/ ProviderTimesOut(r) \/ Crash(r)
  PROVE  OwnDirs(dirs', Fixed) /\ (\A g \in zombies : g[2] = g[3])' /\ UNCHANGED refs
<1>1. /\ wk[r].attempt \in Attempts /\ wk[r].ws \in Attempts /\ dirs \in [Runs -> [Attempts -> Dirs]]
      /\ OwnDirs(dirs, Fixed) /\ \A g \in zombies : g[2] = g[3]
  BY DEF Typed, Run, OwnWork
<1>2. OwnDirs(Removed(r), Fixed)
  BY <1>1, OwnDirsRemoved DEF Removed
<1>3. CASE StartAttempt(r)
  <2> DEFINE W == Fixed \cup {<<r, wk[r].attempt>>}
             x == [on |-> TRUE, git |-> TRUE, head |-> Checkout, tree |-> {}]
  <2>1. Checkout \in Seq(Own(W)) /\ Checkout \in Commits
    <3>1. refs.work.commit \in Commits /\ refs.main \in Seq({{}}) /\ refs.work.commit \in Seq(Own(Fixed))
      BY DEF Typed, Shas, OwnWork
    <3>2. Seq(Own(Fixed)) \subseteq Seq(Own(W))
      BY OwnGrows
    <3>3. Seq({{}}) \subseteq Seq(Own(W)) /\ Seq({{}}) \subseteq Commits
      BY MainIsHarmless
    <3> HIDE DEF W
    <3> QED BY <3>1, <3>2, <3>3 DEF Checkout
  <2>2. x \in Dirs /\ x.head = Checkout /\ x.tree = {}
    BY <2>1 DEF Dirs
  <2>3. {} \in Own(W)
    BY DEF Own
  <2>4. dirs' = [dirs EXCEPT ![r][wk[r].attempt] = x]
    BY <1>3 DEF StartAttempt, Workspace
  <2> HIDE DEF x
  <2>5. OwnDirs(dirs', Fixed)
    <3>1. x.head \in Seq(Own(Fixed \cup {<<r, wk[r].attempt>>})) /\ x.tree \in Own(Fixed \cup {<<r, wk[r].attempt>>})
      BY <2>1, <2>2, <2>3
    <3>2. OwnDirs([dirs EXCEPT ![r][wk[r].attempt] = x], Fixed)
      BY <1>1, <2>2, <3>1, OwnDirsWritten
    <3> QED BY <2>4, <3>2
  <2> QED BY <1>1, <1>3, <2>5 DEF StartAttempt
<1>4. CASE StartError(r)
  <2>1. OwnDirs(dirs', Fixed)
    <3>1. \E x \in {NoDir, [NoDir EXCEPT !.on = TRUE]} : dirs' = [dirs EXCEPT ![r][wk[r].attempt] = x]
      BY <1>4 DEF StartError
    <3>2. /\ OwnDirs([dirs EXCEPT ![r][wk[r].attempt] = NoDir], Fixed)
          /\ OwnDirs([dirs EXCEPT ![r][wk[r].attempt] = [NoDir EXCEPT !.on = TRUE]], Fixed)
      BY <1>1, OwnDirsRemoved
    <3> QED BY <3>1, <3>2, Zenon
  <2> QED BY <1>1, <1>4, <2>1 DEF StartError
<1>5. CASE AttemptCancelled(r) \/ AttemptFails(r) \/ NextProvider(r)
  BY <1>1, <1>2, <1>5 DEF AttemptCancelled, AttemptFails, NextProvider
<1>6. CASE Leave(r)
  BY <1>1, <1>2, <1>6 DEF Leave
<1>7. CASE ProviderTimesOut(r)
  <2>1. wk[r].attempt = wk[r].ws
    BY <1>7 DEF ProviderTimesOut, Phase
  <2>2. \A g \in zombies' : g[2] = g[3]
    BY <1>1, <1>7, <2>1 DEF ProviderTimesOut
  <2> QED BY <1>1, <1>7, <2>2 DEF ProviderTimesOut
<1>8. CASE Crash(r)
  BY <1>1, <1>8 DEF Crash
<1> QED BY <1>3, <1>4, <1>5, <1>6, <1>7, <1>8

\* Tests write in the winner's name, in its workspace.
LEMMA TestsKeepOwn ==
  ASSUME Typed, OwnWork, \A q \in Runs : Phase(wk[q]), NEW r \in Runs, TestAndCommit(r)
  PROVE  /\ OwnDirs(dirs', Fixed) /\ UNCHANGED <<zombies, refs>>
         /\ wk'[r].fin.sha.commit \in Seq(Own(Fixed))
<1>1. /\ wk[r] \in Run /\ wk[r].attempt \in Attempts /\ wk[r].ws = wk[r].attempt /\ wk[r].pc = "tests"
      /\ dirs \in [Runs -> [Attempts -> Dirs]] /\ wk \in [Runs -> Run]
  BY DEF TestAndCommit, Phase, Typed, Run
<1>2. <<r, wk[r].attempt>> \in Fixed
  BY <1>1 DEF Fixed, Early
<1> DEFINE W == Fixed \cup {<<r, wk[r].ws>>}
<1>3. W = Fixed
  BY <1>1, <1>2
<1>4. PICK wrote \in {{}} \cup {{Change(e, <<r, wk[r].attempt>>)} : e \in job.testWrites} :
        LET d == Dir(r)
            tree == (UNION {Written(d.tree, c) : c \in wrote}) \cup (IF wrote = {} THEN d.tree ELSE {})
            after == Append(d.head, tree)
        IN \/ \E text \in job.testFailures :
                /\ dirs' = [dirs EXCEPT ![r][wk[r].ws].tree = tree]
                /\ Finalizes(r, Outcome("FAILED", "TASK_TESTS_FAILED", text, NoCommit, d.tree))
           \/ /\ Fails
              /\ dirs' = [dirs EXCEPT ![r][wk[r].ws].tree = tree]
              /\ Finalizes(r, Outcome("FAILED", "COMMIT_FAILED", "none", NoCommit, d.tree))
           \/ /\ dirs' = [dirs EXCEPT ![r][wk[r].ws] = [d EXCEPT !.head = after, !.tree = {}]]
              /\ \/ Finalizes(r, Outcome("COMPLETED", "none", "none", Sha(after), d.tree))
                 \/ Fails /\ Finalizes(r, Outcome("FAILED", "GIT_EXECUTION_FAILED", "none", Sha(after), d.tree))
  BY DEF TestAndCommit
<1> DEFINE d == Dir(r)
           tree == (UNION {Written(d.tree, c) : c \in wrote}) \cup (IF wrote = {} THEN d.tree ELSE {})
           after == Append(d.head, tree)
<1>5. d \in Dirs /\ d.head \in Seq(Own(W)) /\ d.tree \in Own(W) /\ OwnDirs(dirs, Fixed)
  BY <1>1 DEF Dir, OwnWork, OwnDirs
<1>6. tree \in Own(W)
  <2>1. CASE wrote = {}
    BY <1>5, <2>1
  <2>2. CASE wrote # {}
    <3>1. PICK e \in job.testWrites : wrote = {Change(e, <<r, wk[r].attempt>>)}
      BY <2>2
    <3>2. e \in DOMAIN Effects /\ <<r, wk[r].attempt>> \in Runs \X Attempts
      BY <1>1, JobsAssumption DEF Typed
    <3>3. Change(e, <<r, wk[r].attempt>>) \in Changes /\ Change(e, <<r, wk[r].attempt>>).by \subseteq W
      BY <1>1, <3>2, ChangeTyped
    <3>4. Written(d.tree, Change(e, <<r, wk[r].attempt>>)) \in Own(W)
      <4> HIDE DEF d, W
      <4> QED BY <1>5, <3>3, WrittenTyped
    <3>5. tree = Written(d.tree, Change(e, <<r, wk[r].attempt>>))
      BY <3>1
    <3> QED BY <3>4, <3>5
  <2> QED BY <2>1, <2>2
<1>7. after \in Seq(Own(W)) /\ {} \in Own(W) /\ <<>> \in Seq(Own(W)) /\ Own(W) \subseteq SUBSET Changes
  <2>1. {} \in Own(W) /\ Own(W) \subseteq SUBSET Changes
    BY DEF Own
  <2> HIDE DEF d, tree, W
  <2> QED BY <1>5, <1>6, <2>1
<1>8. after \in Commits
  <2> HIDE DEF after, W
  <2> QED BY <1>7, SeqGrows DEF Commits
<1> HIDE DEF W, d, tree, after
<1>9. \E x \in Dirs : /\ dirs' = [dirs EXCEPT ![r][wk[r].ws] = x]
                      /\ x.head \in Seq(Own(W)) /\ x.tree \in Own(W)
  <2>1. \/ dirs' = [dirs EXCEPT ![r][wk[r].ws].tree = tree]
        \/ dirs' = [dirs EXCEPT ![r][wk[r].ws] = [d EXCEPT !.head = after, !.tree = {}]]
    BY <1>4, Zenon DEF d, tree, after
  <2>2. [dirs EXCEPT ![r][wk[r].ws].tree = tree] = [dirs EXCEPT ![r][wk[r].ws] = [d EXCEPT !.tree = tree]]
    BY DEF Dir, d
  <2>3. /\ [d EXCEPT !.tree = tree] \in Dirs
        /\ [d EXCEPT !.tree = tree].head = d.head /\ [d EXCEPT !.tree = tree].tree = tree
        /\ [d EXCEPT !.head = after, !.tree = {}] \in Dirs
        /\ [d EXCEPT !.head = after, !.tree = {}].head = after /\ [d EXCEPT !.head = after, !.tree = {}].tree = {}
    BY <1>5, <1>6, <1>7, <1>8 DEF Dirs
  <2> QED BY <1>5, <1>6, <1>7, <2>1, <2>2, <2>3
<1>10. OwnDirs(dirs', Fixed)
  <2>1. PICK x \in Dirs : /\ dirs' = [dirs EXCEPT ![r][wk[r].ws] = x]
                          /\ x.head \in Seq(Own(W)) /\ x.tree \in Own(W)
    BY <1>9
  <2>2. OwnDirs([dirs EXCEPT ![r][wk[r].ws] = x], Fixed)
    BY <1>1, <1>5, <2>1, OwnDirsWritten DEF W
  <2> QED BY <2>1, <2>2
<1>11. \E f : wk' = [wk EXCEPT ![r].pc = "finalized", ![r].fin = f] /\ f.sha.commit \in {<<>>, after}
  <2>1. \A s, c, t, ch : /\ Outcome(s, c, t, NoCommit, ch).sha.commit \in {<<>>, after}
                         /\ Outcome(s, c, t, Sha(after), ch).sha.commit \in {<<>>, after}
    BY DEF Outcome, NoCommit, Sha
  <2>2. \/ \E text \in job.testFailures : Finalizes(r, Outcome("FAILED", "TASK_TESTS_FAILED", text, NoCommit, d.tree))
        \/ Finalizes(r, Outcome("FAILED", "COMMIT_FAILED", "none", NoCommit, d.tree))
        \/ Finalizes(r, Outcome("COMPLETED", "none", "none", Sha(after), d.tree))
        \/ Finalizes(r, Outcome("FAILED", "GIT_EXECUTION_FAILED", "none", Sha(after), d.tree))
    BY <1>4, Zenon DEF d, tree, after
  <2>3. \E f : Finalizes(r, f) /\ f.sha.commit \in {<<>>, after}
    BY <2>1, <2>2
  <2> QED BY <2>3, Zenon DEF Finalizes
<1>12. wk'[r].fin.sha.commit \in {<<>>, after}
  BY <1>1, <1>11 DEF Run
<1> QED BY <1>3, <1>7, <1>10, <1>12 DEF TestAndCommit

\* The remote branch moves by a push of a run.
LEMMA RefsKept ==
  [Next]_vars => UNCHANGED refs \/ OtherPush \/ \E r \in Runs : Push(r)
<1>1. ASSUME IntakeStep \/ RollbackIntake \/ Requeue \/ UNCHANGED vars
      PROVE  UNCHANGED refs
  BY <1>1 DEF IntakeStep, ProcessIntake, InsertTask, StoreSpec, SealSpec, CommitIntake, RollbackIntake, Requeue, vars
<1>2. ASSUME NEW g \in Agents, WriteFile(g) \/ RunCommand(g) \/ GitCommit(g)
      PROVE  UNCHANGED refs
  BY <1>2 DEF WriteFile, RunCommand, GitCommit
<1>3. ASSUME NEW r \in Runs, RunAct(r)
      PROVE  UNCHANGED refs \/ Push(r)
  BY <1>3 DEF RunAct, RunStep, Answer, Claim, Blocked, StartRunning, CheckSpec, NoBudget, StartAttempt, StartError,
              ProviderReturns, ProviderTimesOut, DeadlinePasses, Cancel, AttemptCancelled, AttemptWins, AgentThrows,
              AttemptFails, NextProvider, EndAttempts, Inspect, TestAndCommit, StartCorrection, CorrectionReturns,
              Judge, StartPersistence, InspectRemote, ScanRange, Verify, Complete, Leave, Crash
<1> QED BY <1>1, <1>2, <1>3, NextCases DEF WorldAct

\* Only a finalization that committed names a new commit.
LEMMA ShaKept ==
  ASSUME Typed, NEW r \in Runs, RunAct(r)
  PROVE  TestAndCommit(r) \/ wk'[r].fin.sha \in {wk[r].fin.sha, NoCommit}
<1>1. wk \in [Runs -> Run] /\ wk[r] \in Run /\ wk[r].fin \in Fins
  BY DEF Typed, Run
<1>2. ASSUME \/ Claim(r) \/ Blocked(r) \/ StartRunning(r) \/ CheckSpec(r) \/ NoBudget(r) \/ StartAttempt(r)
             \/ StartError(r) \/ ProviderReturns(r) \/ ProviderTimesOut(r) \/ DeadlinePasses(r) \/ Cancel(r)
      PROVE  wk'[r].fin = wk[r].fin
  <2>1. ASSUME ProviderReturns(r) PROVE wk'[r].fin = wk[r].fin
    <3>1. \E out : wk' = [wk EXCEPT ![r].pc = "returned", ![r].out = out]
      BY <2>1, Zenon DEF ProviderReturns
    <3> QED BY <1>1, <3>1 DEF Run
  <2>2. ASSUME StartAttempt(r) \/ DeadlinePasses(r) \/ NoBudget(r)
        PROVE  wk'[r].fin = wk[r].fin
    BY <1>1, <2>2, ZenonT(60) DEF StartAttempt, DeadlinePasses, NoBudget, Ran, Run
  <2>4. ASSUME Cancel(r)
        PROVE  wk'[r].fin = wk[r].fin
    BY <1>1, <2>4 DEF Cancel, Run
  <2>5. ASSUME ProviderTimesOut(r)
        PROVE  wk'[r].fin = wk[r].fin
    BY <1>1, <2>5 DEF ProviderTimesOut, Run
  <2>begins. ASSUME Claim(r) \/ Blocked(r) \/ StartRunning(r) \/ CheckSpec(r) \/ StartError(r)
        PROVE  wk'[r].fin = wk[r].fin
    BY <1>1, <2>begins, ZenonT(60) DEF Claim, Blocked, StartRunning, CheckSpec, StartError, Goes, Leaves, Ran, Run
  <2> QED BY <1>2, <2>1, <2>2, <2>begins, <2>4, <2>5
<1>3. ASSUME \/ AttemptCancelled(r) \/ AttemptWins(r) \/ AgentThrows(r) \/ AttemptFails(r) \/ NextProvider(r)
             \/ EndAttempts(r) \/ StartCorrection(r) \/ CorrectionReturns(r)
      PROVE  wk'[r].fin = wk[r].fin
  BY <1>1, <1>3 DEF AttemptCancelled, AttemptWins, AgentThrows, AttemptFails, NextProvider, EndAttempts,
                    StartCorrection, CorrectionReturns, Goes, Leaves, Ran, Run
<1>4. ASSUME \/ InspectRemote(r) \/ ScanRange(r) \/ Push(r) \/ Verify(r) \/ Complete(r) \/ Leave(r) \/ Crash(r)
      PROVE  wk'[r].fin = wk[r].fin
  BY <1>1, <1>4 DEF InspectRemote, ScanRange, Push, Verify, Complete, Leave, Crash, Goes, Persisted, Run
<1>5. CASE Inspect(r)
  <2>1. \/ \E s, c, t, ch : Finalizes(r, Outcome(s, c, t, NoCommit, ch))
        \/ Goes(r, "tests")
    BY <1>5, Zenon DEF Inspect
  <2>2. \A s, c, t, ch : Outcome(s, c, t, NoCommit, ch).sha = NoCommit
    BY DEF Outcome
  <2>3. \/ \E f : Finalizes(r, f) /\ f.sha = NoCommit
        \/ Goes(r, "tests")
    BY <2>1, <2>2
  <2> QED BY <1>1, <2>3 DEF Finalizes, Goes, Run
<1>6. CASE Judge(r)
  <2>1. \A s, c : [wk[r].fin EXCEPT !.status = s, !.code = c].sha = wk[r].fin.sha
    BY <1>1 DEF Fins
  <2>2. Judged(r, wk[r].fin) \/ \E s, c : Judged(r, [wk[r].fin EXCEPT !.status = s, !.code = c])
    BY <1>6, Zenon DEF Judge
  <2>3. \E f : Judged(r, f) /\ f.sha = wk[r].fin.sha
    BY <2>1, <2>2, Zenon
  <2> QED BY <1>1, <2>3 DEF Judged, Run
<1>7. CASE StartPersistence(r)
  <2>1. \/ \E p : wk' = [wk EXCEPT ![r].pc = "gate", ![r].persisted = p]
        \/ wk' = [wk EXCEPT ![r].pc = "gate", ![r].fin.status = "FAILED", ![r].fin.code = "KILL_SWITCH"]
        \/ wk' = [wk EXCEPT ![r].pc = "remote"]
    BY <1>7, Zenon DEF StartPersistence, Persisted, Goes
  <2> QED BY <1>1, <2>1 DEF Run, Fins
<1> QED BY <1>2, <1>3, <1>4, <1>5, <1>6, <1>7 DEF RunAct, RunStep, Answer

LEMMA OwnStep ==
  ASSUME Typed, OwnWork, \A q \in Runs : Phase(wk[q]), [Next]_vars
  PROVE  OwnWork'
<1>1. Fixed \subseteq Fixed'
  BY PhaseStep
<1>2. Own(Fixed) \subseteq Own(Fixed') /\ Seq(Own(Fixed)) \subseteq Seq(Own(Fixed'))
  BY <1>1, OwnGrows
<1>3. \A q \in Runs : wk[q].fin.sha.commit \in Seq(Own(Fixed))
  BY DEF OwnWork
<1>4. <<>> \in Seq(Own(Fixed)) /\ NoCommit.commit = <<>>
  BY DEF NoCommit
<1>5. \A q \in Runs : wk'[q].fin.sha.commit \in Seq(Own(Fixed))
  <2>1. CASE WorldAct
    BY <1>3, <2>1, WorldKeepsRuns DEF Still
  <2>2. ASSUME NEW r \in Runs, RunAct(r) PROVE \A q \in Runs : wk'[q].fin.sha.commit \in Seq(Own(Fixed))
    <3>1. \A q \in Runs \ {r} : wk'[q] = wk[q]
      BY <2>2, RunStepOf
    <3>2. wk'[r].fin.sha.commit \in Seq(Own(Fixed))
      BY <1>3, <1>4, <2>2, ShaKept, TestsKeepOwn
    <3> QED BY <1>3, <3>1, <3>2
  <2> QED BY <2>1, <2>2, NextCases
<1>6. OwnDirs(dirs', Fixed) /\ (\A g \in zombies : g[2] = g[3])'
  <2>1. OwnDirs(dirs, Fixed) /\ \A g \in zombies : g[2] = g[3]
    BY DEF OwnWork
  <2>2. CASE UNCHANGED <<dirs, zombies>>
    BY <2>1, <2>2
  <2>3. ASSUME \/ IntakeStep \/ RollbackIntake \/ Requeue \/ OtherPush \/ UNCHANGED vars
        PROVE  UNCHANGED <<dirs, zombies>>
    BY <2>3 DEF IntakeStep, ProcessIntake, InsertTask, StoreSpec, SealSpec, CommitIntake, RollbackIntake, Requeue,
                OtherPush, vars
  <2>4. ASSUME NEW g \in Agents, WriteFile(g) \/ RunCommand(g) \/ GitCommit(g)
        PROVE  OwnDirs(dirs', Fixed) /\ (\A h \in zombies : h[2] = h[3])'
    BY <2>1, <2>4, ToolsKeepOwn
  <2>5. ASSUME NEW r \in Runs,
               \/ Claim(r) \/ Blocked(r) \/ StartRunning(r) \/ CheckSpec(r) \/ NoBudget(r) \/ ProviderReturns(r)
               \/ DeadlinePasses(r) \/ Cancel(r) \/ AttemptWins(r) \/ AgentThrows(r) \/ EndAttempts(r)
               \/ CorrectionReturns(r) \/ StartCorrection(r) \/ InspectRemote(r) \/ ScanRange(r) \/ Verify(r)
               \/ Complete(r) \/ Inspect(r) \/ Judge(r) \/ StartPersistence(r) \/ Push(r)
        PROVE  UNCHANGED <<dirs, zombies>>
    BY <2>5 DEF Claim, Blocked, StartRunning, CheckSpec, NoBudget, ProviderReturns, DeadlinePasses, Cancel, AttemptWins,
                AgentThrows, EndAttempts, CorrectionReturns, StartCorrection, InspectRemote, ScanRange, Verify, Complete,
                Inspect, Judge, StartPersistence, Push
  <2>6. ASSUME NEW r \in Runs, RunAct(r) PROVE OwnDirs(dirs', Fixed) /\ (\A g \in zombies : g[2] = g[3])'
    <3>1. CASE TestAndCommit(r)
      BY <2>1, <3>1, TestsKeepOwn
    <3>2. CASE \/ StartAttempt(r) \/ StartError(r) \/ AttemptCancelled(r) \/ AttemptFails(r) \/ NextProvider(r)
               \/ Leave(r) \/ ProviderTimesOut(r) \/ Crash(r)
      BY <3>2, PlacesKeepOwn
    <3> QED BY <2>2, <2>5, <2>6, <3>1, <3>2 DEF RunAct, RunStep, Answer
  <2> QED BY <2>2, <2>3, <2>4, <2>6, NextCases DEF WorldAct
<1>7. refs'.work.commit \in Seq(Own(Fixed))
  <2>1. refs \in [main : Seq({{}}), work : Shas] /\ refs.work.commit \in Seq(Own(Fixed))
    BY DEF Typed, OwnWork
  <2>2. ASSUME NEW r \in Runs, Push(r) PROVE refs'.work \in {refs.work, wk[r].fin.sha}
    BY <2>1, <2>2 DEF Push
  <2>3. ASSUME OtherPush PROVE refs'.work = refs.work
    BY <2>1, <2>3 DEF OtherPush
  <2> QED BY <1>3, <2>1, <2>2, <2>3, RefsKept
<1>8. OwnDirs(dirs', Fixed')
  BY <1>1, <1>6, OwnDirsGrow
<1> QED BY <1>2, <1>5, <1>6, <1>7, <1>8 DEF OwnWork

-----------------------------------------------------------------------------
(* What reaches the remote, and what the row says of it *)

\* How far a run has come with its push.
Pushing(w, R) ==
  /\ w.pc \in {"remote", "scan", "push", "verify"} => w.fin.sha.on
  /\ w.pc = "scan" => w.base \in Seq(Clean)
  /\ w.pc \in {"push", "verify"} => w.fin.sha.commit \in Seq(Clean)
  /\ w.persisted = "VERIFIED" => /\ w.pc \in {"gate", "leaving", "done", "dead"}
                                 /\ R.work.on /\ IsPrefix(w.fin.sha.commit, R.work.commit)

Durable ==
  /\ \A q \in Runs : Pushing(wk[q], refs)
  /\ refs.work.commit \in Seq(Clean)
  /\ CompletedIsPersisted

Grew(R, S) == R.work.on => S.work.on /\ IsPrefix(R.work.commit, S.work.commit)

\* The remote branch only grows: a push is a fast-forward.
LEMMA RemoteGrows ==
  ASSUME Typed, \A q \in Runs : Pushing(wk[q], refs), [Next]_vars
  PROVE  Grew(refs, refs')
<1>1. /\ refs \in [main : Seq({{}}), work : Shas] /\ refs.work.commit \in Commits
      /\ \A r \in Runs : wk[r].fin.sha \in Shas
  BY DEF Typed, Shas, Run, Fins
<1>2. IsPrefix(refs.work.commit, refs.work.commit)
  BY <1>1, PrefixReflexive DEF Commits
<1>3. CASE refs'.work = refs.work
  BY <1>2, <1>3 DEF Grew
<1>4. ASSUME NEW r \in Runs, FastForward(r), refs'.work = wk[r].fin.sha, wk[r].fin.sha.on
      PROVE  Grew(refs, refs')
  BY <1>4 DEF FastForward, Grew
<1>5. ASSUME OtherPush PROVE refs'.work = refs.work
  BY <1>1, <1>5 DEF OtherPush
<1>6. ASSUME NEW r \in Runs, Push(r)
      PROVE  refs'.work = refs.work \/ (FastForward(r) /\ refs'.work = wk[r].fin.sha /\ wk[r].fin.sha.on)
  <2>1. wk[r].pc = "push" /\ wk[r].fin.sha.on
    BY <1>6 DEF Push, Pushing
  <2>2. refs' = refs \/ (FastForward(r) /\ refs' = [refs EXCEPT !.work = wk[r].fin.sha])
    BY <1>6, Zenon DEF Push
  <2> QED BY <1>1, <2>1, <2>2
<1> QED BY <1>3, <1>4, <1>5, <1>6, RefsKept

\* What was on the remote stays there.
LEMMA PushingGrows ==
  ASSUME NEW w \in Run, NEW R \in [main : Seq({{}}), work : Shas], NEW S \in [main : Seq({{}}), work : Shas],
         Pushing(w, R), Grew(R, S)
  PROVE  Pushing(w, S)
<1>1. /\ w.fin.sha.commit \in Seq(SUBSET Changes) /\ R.work.commit \in Seq(SUBSET Changes)
      /\ S.work.commit \in Seq(SUBSET Changes)
  BY DEF Run, Fins, Shas, Commits
<1>2. ASSUME IsPrefix(w.fin.sha.commit, R.work.commit), IsPrefix(R.work.commit, S.work.commit)
      PROVE  IsPrefix(w.fin.sha.commit, S.work.commit)
  BY <1>1, <1>2, PrefixTransitive
<1> QED BY <1>2 DEF Pushing, Grew

\* Until the finalization is judged nothing is pushed.
LEMMA NotPushingYet ==
  ASSUME Typed, NEW r \in Runs, Pushing(wk[r], refs),
         \/ Claim(r) \/ Blocked(r) \/ StartRunning(r) \/ CheckSpec(r) \/ NoBudget(r) \/ StartAttempt(r)
         \/ StartError(r) \/ ProviderReturns(r) \/ ProviderTimesOut(r) \/ DeadlinePasses(r) \/ Cancel(r)
         \/ AttemptCancelled(r) \/ AttemptWins(r) \/ AgentThrows(r) \/ AttemptFails(r) \/ NextProvider(r)
         \/ EndAttempts(r) \/ Inspect(r) \/ TestAndCommit(r) \/ StartCorrection(r) \/ CorrectionReturns(r)
         \/ Judge(r)
  PROVE  Pushing(wk'[r], refs')
<1>1. wk \in [Runs -> Run] /\ wk[r] \in Run
  BY DEF Typed
<1> DEFINE Late == {"remote", "scan", "push", "verify"}
           Over == {"gate", "leaving", "done", "dead"}
<1>2. SUFFICES wk[r].pc \notin Over /\ wk'[r].persisted = wk[r].persisted /\ wk'[r].pc \notin Late
  BY DEF Pushing
<1>3. CASE Claim(r) \/ Blocked(r) \/ StartRunning(r) \/ NoBudget(r)
  BY <1>1, <1>3 DEF Claim, Blocked, StartRunning, NoBudget, Ran, Goes, Run
<1>4. CASE CheckSpec(r)
  BY <1>1, <1>4 DEF CheckSpec, Leaves, Run
<1>14. CASE StartAttempt(r) \/ StartError(r)
  <2>1. wk[r].pc = "attempt"
    BY <1>14 DEF StartAttempt, StartError
  <2>2. \/ wk' = [wk EXCEPT ![r].pc = "agent", ![r].ws = Workspace(r), ![r].declared = {}]
        \/ wk' = [wk EXCEPT ![r].pc = "ran", ![r].out = "START_ERROR"]
        \/ wk' = [wk EXCEPT ![r].pc = "leaving"]
    BY <1>14, Zenon DEF StartAttempt, StartError, Leaves, Ran
  <2> QED BY <1>1, <2>1, <2>2 DEF Run
<1>5. CASE ProviderReturns(r)
  <2>1. \E out : wk' = [wk EXCEPT ![r].pc = "returned", ![r].out = out]
    BY <1>5, Zenon DEF ProviderReturns
  <2>2. wk[r].pc = "agent"
    BY <1>5 DEF ProviderReturns
  <2> QED BY <1>1, <2>1, <2>2 DEF Run
<1>6. CASE ProviderTimesOut(r)
  BY <1>1, <1>6 DEF ProviderTimesOut, Run
<1>7. CASE DeadlinePasses(r)
  BY <1>1, <1>7 DEF DeadlinePasses, Run
<1>8. CASE Cancel(r)
  BY <1>1, <1>8 DEF Cancel, Run
<1>9. CASE AttemptCancelled(r) \/ AttemptWins(r) \/ AgentThrows(r) \/ NextProvider(r)
  BY <1>1, <1>9 DEF AttemptCancelled, AttemptWins, AgentThrows, NextProvider, Leaves, Ran, Goes, Run
<1>10. CASE AttemptFails(r)
  <2>1. \E out : Ran(r, out)
    BY <1>10, Zenon DEF AttemptFails
  <2> QED BY <1>1, <1>10, <2>1 DEF AttemptFails, Ran, Run
<1>11. CASE EndAttempts(r) \/ StartCorrection(r) \/ CorrectionReturns(r)
  BY <1>1, <1>11 DEF EndAttempts, StartCorrection, CorrectionReturns, Leaves, Goes, Run
<1>12. CASE Inspect(r) \/ TestAndCommit(r)
  <2>1. \/ \E f : wk' = [wk EXCEPT ![r].pc = "finalized", ![r].fin = f]
        \/ wk' = [wk EXCEPT ![r].pc = "tests"]
    BY <1>12, Zenon DEF Inspect, TestAndCommit, Finalizes, Goes
  <2>2. wk[r].pc \in {"testing", "tests"}
    BY <1>12 DEF Inspect, TestAndCommit
  <2> QED BY <1>1, <2>1, <2>2 DEF Run
<1>13. CASE Judge(r)
  <2>1. \E f : wk' = [wk EXCEPT ![r].pc = "judged", ![r].fin = f]
    BY <1>13, Zenon DEF Judge, Judged
  <2>2. wk[r].pc = "finalized"
    BY <1>13 DEF Judge
  <2> QED BY <1>1, <2>1, <2>2 DEF Run
<1> QED BY <1>3, <1>4, <1>5, <1>6, <1>7, <1>8, <1>9, <1>10, <1>11, <1>12, <1>13, <1>14

\* The push itself: the scan makes the commit clean, the push and the verification make it durable.
LEMMA PushingOn ==
  ASSUME Typed, NEW r \in Runs, Pushing(wk[r], refs), refs.work.commit \in Seq(Clean),
         \/ StartPersistence(r) \/ InspectRemote(r) \/ ScanRange(r) \/ Push(r) \/ Verify(r) \/ Complete(r)
         \/ Leave(r) \/ Crash(r)
  PROVE  Pushing(wk'[r], refs')
<1>1. /\ wk \in [Runs -> Run] /\ wk[r] \in Run /\ wk[r].fin \in Fins /\ wk[r].base \in Commits
      /\ wk[r].fin.sha \in Shas /\ wk[r].fin.sha.commit \in Commits
      /\ refs \in [main : Seq({{}}), work : Shas] /\ refs.work \in Shas
  BY DEF Typed, Run, Fins, Shas
<1>2. \A p \in Results : p # "VERIFIED" => \A R : Pushing([wk EXCEPT ![r].pc = "gate", ![r].persisted = p][r], R)
  BY <1>1 DEF Pushing, Run
<1>3. IsPrefix(wk[r].fin.sha.commit, wk[r].fin.sha.commit)
  BY <1>1, PrefixReflexive DEF Commits
<1>4. ASSUME wk[r].fin.sha.on, refs'.work = wk[r].fin.sha
      PROVE  Pushing([wk EXCEPT ![r].pc = "gate", ![r].persisted = "VERIFIED"][r], refs')
  BY <1>1, <1>3, <1>4 DEF Pushing, Run
<1>5. CASE StartPersistence(r)
  <2>1. wk[r].pc = "judged" /\ wk[r].persisted # "VERIFIED"
    BY <1>5 DEF StartPersistence, Pushing
  <2>2. StaticFault(r) \in Results \ {"VERIFIED"} /\ {"none", "NOT_REQUESTED"} \subseteq Results \ {"VERIFIED"}
    BY DEF StaticFault, Results
  <2>3. \/ \E p \in Results \ {"VERIFIED"} : wk' = [wk EXCEPT ![r].pc = "gate", ![r].persisted = p]
        \/ wk' = [wk EXCEPT ![r].pc = "gate", ![r].fin.status = "FAILED", ![r].fin.code = "KILL_SWITCH"]
        \/ wk' = [wk EXCEPT ![r].pc = "remote"] /\ wk[r].fin.sha.on
    <3>1. "none" \in Results \ {"VERIFIED"} /\ "NOT_REQUESTED" \in Results \ {"VERIFIED"}
      BY <2>2
    <3> QED BY <1>5, <2>2, <3>1, Zenon DEF StartPersistence, Persistable, Persisted, Goes
  <2>4. CASE \E p \in Results \ {"VERIFIED"} : wk' = [wk EXCEPT ![r].pc = "gate", ![r].persisted = p]
    BY <1>2, <2>4
  <2>5. CASE wk' = [wk EXCEPT ![r].pc = "gate", ![r].fin.status = "FAILED", ![r].fin.code = "KILL_SWITCH"]
    BY <1>1, <2>1, <2>5 DEF Pushing, Run
  <2>6. CASE wk' = [wk EXCEPT ![r].pc = "remote"] /\ wk[r].fin.sha.on
    BY <1>1, <2>1, <2>6 DEF Pushing, Run
  <2> QED BY <2>3, <2>4, <2>5, <2>6
<1>6. CASE InspectRemote(r)
  <2>1. wk[r].pc = "remote" /\ wk[r].persisted # "VERIFIED" /\ wk[r].fin.sha.on /\ refs' = refs
    BY <1>6 DEF InspectRemote, Pushing
  <2>2. refs.main \in Seq(Clean)
    BY <1>1, MainIsHarmless
  <2>3. \/ wk' = [wk EXCEPT ![r].pc = "gate", ![r].persisted = "REMOTE_INSPECTION_FAILED"]
        \/ refs.work = wk[r].fin.sha /\ wk' = [wk EXCEPT ![r].pc = "gate", ![r].persisted = "VERIFIED"]
        \/ \E b \in Seq(Clean) : wk' = [wk EXCEPT ![r].pc = "scan", ![r].base = b]
    BY <1>6, <2>2, Zenon DEF InspectRemote, Persisted
  <2>4. CASE wk' = [wk EXCEPT ![r].pc = "gate", ![r].persisted = "REMOTE_INSPECTION_FAILED"]
    BY <1>2, <2>4 DEF Results
  <2>5. CASE refs.work = wk[r].fin.sha /\ wk' = [wk EXCEPT ![r].pc = "gate", ![r].persisted = "VERIFIED"]
    BY <1>4, <2>1, <2>5
  <2>6. ASSUME NEW b \in Seq(Clean), wk' = [wk EXCEPT ![r].pc = "scan", ![r].base = b]
        PROVE  Pushing(wk'[r], refs')
    BY <1>1, <2>1, <2>6 DEF Pushing, Run
  <2> QED BY <2>3, <2>4, <2>5, <2>6
<1>7. CASE ScanRange(r)
  <2>1. wk[r].pc = "scan" /\ wk[r].persisted # "VERIFIED" /\ wk[r].fin.sha.on /\ wk[r].base \in Seq(Clean)
    BY <1>7 DEF ScanRange, Pushing
  <2>2. \/ \E p \in Results \ {"VERIFIED"} : wk' = [wk EXCEPT ![r].pc = "gate", ![r].persisted = p]
        \/ /\ IsPrefix(wk[r].base, wk[r].fin.sha.commit) /\ ChangesetAllowed(Touched(PushRange(r)))
           /\ wk' = [wk EXCEPT ![r].pc = "push"]
    BY <1>7 DEF ScanRange, Persisted, Goes, Results
  <2>3. CASE \E p \in Results \ {"VERIFIED"} : wk' = [wk EXCEPT ![r].pc = "gate", ![r].persisted = p]
    BY <1>2, <2>3
  <2>4. CASE /\ IsPrefix(wk[r].base, wk[r].fin.sha.commit) /\ ChangesetAllowed(Touched(PushRange(r)))
             /\ wk' = [wk EXCEPT ![r].pc = "push"]
    <3>1. wk[r].fin.sha.commit \in Seq(Clean)
      BY <1>1, <2>1, <2>4, RangeIsClean DEF PushRange
    <3> QED BY <1>1, <2>1, <2>4, <3>1 DEF Pushing, Run
  <2> QED BY <2>2, <2>3, <2>4
<1>8. CASE Push(r)
  <2>1. /\ wk[r].pc = "push" /\ wk[r].persisted # "VERIFIED" /\ wk[r].fin.sha.on
        /\ wk[r].fin.sha.commit \in Seq(Clean)
    BY <1>8 DEF Push, Pushing
  <2>2. wk' = [wk EXCEPT ![r].pc = "verify"] \/ wk' = [wk EXCEPT ![r].pc = "gate", ![r].persisted = "PUSH_FAILED"]
    BY <1>8, Zenon DEF Push, Persisted, Goes
  <2> QED BY <1>1, <2>1, <2>2 DEF Pushing, Run
<1>9. CASE Verify(r)
  <2>1. wk[r].pc = "verify" /\ wk[r].persisted # "VERIFIED" /\ wk[r].fin.sha.on /\ refs' = refs
    BY <1>9 DEF Verify, Pushing
  <2>2. \/ \E p \in Results \ {"VERIFIED"} : wk' = [wk EXCEPT ![r].pc = "gate", ![r].persisted = p]
        \/ refs.work = wk[r].fin.sha /\ wk' = [wk EXCEPT ![r].pc = "gate", ![r].persisted = "VERIFIED"]
    BY <1>9 DEF Verify, Persisted, Results
  <2>3. CASE \E p \in Results \ {"VERIFIED"} : wk' = [wk EXCEPT ![r].pc = "gate", ![r].persisted = p]
    BY <1>2, <2>3
  <2>4. CASE refs.work = wk[r].fin.sha /\ wk' = [wk EXCEPT ![r].pc = "gate", ![r].persisted = "VERIFIED"]
    BY <1>4, <2>1, <2>4
  <2> QED BY <2>2, <2>3, <2>4
<1>10. CASE Complete(r)
  BY <1>1, <1>10 DEF Complete, Goes, Pushing, Run
<1>11. CASE Leave(r)
  BY <1>1, <1>11 DEF Leave, Pushing, Run
<1>12. CASE Crash(r)
  BY <1>1, <1>12 DEF Crash, Pushing, Run
<1> QED BY <1>5, <1>6, <1>7, <1>8, <1>9, <1>10, <1>11, <1>12

\* The job is what it was at the start.
LEMMA JobKept ==
  ASSUME [Next]_vars
  PROVE  job' = job
<1>1. ASSUME IntakeStep \/ RollbackIntake \/ Requeue \/ OtherPush \/ UNCHANGED vars
      PROVE  job' = job
  BY <1>1 DEF IntakeStep, ProcessIntake, InsertTask, StoreSpec, SealSpec, CommitIntake, RollbackIntake, Requeue,
              OtherPush, vars
<1>2. ASSUME NEW g \in Agents, WriteFile(g) \/ RunCommand(g) \/ GitCommit(g)
      PROVE  job' = job
  BY <1>2 DEF WriteFile, RunCommand, GitCommit
<1>3. ASSUME NEW r \in Runs, RunAct(r)
      PROVE  job' = job
  BY <1>3 DEF RunAct, RunStep, Answer, Claim, Blocked, StartRunning, CheckSpec, NoBudget, StartAttempt, StartError,
              ProviderReturns, ProviderTimesOut, DeadlinePasses, Cancel, AttemptCancelled, AttemptWins, AgentThrows,
              AttemptFails, NextProvider, EndAttempts, Inspect, TestAndCommit, StartCorrection, CorrectionReturns,
              Judge, StartPersistence, InspectRemote, ScanRange, Push, Verify, Complete, Leave, Crash
<1> QED BY <1>1, <1>2, <1>3, NextCases DEF WorldAct

\* A row becomes completed only with what its run has verified on the remote.
LEMMA CompletedStep ==
  ASSUME Typed, Typed', Durable, [Next]_vars
  PROVE  CompletedIsPersisted'
<1>1. Grew(refs, refs')
  BY RemoteGrows DEF Durable
<1>2. /\ refs.work.commit \in Seq(SUBSET Changes) /\ refs'.work.commit \in Seq(SUBSET Changes)
      /\ task.sha.commit \in Seq(SUBSET Changes)
      /\ \A r \in Runs : wk[r].fin.sha.commit \in Seq(SUBSET Changes)
      /\ task \in [status : Statuses, sha : Shas]
  BY DEF Typed, Shas, Run, Fins, Commits
<1>3. ASSUME NEW c \in Seq(SUBSET Changes), refs.work.on, IsPrefix(c, refs.work.commit)
      PROVE  refs'.work.on /\ IsPrefix(c, refs'.work.commit)
  <2>1. refs'.work.on /\ IsPrefix(refs.work.commit, refs'.work.commit)
    BY <1>1, <1>3 DEF Grew
  <2> QED BY <1>2, <1>3, <2>1, PrefixTransitive
<1>4. job' = job
  BY JobKept
<1>5. CASE UNCHANGED task
  BY <1>2, <1>3, <1>4, <1>5 DEF Durable, CompletedIsPersisted
<1>6. CASE \E s \in Statuses \ {"COMPLETED"} : Save(s, task.sha)
  BY <1>2, <1>6 DEF Save, CompletedIsPersisted
<1>7. ASSUME NEW r \in Runs, Complete(r) PROVE CompletedIsPersisted'
  <2>1. \E s : Save(s, wk[r].fin.sha) /\ (s = "COMPLETED" => EvaluatePersistenceGate(r))
    BY <1>7 DEF Complete
  <2>2. task'.sha = wk[r].fin.sha /\ (task'.status = "COMPLETED" => EvaluatePersistenceGate(r))
    BY <1>2, <2>1 DEF Save
  <2>3. ASSUME task'.status = "COMPLETED", task'.sha.on, ~job.prototype
        PROVE  wk[r].persisted = "VERIFIED"
    BY <2>2, <2>3 DEF EvaluatePersistenceGate
  <2>4. ASSUME wk[r].persisted = "VERIFIED"
        PROVE  refs'.work.on /\ IsPrefix(wk[r].fin.sha.commit, refs'.work.commit)
    BY <1>2, <1>3, <2>4 DEF Durable, Pushing
  <2> QED BY <1>4, <2>2, <2>3, <2>4 DEF CompletedIsPersisted
<1> QED BY <1>5, <1>6, <1>7, RowWrites

LEMMA DurableStep ==
  ASSUME Typed, Typed', Durable, \A q \in Runs : Phase(wk[q]), [Next]_vars
  PROVE  Durable'
<1>1. Grew(refs, refs')
  BY RemoteGrows DEF Durable
<1>2. \A q \in Runs : Pushing(wk[q], refs')
  BY <1>1, PushingGrows DEF Durable, Typed
<1>3. \A q \in Runs : Pushing(wk'[q], refs')
  <2>1. CASE WorldAct
    BY <1>2, <2>1, WorldKeepsRuns DEF Still, Pushing
  <2>2. ASSUME NEW r \in Runs, RunAct(r) PROVE \A q \in Runs : Pushing(wk'[q], refs')
    <3>1. \A q \in Runs \ {r} : wk'[q] = wk[q]
      BY <2>2, RunStepOf
    <3>2. Pushing(wk'[r], refs')
      BY <2>2, NotPushingYet, PushingOn DEF Durable, RunAct, RunStep, Answer
    <3> QED BY <1>2, <3>1, <3>2
  <2> QED BY <2>1, <2>2, NextCases
<1>4. refs'.work.commit \in Seq(Clean)
  <2>1. refs \in [main : Seq({{}}), work : Shas] /\ refs.work.commit \in Seq(Clean)
    BY DEF Typed, Durable
  <2>2. ASSUME NEW r \in Runs, Push(r) PROVE refs'.work.commit \in Seq(Clean)
    <3>1. wk[r].fin.sha.commit \in Seq(Clean)
      BY <2>2 DEF Push, Durable, Pushing
    <3>2. refs'.work \in {refs.work, wk[r].fin.sha}
      BY <2>1, <2>2 DEF Push
    <3> QED BY <2>1, <3>1, <3>2
  <2>3. ASSUME OtherPush PROVE refs'.work = refs.work
    BY <2>1, <2>3 DEF OtherPush
  <2> QED BY <2>1, <2>2, <2>3, RefsKept
<1> QED BY <1>3, <1>4, CompletedStep DEF Durable

-----------------------------------------------------------------------------
(* The invariant *)

Inv == Typed /\ (\A q \in Runs : Phase(wk[q])) /\ OwnWork /\ Durable

LEMMA InvInitially == Init => Inv
<1> SUFFICES ASSUME Init PROVE Inv
  OBVIOUS
<1>1. Typed
  BY TypedInitially
<1>2. \A q \in Runs : wk[q] = Idle
  BY DEF Init
<1>3. \A q \in Runs : Phase(wk[q])
  BY <1>2 DEF Idle, Phase
<1>4. /\ \A q \in Runs, a \in Attempts : dirs[q][a] = NoDir
      /\ refs.work.commit = <<>> /\ zombies = {} /\ task.status # "COMPLETED"
      /\ NoDir.head = <<>> /\ NoDir.tree = {} /\ Idle.fin.sha.commit = <<>> /\ Idle.pc = "idle"
      /\ Idle.persisted # "VERIFIED"
  BY DEF Init, NoDir, NoCommit, Idle, NoFin
<1>5. /\ \A W : <<>> \in Seq(Own(W)) /\ {} \in Own(W)
      /\ <<>> \in Seq(Clean)
  BY DEF Own
<1>6. OwnWork
  BY <1>2, <1>4, <1>5 DEF OwnWork, OwnDirs
<1>7. Durable
  BY <1>2, <1>4, <1>5 DEF Durable, Pushing, CompletedIsPersisted
<1> QED BY <1>1, <1>3, <1>6, <1>7 DEF Inv

LEMMA InvStep == Inv /\ [Next]_vars => Inv'
<1> SUFFICES ASSUME Inv, [Next]_vars PROVE Inv'
  OBVIOUS
<1>1. Typed /\ (\A q \in Runs : Phase(wk[q])) /\ OwnWork /\ Durable
  BY DEF Inv
<1>2. Typed'
  BY <1>1, TypedStep
<1>3. (\A q \in Runs : Phase(wk[q]))'
  BY <1>1, PhaseStep
<1>4. OwnWork'
  BY <1>1, OwnStep
<1>5. Durable'
  BY <1>1, <1>2, DurableStep
<1> QED BY <1>2, <1>3, <1>4, <1>5 DEF Inv

LEMMA Invariance == Spec => []Inv
BY InvInitially, InvStep, PTL DEF Spec

\* A completed row names a commit the remote still has, however runs of the task
\* overlap and whatever pushes and answers are lost (persist, executeOnce).
THEOREM CompletedWorkIsRemote == Spec => []CompletedIsPersisted
<1>1. Inv => CompletedIsPersisted
  BY DEF Inv, Durable
<1> QED BY <1>1, Invariance, PTL

\* Nothing on the remote branch touches a protected path: the scan before the push
\* sees every commit of its range (persist).
THEOREM OnlyCleanWorkIsPushed == Spec => []ProtectedNeverPushed
<1>1. ASSUME Inv PROVE ProtectedNeverPushed
  <2>1. refs.work.commit \in Seq(Clean)
    BY <1>1 DEF Inv, Durable
  <2>2. \A s \in Range(refs.work.commit) : s \in Clean
    BY <2>1 DEF Range
  <2>3. \A s \in Range(refs.work.commit) : \A c \in s : TrustBoundaryAllows(c.touches)
    BY <2>2 DEF Clean
  <2>4. TrustBoundaryAllows(Touched(refs.work.commit))
    BY <2>3 DEF Touched, TrustBoundaryAllows, ViolatedPaths
  <2> QED BY <2>4 DEF ProtectedNeverPushed
<1> QED BY <1>1, Invariance, PTL

\* What reaches the remote was made by the attempts that won, never by a provider
\* whose attempt was given up (executeWithRetry).
THEOREM LateWorkIsLeftOut == Spec => []WinnerIsOwnWork
<1>1. ASSUME Inv PROVE WinnerIsOwnWork
  <2>1. refs.work.commit \in Seq(Own(Fixed))
    BY <1>1 DEF Inv, OwnWork
  <2>2. \A s \in Range(refs.work.commit) : s \in Own(Fixed)
    BY <2>1 DEF Range
  <2>3. \A s \in Range(refs.work.commit) : \A c \in s : \A who \in c.by : who \in Fixed
    BY <2>2 DEF Own
  <2>4. \A who \in Fixed : who[2] = wk[who[1]].attempt
    BY DEF Fixed
  <2> QED BY <2>3, <2>4 DEF WinnerIsOwnWork
<1> QED BY <1>1, Invariance, PTL

\* A run cancelled while its agent works never completes the task (cancel, executeOnce).
THEOREM CancellationHolds == Spec => CancelHeeded
<1>1. Inv => \A r \in Runs : ~(wk[r].asked /\ wk[r].pc = "gate")
  BY DEF Inv, Phase
<1>2. Inv /\ [Next]_vars =>
        [\A r \in Runs : (wk[r].asked /\ wk[r].pc = "gate" /\ wk'[r].pc = "leaving") => task'.status # "COMPLETED"]_vars
  BY <1>1
<1> QED BY <1>2, Invariance, PTL DEF Spec, CancelHeeded
=============================================================================
