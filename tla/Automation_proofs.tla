---------------------------- MODULE Automation_proofs ---------------------------
(***************************************************************************)
(* Proofs about what is recorded, matched, resolved and healed, for data   *)
(* of any size. The walk over the dependencies of an execution flow        *)
(* (FlowClosure) accepts only what can be put in an order, references last,*)
(* and a cycle it reports is one. The loop of overlap (SamplingMatch)      *)
(* counts what two profiles have in common, and the score made of it is a  *)
(* share. A session (SamplingSession) answers a capture once and acts on it*)
(* once, and each of its elements has one node. Heals (HealGovernance) are *)
(* published only on the evidence of three runs, commits and reviews are   *)
(* answered truly, and a decision stands.                                  *)
(***************************************************************************)
EXTENDS FlowClosure, SamplingMatch, SamplingSession, HealGovernance, FiniteSetTheorems, NaturalsInduction,
        TLAPS

Frames == [version : Versions, next : Nat \ {0}]

Among(list, x, k) == \E m \in 1..k : list[m] = x

\* A step was checked, and what it refers to was completed or is the next visit.
Followed(done, open, v, s, k) ==
  /\ StepHolds(v, s)
  /\ s.to # NoReference =>
       \/ Among(done, Target(v, s), Len(done))
       \/ k < Len(open) /\ Target(v, s) = open[k + 1].version
TakenIn(done, open) ==
  \A k \in DOMAIN open : \A j \in DOMAIN flow.steps[open[k].version] :
    j < open[k].next => Followed(done, open, open[k].version, flow.steps[open[k].version][j], k)
CompletedIn(done) ==
  \A k \in DOMAIN done : \A s \in StepsOf(done[k]) :
    /\ StepHolds(done[k], s)
    /\ s.to # NoReference => Among(done, Target(done[k], s), k - 1)

Typed ==
  /\ flow \in Flows /\ item \in Nat \ {0}
  /\ stack \in Seq(Frames) /\ finished \in Seq(Versions)
Taken == TakenIn(finished, stack)
Completed == CompletedIn(finished)
Path ==
  \A k \in DOMAIN stack :
    k < Len(stack) => <<stack[k].version, stack[k + 1].version>> \in Edges
Judged == pc # "done" => verdict = None
Answer == verdict = "OK" => Used = Versions

IInv == Typed /\ Taken /\ Completed /\ Path /\ Judged /\ Answer /\ CycleIsReal

-----------------------------------------------------------------------------
\* The versions of a flow are finitely many.
LEMMA VersionsFinite == flow \in Flows => IsFiniteSet(Versions)
<1> SUFFICES ASSUME flow \in Flows PROVE IsFiniteSet(Versions)
  OBVIOUS
<1>1. flow.workflows \in Seq(Elements(flow.workflows))
  BY FlowsAssumption DEF IsList
<1>2. IsFiniteSet(1..Len(flow.workflows))
  BY <1>1, FS_Interval
<1> DEFINE f == [j \in 1..Len(flow.workflows) |-> flow.workflows[j].version]
<1>3. Versions = {flow.workflows[j].version : j \in 1..Len(flow.workflows)}
  BY <1>1 DEF Elements, Versions
<1>4. f \in Surjection(1..Len(flow.workflows), Versions)
  BY <1>3 DEF Surjection
<1> QED
  BY <1>2, <1>4, FS_Surjection

\* What is supplied never changes, so neither does what is said of it.
LEMMA FlowIsFixed ==
  ASSUME flow' = flow
  PROVE  /\ Versions' = Versions /\ Edges' = Edges /\ Frames' = Frames
         /\ \A v, s : StepHolds(v, s)' <=> StepHolds(v, s)
         /\ \A v, s : Target(v, s)' = Target(v, s)
         /\ \A v : StepsOf(v)' = StepsOf(v)
<1>1. Versions' = Versions /\ Nodes' = Nodes /\ StepKeys' = StepKeys
  BY DEF Versions, Nodes, StepKeys
<1>2. /\ \A v : Dependency(v)' = Dependency(v)
      /\ \A k : Resolution(k)' = Resolution(k)
      /\ \A v : StepsOf(v)' = StepsOf(v)
  BY DEF Dependency, Resolution, StepsOf
<1>3. \A t, r : TargetAgrees(t, r)' <=> TargetAgrees(t, r)
  BY <1>1, <1>2 DEF TargetAgrees
<1>4. \A v, s : Target(v, s)' = Target(v, s)
  BY <1>2 DEF Target
<1>5. \A v, s : StepHolds(v, s)' <=> StepHolds(v, s)
  BY <1>1, <1>2, <1>3 DEF StepHolds
<1>6. Edges' = Edges /\ Frames' = Frames
  BY <1>1, <1>2, <1>4 DEF Edges, Frames
<1> QED
  BY <1>1, <1>2, <1>4, <1>5, <1>6

\* To say something of the next walk is to say it of its lists.
LEMMA WalkByLists ==
  ASSUME flow' = flow
  PROVE  /\ TakenIn(finished', stack') => Taken'
         /\ CompletedIn(finished') => Completed'
<1> USE FlowIsFixed
<1>1. TakenIn(finished', stack') => Taken'
  BY DEF Taken, TakenIn, Followed
<1>2. CompletedIn(finished') => Completed'
  BY DEF Completed, CompletedIn
<1> QED
  BY <1>1, <1>2

LEMMA InitIInv == Init => IInv
<1> SUFFICES ASSUME Init PROVE IInv
  OBVIOUS
<1> USE DEF Init
<1>1. Typed /\ Taken /\ Completed /\ Path
  BY DEF Typed, Taken, TakenIn, Completed, CompletedIn, Path
<1> QED
  BY <1>1, NoneAssumption DEF IInv, Judged, Answer, CycleIsReal

-----------------------------------------------------------------------------
\* A step that leaves the walk alone keeps what is known of it.
LEMMA WalkKept ==
  ASSUME Typed, Taken, Completed, Path, UNCHANGED <<flow, walk>>
  PROVE  Typed' /\ Taken' /\ Completed' /\ Path'
<1>1. /\ flow' = flow /\ stack' = stack /\ finished' = finished /\ item' = item
  BY DEF walk
<1> USE <1>1, FlowIsFixed
<1>4. Typed'
  BY DEF Typed
<1>5. Taken'
  BY WalkByLists DEF Taken
<1>6. Completed'
  BY WalkByLists DEF Completed
<1>7. Path'
  BY DEF Path
<1> QED
  BY <1>4, <1>5, <1>6, <1>7

\* The checks before the walk, and a step that is refused.
LEMMA CheckIInv ==
  ASSUME IInv, Shape \/ MatchItems \/ IndexGraph \/ StepRefused
  PROVE  IInv'
<1>1. UNCHANGED <<flow, walk>> /\ pc # "done"
  BY DEF Shape, MatchItems, IndexGraph, StepRefused, StepOn, Refuse, Proceed
<1>2. /\ verdict' \notin {"OK", "cycle"}
      /\ pc' # "done" => verdict' = None
  <2>1. verdict = None
    BY <1>1 DEF IInv, Judged
  <2> QED
    BY <2>1, NoneAssumption DEF Shape, MatchItems, IndexGraph, StepRefused, Refuse, Proceed
<1>3. Typed' /\ Taken' /\ Completed' /\ Path'
  BY <1>1, WalkKept DEF IInv
<1> QED
  BY <1>2, <1>3 DEF IInv, Judged, Answer, CycleIsReal

\* As many were used as there are, and only some of them: all.
LEMMA FinishIInv ==
  ASSUME IInv, Finish
  PROVE  IInv'
<1>1. UNCHANGED <<flow, walk>> /\ pc' = "done"
  BY DEF Finish, Refuse
<1>2. Typed' /\ Taken' /\ Completed' /\ Path'
  BY <1>1, WalkKept DEF IInv
<1>3. verdict' = "OK" => Used = Versions
  <2> SUFFICES ASSUME verdict' = "OK" PROVE Used = Versions
    OBVIOUS
  <2>1. Cardinality(Used) = Cardinality(Versions)
    BY DEF Finish, Refuse, AllUsed
  <2>2. Used \subseteq Versions
    BY DEF IInv, Typed, Used, Elements
  <2>3. IsFiniteSet(Versions)
    BY VersionsFinite DEF IInv, Typed
  <2> QED
    BY <2>1, <2>2, <2>3, FS_Subset
<1>4. Used' = Used /\ Versions' = Versions
  BY <1>1, FlowIsFixed DEF walk, Used
<1>5. verdict' # "cycle"
  BY DEF Finish, Refuse
<1> QED
  BY <1>1, <1>2, <1>3, <1>4, <1>5 DEF IInv, Judged, Answer, CycleIsReal

-----------------------------------------------------------------------------
\* The steps of a version that is in the flow are a list.
LEMMA StepsAreLists ==
  ASSUME flow \in Flows, NEW v \in Versions
  PROVE  flow.steps[v] \in Seq(StepsOf(v)) /\ DOMAIN flow.steps[v] = 1..Len(flow.steps[v])
<1>1. IsList(flow.steps[v])
  BY FlowsAssumption DEF Versions
<1> QED
  BY <1>1 DEF IsList, StepsOf

\* An item begins a visit of the version it matched, or passes it over.
LEMMA NextItemIInv ==
  ASSUME IInv, NextItem
  PROVE  IInv'
<1> USE DEF IInv
<1>1. PICK k \in FirstMatch(flow.items[item]) :
        stack' = IF flow.workflows[k].version \in Used THEN <<>> ELSE <<Frame(flow.workflows[k].version)>>
  BY DEF NextItem
<1>2. /\ pc' = pc /\ pc = "walk" /\ flow' = flow /\ finished' = finished /\ verdict' = verdict
      /\ item' = item + 1
  BY DEF NextItem
<1>3. flow.workflows[k].version \in Versions
  BY DEF FirstMatch, Candidates, Versions, Elements
<1> DEFINE frame == Frame(flow.workflows[k].version)
<1>4. frame \in Frames /\ frame.next = 1
  BY <1>3 DEF Frame, Frames
<1> USE FlowIsFixed
<1>5. stack' \in Seq(Frames) /\ (stack' = <<>> \/ stack' = <<frame>>)
  BY <1>1, <1>4
<1>6. Typed'
  BY <1>2, <1>5 DEF Typed
<1>7. Taken'
  <2> SUFFICES ASSUME NEW m \in DOMAIN stack', NEW j \in DOMAIN flow.steps[stack'[m].version],
                      j < stack'[m].next
               PROVE  FALSE
    BY <1>2, WalkByLists DEF TakenIn
  <2>1. stack'[m] = frame
    BY <1>5
  <2>2. j \in Nat \ {0}
    BY <1>3, <2>1, StepsAreLists DEF Typed, Frame
  <2> QED
    BY <1>4, <2>1, <2>2
<1>8. Completed'
  BY <1>2, WalkByLists DEF Completed
<1>9. Path'
  BY <1>5 DEF Path
<1>10. Judged' /\ Answer' /\ CycleIsReal'
  <2>1. verdict = None
    BY <1>2 DEF Judged
  <2> QED
    BY <1>2, <2>1, NoneAssumption DEF Judged, Answer, CycleIsReal
<1> QED
  BY <1>6, <1>7, <1>8, <1>9, <1>10

\* What is left of a list without its last element.
LEMMA FrontOfList ==
  ASSUME NEW S, NEW s \in Seq(S), s # <<>>
  PROVE  /\ Len(s) \in Nat \ {0} /\ s[Len(s)] \in S
         /\ SubSeq(s, 1, Len(s) - 1) \in Seq(S)
         /\ Len(SubSeq(s, 1, Len(s) - 1)) = Len(s) - 1
         /\ \A k \in 1..(Len(s) - 1) : SubSeq(s, 1, Len(s) - 1)[k] = s[k]
<1>1. Len(s) \in Nat \ {0}
  OBVIOUS
<1>2. s[Len(s)] \in S
  BY <1>1
<1> DEFINE t == [k \in 1..(Len(s) - 1) |-> s[k]]
<1>3. SubSeq(s, 1, Len(s) - 1) = t
  BY <1>1
<1>4. t \in Seq(S) /\ Len(t) = Len(s) - 1 /\ \A k \in 1..(Len(s) - 1) : t[k] = s[k]
  BY <1>1
<1> HIDE DEF t
<1> QED
  BY <1>1, <1>2, <1>3, <1>4

\* A list of which one element is replaced, or to which one is added.
LEMMA UpdateOfList ==
  ASSUME NEW S, NEW s \in Seq(S), NEW p \in 1..Len(s), NEW x \in S
  PROVE  /\ [s EXCEPT ![p] = x] \in Seq(S) /\ Len([s EXCEPT ![p] = x]) = Len(s)
         /\ [s EXCEPT ![p] = x][p] = x
         /\ \A k \in 1..Len(s) : k # p => [s EXCEPT ![p] = x][k] = s[k]
OBVIOUS
LEMMA AppendToList ==
  ASSUME NEW S, NEW s \in Seq(S), NEW x \in S
  PROVE  /\ Append(s, x) \in Seq(S) /\ Len(Append(s, x)) = Len(s) + 1
         /\ Append(s, x)[Len(s) + 1] = x
         /\ \A k \in 1..Len(s) : Append(s, x)[k] = s[k]
OBVIOUS
\* An index of a list is one of its positions, and what is there is of its set.
LEMMA ElementOfList ==
  ASSUME NEW S, NEW s \in Seq(S)
  PROVE  DOMAIN s = 1..Len(s) /\ Len(s) \in Nat /\ \A k \in 1..Len(s) : s[k] \in S
OBVIOUS

\* A version is left when all its steps were taken: what they refer to is completed.
LEMMA LeaveIInv ==
  ASSUME IInv, Leave
  PROVE  IInv'
<1> USE DEF IInv
<1> DEFINE n == Len(stack)
           v == stack[n].version
           f == Len(finished)
<1>1. /\ pc' = pc /\ pc = "walk" /\ flow' = flow /\ verdict' = verdict /\ item' = item
      /\ finished' = Append(finished, v) /\ stack' = SubSeq(stack, 1, n - 1)
      /\ stack # <<>> /\ stack[n].next > Len(flow.steps[v])
  BY DEF Leave, Top, TopSteps, Rest
<1> USE FlowIsFixed
<1>2. /\ n \in Nat \ {0} /\ f \in Nat /\ v \in Versions
      /\ stack[n] \in Frames /\ stack[n].next \in Nat
  <2>1. n \in Nat \ {0} /\ stack[n] \in Frames
    BY <1>1, FrontOfList DEF Typed
  <2>2. f \in Nat
    BY DEF Typed
  <2> QED
    BY <2>1, <2>2 DEF Frames
<1>3. /\ stack' \in Seq(Frames) /\ Len(stack') = n - 1
      /\ \A k \in 1..(n - 1) : stack'[k] = stack[k]
      /\ DOMAIN stack' = 1..(n - 1)
  <2>1. stack \in Seq(Frames)
    BY DEF Typed
  <2>2. /\ stack' \in Seq(Frames) /\ Len(stack') = n - 1
        /\ \A k \in 1..(n - 1) : stack'[k] = stack[k]
    BY <1>1, <2>1, FrontOfList
  <2> QED
    BY <2>2
<1>4. /\ finished' \in Seq(Versions) /\ Len(finished') = f + 1
      /\ \A k \in 1..f : finished'[k] = finished[k]
      /\ finished'[f + 1] = v /\ DOMAIN finished' = 1..(f + 1)
  BY <1>1, <1>2 DEF Typed
<1>5. Typed'
  BY <1>1, <1>3, <1>4 DEF Typed
<1>6. \A x : \A k \in 0..f : Among(finished, x, k) => Among(finished', x, k)
  BY <1>2, <1>4 DEF Among
<1>7. Among(finished', v, f + 1) /\ \A x : Among(finished, x, f) => Among(finished', x, f + 1)
  BY <1>2, <1>4 DEF Among
<1>8. \A s \in StepsOf(v) : StepHolds(v, s) /\ (s.to # NoReference => Among(finished, Target(v, s), f))
  <2> TAKE s \in StepsOf(v)
  <2>1. PICK j \in DOMAIN flow.steps[v] : flow.steps[v][j] = s
    BY DEF StepsOf, Elements
  <2>2. j \in 1..Len(flow.steps[v])
    BY <1>2, <2>1, StepsAreLists DEF Typed
  <2>3. j < stack[n].next
    BY <1>1, <1>2, <2>2
  <2>4. n \in DOMAIN stack
    BY <1>2 DEF Typed
  <2>5. Followed(finished, stack, v, s, n)
    BY <2>1, <2>3, <2>4 DEF Taken, TakenIn
  <2> QED
    BY <1>2, <2>5 DEF Followed
<1>9. Completed'
  <2> SUFFICES ASSUME NEW k \in DOMAIN finished', NEW s \in StepsOf(finished'[k])
               PROVE  /\ StepHolds(finished'[k], s)
                      /\ s.to # NoReference => Among(finished', Target(finished'[k], s), k - 1)
    BY <1>1, WalkByLists DEF CompletedIn
  <2>1. CASE k \in 1..f
    BY <1>2, <1>4, <1>6, <2>1 DEF Completed, CompletedIn, Typed
  <2>2. CASE k = f + 1
    BY <1>2, <1>4, <1>6, <1>8, <2>2
  <2> QED
    BY <1>2, <1>4, <2>1, <2>2
<1>10. Taken'
  <2> SUFFICES ASSUME NEW k \in DOMAIN stack', NEW j \in DOMAIN flow.steps[stack'[k].version],
                      j < stack'[k].next
               PROVE  Followed(finished', stack', stack'[k].version, flow.steps[stack'[k].version][j], k)
    BY <1>1, WalkByLists DEF TakenIn
  <2> DEFINE u == stack[k].version
             s == flow.steps[u][j]
  <2>1. k \in 1..(n - 1) /\ stack'[k] = stack[k] /\ k \in DOMAIN stack
    BY <1>2, <1>3 DEF Typed
  <2>2. Followed(finished, stack, u, s, k)
    BY <2>1 DEF Taken, TakenIn
  <2>3. s.to # NoReference =>
          Among(finished', Target(u, s), f + 1) \/ (k < n - 1 /\ Target(u, s) = stack[k + 1].version)
    <3>1. CASE Among(finished, Target(u, s), f)
      BY <3>1, <1>7
    <3>2. CASE k < n /\ Target(u, s) = stack[k + 1].version
      <4>1. k < n - 1 \/ k + 1 = n
        BY <1>2, <2>1
      <4> QED
        BY <1>7, <3>2, <4>1
    <3> QED
      BY <2>2, <3>1, <3>2 DEF Followed
  <2>4. k < n - 1 => stack'[k + 1] = stack[k + 1]
    BY <1>2, <1>3, <2>1
  <2>5. StepHolds(u, s)
    BY <2>2 DEF Followed
  <2> QED
    BY <1>1, <1>3, <1>4, <2>1, <2>3, <2>4, <2>5 DEF Followed
<1>11. Path'
  BY <1>1, <1>2, <1>3 DEF Path, Typed
<1>12. Judged' /\ Answer' /\ CycleIsReal'
  <2>1. verdict = None
    BY <1>1 DEF Judged
  <2> QED
    BY <1>1, <2>1, NoneAssumption DEF Judged, Answer, CycleIsReal
<1> QED
  BY <1>5, <1>9, <1>10, <1>11, <1>12

-----------------------------------------------------------------------------
\* A step is taken: its target is completed already, or its visit begins, or it is
\* under way and a cycle is found.
LEMMA TakeStepIInv ==
  ASSUME IInv, TakeStep
  PROVE  IInv'
<1> USE DEF IInv
<1> DEFINE n == Len(stack)
           v == stack[n].version
           p == stack[n].next
           s == flow.steps[v][p]
           target == Target(v, s)
           advanced == [stack EXCEPT ![n].next = @ + 1]
           entered == Append(advanced, Frame(target))
<1>1. /\ pc = "walk" /\ stack # <<>> /\ p <= Len(flow.steps[v])
      /\ StepHolds(v, s)
      /\ flow' = flow /\ item' = item /\ finished' = finished
      /\ IF s.to = NoReference
           THEN stack' = advanced /\ UNCHANGED <<pc, verdict>>
           ELSE Enter(target, advanced)
  BY DEF TakeStep, StepOn, Top, TopSteps
<1> USE FlowIsFixed
<1>2. stack \in Seq(Frames) /\ finished \in Seq(Versions) /\ flow \in Flows
  BY DEF Typed
<1>3. n \in Nat \ {0} /\ stack[n] \in Frames
  BY <1>1, <1>2, FrontOfList
<1>4. v \in Versions /\ p \in Nat \ {0}
  BY <1>3 DEF Frames
<1>5. /\ advanced \in Seq(Frames) /\ Len(advanced) = n /\ DOMAIN advanced = 1..n
      /\ advanced[n] = [version |-> v, next |-> p + 1]
      /\ \A k \in 1..(n - 1) : advanced[k] = stack[k]
      /\ \A k \in 1..n : advanced[k].version = stack[k].version
  <2> DEFINE next == [version |-> v, next |-> p + 1]
  <2>1. next \in Frames
    BY <1>4 DEF Frames
  <2>2. [stack[n] EXCEPT !.next = @ + 1] = next
    BY <1>3, <1>4 DEF Frames
  <2>3. advanced = [stack EXCEPT ![n] = next]
    BY <2>2
  <2> HIDE DEF next, advanced
  <2>4. /\ advanced \in Seq(Frames) /\ Len(advanced) = n /\ advanced[n] = next
        /\ \A k \in 1..n : k # n => advanced[k] = stack[k]
    BY <1>2, <1>3, <2>1, <2>3, UpdateOfList
  <2>5. \A k \in 1..(n - 1) : advanced[k] = stack[k]
    BY <1>3, <2>4
  <2>6. next.version = v
    BY DEF next
  <2> QED
    BY <1>3, <2>4, <2>5, <2>6, ElementOfList DEF next
<1> HIDE DEF advanced
<1>6. s \in StepsOf(v)
  BY <1>1, <1>2, <1>4, StepsAreLists DEF StepsOf, Elements
<1>7. s.to # NoReference => target \in Versions
  BY <1>1 DEF StepHolds, TargetAgrees, Target
<1>8. s.to # NoReference => <<v, target>> \in Edges
  BY <1>4, <1>6, <1>7 DEF Edges
<1>9. Completed'
  BY <1>1, WalkByLists DEF Completed
<1>10. verdict = None
  BY <1>1 DEF Judged
\* What the steps before the taken one refer to stays in place on any longer stack.
<1>11. ASSUME NEW open, NEW k \in 1..n, NEW j \in DOMAIN flow.steps[stack[k].version],
              j < stack[k].next, n <= Len(open), Len(open) \in Nat,
              \A m \in 1..n : open[m].version = stack[m].version
       PROVE  Followed(finished, open, stack[k].version, flow.steps[stack[k].version][j], k)
  <2>1. k \in DOMAIN stack
    BY <1>2
  <2>2. Followed(finished, stack, stack[k].version, flow.steps[stack[k].version][j], k)
    BY <1>11, <2>1 DEF Taken, TakenIn
  <2>3. k < n => k + 1 \in 1..n /\ k < Len(open)
    BY <1>3, <1>11
  <2> QED
    BY <1>11, <2>2, <2>3 DEF Followed
<1>12. CASE s.to = NoReference \/ (target \in Used /\ target \notin Visiting)
  <2>1. stack' = advanced /\ pc' = pc /\ verdict' = verdict
    BY <1>1, <1>12 DEF Enter
  <2>2. Typed'
    BY <1>1, <1>5, <2>1 DEF Typed
  <2>3. s.to # NoReference => Among(finished, target, Len(finished))
    BY <1>2, <1>12 DEF Among, Used, Elements
  <2>4. Taken'
    <3> SUFFICES ASSUME NEW k \in 1..n, NEW j \in DOMAIN flow.steps[advanced[k].version],
                        j < advanced[k].next
                 PROVE  Followed(finished, advanced, stack[k].version, flow.steps[stack[k].version][j], k)
      BY <1>1, <1>5, <2>1, WalkByLists DEF TakenIn
    <3>1. CASE j < stack[k].next
      BY <1>3, <1>5, <1>11, <3>1
    <3>2. CASE k = n /\ j = p
      BY <1>1, <2>3, <3>2 DEF Followed
    <3>3. j \in Nat
      <4>1. stack[k].version \in Versions
        BY <1>2, ElementOfList DEF Frames
      <4> QED
        BY <1>2, <1>5, <4>1, StepsAreLists
    <3>4. CASE k # n
      <4>1. k \in 1..(n - 1)
        BY <1>3, <3>4
      <4> QED
        BY <1>5, <3>1, <4>1
    <3>5. CASE k = n
      <4>1. advanced[k].next = p + 1
        BY <1>5, <3>5
      <4>2. j < p \/ j = p
        BY <1>4, <3>3, <4>1
      <4> QED
        BY <3>1, <3>2, <3>5, <4>2
    <3> QED
      BY <3>4, <3>5
  <2>5. Path'
    BY <1>1, <1>2, <1>5, <2>1 DEF Path
  <2> QED
    BY <1>1, <1>9, <1>10, <2>1, <2>2, <2>4, <2>5, NoneAssumption DEF Judged, Answer, CycleIsReal
<1>13. CASE s.to # NoReference /\ target \in Visiting
  <2>1. stack' = stack /\ pc' = "done" /\ verdict' = "cycle"
    BY <1>1, <1>13 DEF Enter
  <2>2. Typed' /\ Taken' /\ Path'
    BY <1>1, <2>1, WalkByLists DEF Typed, Taken, Path
  <2>3. CycleIsReal'
    <3>1. PICK from \in DOMAIN stack : stack[from].version = target
      BY <1>13 DEF Visiting, Elements
    <3>2. \A k \in from..n :
            <<stack[k].version, stack[IF k = n THEN from ELSE k + 1].version>> \in Edges
      <4> TAKE k \in from..n
      <4>1. CASE k = n
        BY <1>8, <1>13, <3>1, <4>1
      <4>2. CASE k # n
        <5>1. k \in DOMAIN stack /\ k < n
          BY <1>2, <1>3, <3>1, <4>2, ElementOfList
        <5> QED
          BY <4>2, <5>1 DEF Path
      <4> QED
        BY <4>1, <4>2
    <3> QED
      BY <1>1, <2>1, <3>1, <3>2 DEF CycleIsReal
  <2> QED
    BY <1>9, <2>1, <2>2, <2>3 DEF Judged, Answer
<1>14. CASE s.to # NoReference /\ target \notin Visiting /\ target \notin Used
  <2>1. stack' = entered /\ pc' = pc /\ verdict' = verdict
    BY <1>1, <1>14 DEF Enter
  <2>2. Frame(target) \in Frames /\ Frame(target).next = 1 /\ Frame(target).version = target
    BY <1>7, <1>14 DEF Frame, Frames
  <2>3. /\ entered \in Seq(Frames) /\ Len(entered) = n + 1 /\ DOMAIN entered = 1..(n + 1)
        /\ entered[n + 1] = Frame(target)
        /\ \A k \in 1..n : entered[k] = advanced[k] /\ entered[k].version = stack[k].version
    <3>1. /\ entered \in Seq(Frames) /\ Len(entered) = n + 1
          /\ entered[n + 1] = Frame(target)
          /\ \A k \in 1..n : entered[k] = advanced[k]
      BY <1>5, <2>2, AppendToList
    <3>2. DOMAIN entered = 1..(n + 1)
      BY <3>1, ElementOfList
    <3>3. \A k \in 1..n : entered[k].version = stack[k].version
      BY <1>5, <3>1
    <3> QED
      BY <3>1, <3>2, <3>3
  <2>4. Typed'
    BY <1>1, <2>1, <2>3 DEF Typed
  <2> HIDE DEF entered
  <2>5. Taken'
    <3> SUFFICES ASSUME NEW k \in 1..(n + 1), NEW j \in DOMAIN flow.steps[entered[k].version],
                        j < entered[k].next
                 PROVE  Followed(finished, entered, entered[k].version, flow.steps[entered[k].version][j], k)
      BY <1>1, <2>1, <2>3, WalkByLists DEF TakenIn
    <3>1. j \in Nat \ {0}
      <4>1. entered[k].version \in Versions
        <5>1. entered[k] \in Frames
          BY <2>3, ElementOfList
        <5> QED
          BY <5>1 DEF Frames
      <4> QED
        BY <1>2, <4>1, StepsAreLists
    <3>2. CASE k = n + 1
      BY <2>2, <2>3, <3>1, <3>2
    <3>3. CASE k \in 1..n /\ j < stack[k].next
      BY <1>3, <1>11, <2>3, <3>3
    <3>4. CASE k = n /\ j = p
      <4>1. entered[k].version = v
        BY <1>3, <2>3, <3>4
      <4>2. flow.steps[entered[k].version][j] = s
        BY <3>4, <4>1
      <4>3. k < Len(entered) /\ Target(v, s) = entered[k + 1].version
        BY <1>3, <2>2, <2>3, <3>4
      <4>4. StepHolds(v, s)
        BY <1>1
      <4> HIDE DEF n, v, p, s, target
      <4> QED
        BY <4>1, <4>2, <4>3, <4>4 DEF Followed
    <3>5. CASE k \in 1..n /\ k # n
      <4>1. k \in 1..(n - 1)
        BY <1>3, <3>5
      <4> QED
        BY <1>5, <2>3, <3>3, <3>5, <4>1
    <3>6. CASE k = n
      <4>1. entered[k].next = p + 1
        BY <1>3, <1>5, <2>3, <3>6
      <4>2. j < p \/ j = p
        BY <1>4, <3>1, <4>1
      <4> QED
        BY <1>3, <3>3, <3>4, <3>6, <4>2
    <3> QED
      BY <1>3, <3>2, <3>5, <3>6
  <2>6. Path'
    <3> SUFFICES ASSUME NEW k \in 1..n
                 PROVE  <<entered[k].version, entered[k + 1].version>> \in Edges
      BY <1>1, <1>3, <2>1, <2>3 DEF Path
    <3>1. CASE k = n
      BY <1>3, <1>8, <1>14, <2>2, <2>3, <3>1
    <3>2. CASE k # n
      <4>1. k \in DOMAIN stack /\ k < n /\ k + 1 \in 1..n
        BY <1>2, <1>3, <3>2, ElementOfList
      <4> QED
        BY <2>3, <4>1 DEF Path
    <3> QED
      BY <3>1, <3>2
  <2> QED
    BY <1>1, <1>9, <1>10, <2>1, <2>4, <2>5, <2>6, NoneAssumption DEF Judged, Answer, CycleIsReal
<1> QED
  BY <1>12, <1>13, <1>14

-----------------------------------------------------------------------------
\* The invariant is kept by every step.
LEMMA NextIInv == IInv /\ [Next]_vars => IInv'
<1> SUFFICES ASSUME IInv, [Next]_vars PROVE IInv'
  OBVIOUS
<1>1. CASE UNCHANGED vars
  <2>1. UNCHANGED <<flow, walk>> /\ pc' = pc /\ verdict' = verdict
    BY <1>1 DEF vars
  <2>2. Typed' /\ Taken' /\ Completed' /\ Path'
    BY <2>1, WalkKept DEF IInv
  <2> QED
    BY <2>1, <2>2, FlowIsFixed DEF IInv, Judged, Answer, CycleIsReal, Used, walk
<1> QED
  BY <1>1, CheckIInv, NextItemIInv, TakeStepIInv, LeaveIInv, FinishIInv DEF Next

\* What an execution flow is accepted with can be put in an order in which every
\* reference leads back, for flows of any size (the depth-first walk of
\* validateDependencyGraph).
THEOREM OrderTheorem == Spec => []AcceptedIsOrdered
<1>1. IInv => AcceptedIsOrdered
  <2> SUFFICES ASSUME IInv, verdict = "OK" PROVE AcceptedIsOrdered
    BY DEF AcceptedIsOrdered
  <2> QED
    BY DEF IInv, Answer, Completed, CompletedIn, Among, Placed, AcceptedIsOrdered
<1> QED
  BY <1>1, InitIInv, NextIInv, PTL DEF Spec

\* A flow refused for a cycle has one, for flows of any size (visiting in visit).
THEOREM CycleTheorem == Spec => []CycleIsReal
<1>1. IInv => CycleIsReal
  BY DEF IInv
<1> QED
  BY <1>1, InitIInv, NextIInv, PTL DEF Spec

\* Both verdicts are real, for flows of any size (validateDependencyGraph).
THEOREM VerdictTheorem == Spec => []VerdictsAreReal
<1> QED
  BY OrderTheorem, CycleTheorem, PTL DEF VerdictsAreReal

-----------------------------------------------------------------------------
(* The loop of overlap.                                                   *)

\* What of the baseline was looked at before the i-th selector.
Seen == {baseline.selectors[j] : j \in 1..(i - 1)}

\* The set holds what of the sampled profile was not met yet, and the count is of
\* what was met.
Counting ==
  /\ sampled \in Profiles /\ baseline \in Profiles
  /\ i \in 1..Len(baseline.selectors) + 1
  /\ values = SetOf(sampled.selectors) \ Seen
  /\ count = Cardinality(SetOf(sampled.selectors) \intersect Seen)

-----------------------------------------------------------------------------
\* What a list holds is finite and no more than the list is long.
LEMMA ElementsFinite ==
  ASSUME NEW S, NEW s \in Seq(S)
  PROVE  IsFiniteSet(SetOf(s)) /\ Cardinality(SetOf(s)) \in Nat
<1>1. IsFiniteSet(1..Len(s))
  BY FS_Interval
<1>2. [j \in 1..Len(s) |-> s[j]] \in Surjection(1..Len(s), SetOf(s))
  BY DEF Surjection, SetOf
<1>3. IsFiniteSet(SetOf(s))
  BY <1>1, <1>2, FS_Surjection
<1> QED
  BY <1>3, FS_CardinalityType

\* Profiles are lists of selectors.
LEMMA ProfileLists ==
  ASSUME NEW p \in Profiles
  PROVE  p.selectors \in Seq(Selectors) /\ p.signals \in [Signals -> Values \union {NoSignal}]
BY ProfilesAssumption

\* The loop starts with everything to be met and nothing counted.
LEMMA InitCounting == MatchInit => Counting
<1> SUFFICES ASSUME MatchInit PROVE Counting
  OBVIOUS
<1> USE DEF MatchInit
<1>1. Len(baseline.selectors) \in Nat
  BY ProfileLists
<1>2. Seen = {}
  BY DEF Seen
<1>3. SetOf(sampled.selectors) \intersect Seen = {}
  BY <1>2
<1> QED
  BY <1>1, <1>2, <1>3, FS_EmptySet DEF Counting

\* One selector more is met, and counted if it was not met before.
LEMMA NextCounting == Counting /\ [MatchNext]_matchVars => Counting'
<1> SUFFICES ASSUME Counting, [MatchNext]_matchVars PROVE Counting'
  OBVIOUS
<1>1. CASE MatchNext
  <2> DEFINE key == baseline.selectors[i]
             L == SetOf(sampled.selectors)
  <2>1. /\ i <= Len(baseline.selectors) /\ i' = i + 1
        /\ count' = IF key \in values THEN count + 1 ELSE count
        /\ values' = values \ {key}
        /\ UNCHANGED <<sampled, baseline>>
    BY <1>1 DEF MatchNext, CountNext
  <2>2. Len(baseline.selectors) \in Nat /\ i \in Nat
    BY ProfileLists DEF Counting
  <2>3. i' \in 1..Len(baseline'.selectors) + 1
    BY <2>1, <2>2 DEF Counting
  <2>4. Seen' = Seen \union {key}
    <3>1. 1..(i' - 1) = 1..(i - 1) \union {i}
      BY <2>1, <2>2 DEF Counting
    <3> QED
      BY <3>1, <2>1 DEF Seen
  <2>5. values' = SetOf(sampled'.selectors) \ Seen'
    BY <2>1, <2>4 DEF Counting
  <2>6. IsFiniteSet(L \intersect Seen)
    BY ElementsFinite, ProfileLists, FS_Subset DEF Counting
  <2>7. count' = Cardinality(L \intersect Seen')
    <3>1. CASE key \in values
      <4>1. key \notin L \intersect Seen /\ L \intersect Seen' = (L \intersect Seen) \union {key}
        BY <3>1, <2>4 DEF Counting
      <4>2. Cardinality((L \intersect Seen) \union {key}) = Cardinality(L \intersect Seen) + 1
        BY <4>1, <2>6, FS_AddElement
      <4> QED
        BY <3>1, <4>1, <4>2, <2>1 DEF Counting
    <3>2. CASE key \notin values
      <4>1. L \intersect Seen' = L \intersect Seen
        BY <3>2, <2>4 DEF Counting
      <4> QED
        BY <3>2, <4>1, <2>1 DEF Counting
    <3> QED
      BY <3>1, <3>2
  <2> QED
    BY <2>1, <2>3, <2>5, <2>7 DEF Counting
<1>2. CASE UNCHANGED matchVars
  BY <1>2 DEF matchVars, Counting, Seen
<1> QED
  BY <1>1, <1>2

\* At the end, all of the baseline was met.
LEMMA AllSeen ==
  ASSUME Counting, Done
  PROVE  Seen = SetOf(baseline.selectors)
<1>1. Len(baseline.selectors) \in Nat
  BY ProfileLists DEF Counting
<1>2. i - 1 = Len(baseline.selectors)
  BY <1>1 DEF Counting, Done
<1> QED
  BY <1>2 DEF Seen, SetOf

\* The count is of the selectors that both profiles list (overlap).
THEOREM OverlapTheorem == MatchSpec => []OverlapIsCommon
<1>1. Counting => OverlapIsCommon
  BY AllSeen DEF Counting, OverlapIsCommon
<1> QED
  BY InitCounting, NextCounting, <1>1, PTL DEF MatchSpec

-----------------------------------------------------------------------------
\* What both lists hold, and what either holds, make up both (FS_Union).
LEMMA UnionCount ==
  ASSUME Counting, Done
  PROVE  /\ union = Cardinality(AllSelectors)
         /\ count \in Nat /\ union \in Nat /\ count <= union
         /\ union > 0 /\ count = union => SetOf(sampled.selectors) = SetOf(baseline.selectors)
<1> DEFINE L == SetOf(sampled.selectors)
           R == SetOf(baseline.selectors)
<1>1. IsFiniteSet(L) /\ IsFiniteSet(R) /\ Cardinality(L) \in Nat /\ Cardinality(R) \in Nat
  BY ElementsFinite, ProfileLists DEF Counting
<1>2. count = Cardinality(L \intersect R)
  BY AllSeen DEF Counting
<1>3. /\ IsFiniteSet(L \union R)
      /\ Cardinality(L \union R) = Cardinality(L) + Cardinality(R) - Cardinality(L \intersect R)
  BY <1>1, FS_Union
<1>4. union = Cardinality(AllSelectors) /\ union \in Nat
  BY <1>2, <1>3, FS_CardinalityType DEF union, AllSelectors
<1>5. /\ Cardinality(L \intersect R) \in Nat
      /\ Cardinality(L \intersect R) <= Cardinality(L \union R)
      /\ Cardinality(L \intersect R) = Cardinality(L \union R) => L \intersect R = L \union R
  <2>1. L \intersect R \subseteq L \union R
    OBVIOUS
  <2> QED
    BY <2>1, <1>3, FS_Subset, FS_CardinalityType
<1>6. L \intersect R = L \union R => L = R
  OBVIOUS
<1> QED
  BY <1>2, <1>4, <1>5, <1>6 DEF AllSelectors

\* The rewards come to 38 hundredths, and only if all signals agree.
LEMMA RewardsBounded ==
  /\ Rewards \in 0..38
  /\ Rewards = 38 => \A s \in Signals : Agree(s)
<1>1. Reward("tag", 13) \in {0, 13} /\ (Reward("tag", 13) = 13 => Agree("tag"))
  BY DEF Reward
<1>2. Reward("role", 10) \in {0, 10} /\ (Reward("role", 10) = 10 => Agree("role"))
  BY DEF Reward
<1>3. Reward("name", 10) \in {0, 10} /\ (Reward("name", 10) = 10 => Agree("name"))
  BY DEF Reward
<1>4. Reward("origin", 5) \in {0, 5} /\ (Reward("origin", 5) = 5 => Agree("origin"))
  BY DEF Reward
<1> QED
  BY <1>1, <1>2, <1>3, <1>4 DEF Rewards, Signals

\* A full score takes the full share of the selectors and the full rewards (Match).
LEMMA FullScore ==
  ASSUME NEW c \in Nat, NEW u \in Nat, NEW r \in Nat,
         c <= u, r <= 38 * u, 62 * c + r = 100 * u
  PROVE  c = u /\ r = 38 * u
  OBVIOUS

\* The score is between nothing and everything, and everything means alike (Match).
THEOREM MatchTheorem == MatchSpec => []MatchIsAShare
<1>1. ASSUME Counting, Done
      PROVE  /\ union = Cardinality(AllSelectors)
             /\ Match \in 0..100 * (IF union > 0 THEN union ELSE 1)
             /\ union > 0 /\ Match = 100 * union =>
                  /\ SetOf(sampled.selectors) = SetOf(baseline.selectors)
                  /\ \A s \in Signals : sampled.signals[s] = baseline.signals[s] /\ sampled.signals[s] # NoSignal
  <2>1. /\ union = Cardinality(AllSelectors)
        /\ count \in Nat /\ union \in Nat /\ count <= union
        /\ union > 0 /\ count = union => SetOf(sampled.selectors) = SetOf(baseline.selectors)
    BY <1>1, UnionCount
  <2>2. Rewards \in 0..38 /\ (Rewards = 38 => \A s \in Signals : Agree(s))
    BY RewardsBounded
  <2>3. CASE union = 0
    BY <2>1, <2>2, <2>3 DEF Match
  <2>4. CASE union > 0
    <3>1. Match = 62 * count + Rewards * union
      BY <2>4 DEF Match, Selected
    <3>2. Rewards * union \in Nat /\ Rewards * union <= 38 * union
      BY <2>1, <2>2, <2>4, Z3
    <3>3. Match \in 0..100 * union
      BY <3>1, <3>2, <2>1
    <3>4. Match = 100 * union => count = union /\ Rewards = 38
      <4>1. SUFFICES ASSUME Match = 100 * union PROVE count = union /\ Rewards = 38
        OBVIOUS
      <4>2. 62 * count + Rewards * union = 100 * union
        BY <4>1, <3>1
      <4>3. count = union /\ Rewards * union = 38 * union
        <5> DEFINE r == Rewards * union
        <5>1. r \in Nat /\ r <= 38 * union /\ 62 * count + r = 100 * union
          BY <3>2, <4>2
        <5> HIDE DEF r
        <5>2. count = union /\ r = 38 * union
          BY <5>1, <2>1, FullScore
        <5> QED
          BY <5>2 DEF r
      <4>4. Rewards = 38
        BY <4>3, <2>1, <2>2, <2>4, Z3
      <4> QED
        BY <4>3, <4>4
    <3> QED
      BY <3>3, <3>4, <2>1, <2>2, <2>4 DEF Agree
  <2> QED
    BY <2>1, <2>3, <2>4
<1>2. Counting => MatchIsAShare
  BY <1>1 DEF MatchIsAShare
<1> QED
  BY InitCounting, NextCounting, <1>2, PTL DEF MatchSpec

-----------------------------------------------------------------------------
(* A recording session.                                                   *)

UUIDs == (0..MaxClock) \X Nat
NodeRecords == [uuid : UUIDs, id : 0..MaxClock, spec : Specs \ {BadSpec}]
ActionRecords == [sequence : Nat, kind : Kinds, node : UUIDs \union {NoUUID}, target : Nat]

\* The lists and indexes of a session, and the node of every entry.
SessionTypes ==
  /\ status \in {"CREATED", "RECORDING", "PAUSED", "ENDED", "INTERRUPTED"}
  /\ clock \in 0..MaxClock
  /\ nodes \in Seq(NodeRecords)
  /\ actions \in Seq(ActionRecords)
  /\ DOMAIN byIdentity \subseteq Keys /\ DOMAIN byCaptureID \subseteq CaptureIDs
  /\ DOMAIN told = CaptureIDs

\* A session that was not started yet holds nothing, another its opening navigation.
Opened ==
  /\ status = "CREATED" => actions = <<>> /\ DOMAIN byCaptureID = {}
  /\ status \in {"RECORDING", "PAUSED", "ENDED"} => Len(actions) > 0
  /\ actions = <<>> => DOMAIN byCaptureID = {}

\* A capture was told what its id is indexed with, or nothing.
ToldAsIndexed ==
  \A x \in CaptureIDs : told[x] = IF Known(byCaptureID, x) THEN {byCaptureID[x]} ELSE {}

\* The captures are placed behind the opening navigation, one by one.
PlacedInOrder ==
  /\ IsFiniteSet(DOMAIN byCaptureID)
  /\ Len(actions) > 0 => Cardinality(DOMAIN byCaptureID) = Len(actions) - 1
  /\ {byCaptureID[x].sequence : x \in DOMAIN byCaptureID} = 2..Len(actions)

\* The part of a UUID that no other has is the node's place.
NodesByUUID ==
  /\ \A n \in 1..Len(nodes) : nodes[n].uuid[2] = n
  /\ DOMAIN byUUID = {nodes[n].uuid : n \in 1..Len(nodes)}
  /\ \A n \in 1..Len(nodes) : byUUID[nodes[n].uuid] = n
  /\ IsFiniteSet(DOMAIN byUUID) /\ Cardinality(DOMAIN byUUID) = Len(nodes)

\* Every key leads to a node, and there are no more nodes than keys.
NodesByKey ==
  /\ \A k \in DOMAIN byIdentity : byIdentity[k] \in 1..Len(nodes)
  /\ IsFiniteSet(DOMAIN byIdentity) /\ Len(nodes) <= Cardinality(DOMAIN byIdentity)

ActionsPlaced ==
  \A a \in 1..Len(actions) : actions[a].node # NoUUID =>
    \E n \in 1..Len(nodes) : nodes[n].uuid = actions[a].node /\ nodes[n].id = actions[a].target

Sound ==
  /\ SessionTypes /\ Opened /\ ToldAsIndexed /\ PlacedInOrder
  /\ NodesByUUID /\ NodesByKey /\ ActionsPlaced

-----------------------------------------------------------------------------
\* A session starts with nothing.
LEMMA InitSound == SessionInit => Sound
<1> SUFFICES ASSUME SessionInit PROVE Sound
  OBVIOUS
<1> USE DEF SessionInit
<1>1. DOMAIN <<>> = {}
  OBVIOUS
<1>2. SessionTypes
  BY <1>1, ClockAssumption DEF SessionTypes
<1>3. Opened /\ ToldAsIndexed
  BY <1>1 DEF Opened, ToldAsIndexed, Known
<1>4. PlacedInOrder
  <2>1. 2..Len(actions) = {}
    OBVIOUS
  <2>2. {byCaptureID[x].sequence : x \in DOMAIN byCaptureID} = {}
    BY <1>1
  <2>3. ~(Len(actions) > 0)
    OBVIOUS
  <2> QED
    BY <1>1, <2>1, <2>2, <2>3, FS_EmptySet DEF PlacedInOrder
<1>5. 1..Len(nodes) = {} /\ 1..Len(actions) = {} /\ Len(nodes) = 0
  OBVIOUS
<1>6. NodesByUUID /\ NodesByKey /\ ActionsPlaced
  BY <1>1, <1>5, FS_EmptySet DEF NodesByUUID, NodesByKey, ActionsPlaced
<1> QED
  BY <1>2, <1>3, <1>4, <1>6 DEF Sound

\* The invariant is about what the answers and the clock do not change.
LEMMA SoundKept ==
  ASSUME Sound, UNCHANGED <<nodes, actions, byIdentity, byUUID, byCaptureID, told>>,
         clock' \in 0..MaxClock,
         status' \in {"CREATED", "RECORDING", "PAUSED", "ENDED", "INTERRUPTED"},
         Opened'
  PROVE  Sound'
<1>1. SessionTypes'
  BY DEF Sound, SessionTypes
<1>2. ToldAsIndexed' /\ PlacedInOrder'
  BY DEF Sound, ToldAsIndexed, PlacedInOrder, Known
<1>3. NodesByUUID'
  BY DEF Sound, NodesByUUID
<1>4. NodesByKey'
  BY DEF Sound, NodesByKey
<1>5. ActionsPlaced'
  BY DEF Sound, ActionsPlaced
<1> QED
  BY <1>1, <1>2, <1>3, <1>4, <1>5 DEF Sound

\* The opening navigation is no capture (Start).
LEMMA StartSound == Sound /\ Start => Sound'
<1> SUFFICES ASSUME Sound, Start PROVE Sound'
  OBVIOUS
<1>1. /\ UNCHANGED <<nodes, byIdentity, byUUID, byCaptureID, clock, told>>
      /\ status = "CREATED" => status' = "RECORDING" /\ actions' = Append(actions, Navigate)
      /\ status # "CREATED" => status' = status /\ actions' = actions
  BY DEF Start, Move
<1>2. CASE status # "CREATED"
  <2>1. Opened'
    BY <1>1, <1>2 DEF Sound, Opened
  <2> QED
    BY <1>1, <1>2, <2>1, SoundKept DEF Sound, SessionTypes
<1>3. CASE status = "CREATED"
  <2>1. actions = <<>> /\ DOMAIN byCaptureID = {}
    BY <1>3 DEF Sound, Opened
  <2>2. actions' = <<Navigate>> /\ Len(actions') = 1 /\ actions'[1] = Navigate
    BY <2>1, <1>1, <1>3
  <2>3. SessionTypes'
    <3>1. Navigate \in ActionRecords
      BY DEF Navigate, ActionRecords, Kinds
    <3>2. actions' \in Seq(ActionRecords)
      BY <3>1, <2>2
    <3> QED
      BY <3>2, <1>1, <1>3 DEF Sound, SessionTypes
  <2>4. Opened' /\ ToldAsIndexed'
    BY <1>1, <1>3, <2>1, <2>2 DEF Sound, Opened, ToldAsIndexed, Known
  <2>5. PlacedInOrder'
    <3>1. 2..Len(actions') = {}
      BY <2>2
    <3>2. {byCaptureID'[x].sequence : x \in DOMAIN byCaptureID'} = {}
      BY <1>1, <2>1
    <3>3. Cardinality(DOMAIN byCaptureID') = 0 /\ IsFiniteSet(DOMAIN byCaptureID')
      BY <1>1, <2>1, FS_EmptySet
    <3> QED
      BY <3>1, <3>2, <3>3, <2>2 DEF PlacedInOrder
  <2>6. NodesByUUID' /\ NodesByKey'
    BY <1>1 DEF Sound, NodesByUUID, NodesByKey
  <2>7. ActionsPlaced'
    <3>1. \A a \in 1..Len(actions') : actions'[a].node = NoUUID
      BY <2>2 DEF Navigate
    <3> QED
      BY <3>1 DEF ActionsPlaced
  <2> QED
    BY <2>3, <2>4, <2>5, <2>6, <2>7 DEF Sound
<1> QED
  BY <1>2, <1>3

\* The other calls of the life cycle move the status only, and never back to CREATED.
LEMMA MoveSound ==
  Sound /\ (Pause \/ Resume \/ End \/ Interrupt \/ Tick) => Sound'
<1> SUFFICES ASSUME Sound, Pause \/ Resume \/ End \/ Interrupt \/ Tick PROVE Sound'
  OBVIOUS
<1>1. /\ UNCHANGED <<nodes, actions, byIdentity, byUUID, byCaptureID, told>>
      /\ status' \in {status, "RECORDING", "PAUSED", "ENDED", "INTERRUPTED"}
      /\ status' \in {"RECORDING", "PAUSED", "ENDED"} => status \in {"RECORDING", "PAUSED", "ENDED"}
      /\ clock' = clock \/ (clock < MaxClock /\ clock' = clock + 1)
  BY DEF Pause, Resume, End, Interrupt, Tick, Move, session
<1>2. clock' \in 0..MaxClock
  BY <1>1, ClockAssumption DEF Sound, SessionTypes
<1>3. status' \in {"CREATED", "RECORDING", "PAUSED", "ENDED", "INTERRUPTED"}
  BY <1>1 DEF Sound, SessionTypes
<1>4. Opened'
  BY <1>1 DEF Sound, Opened
<1> QED
  BY <1>1, <1>2, <1>3, <1>4, SoundKept

-----------------------------------------------------------------------------
(* One capture.                                                           *)

\* A list keeps its elements when one is appended.
LEMMA Appended ==
  ASSUME NEW S, NEW s \in Seq(S), NEW e \in S
  PROVE  /\ Append(s, e) \in Seq(S) /\ Len(Append(s, e)) = Len(s) + 1
         /\ Len(s) \in Nat
         /\ Append(s, e)[Len(s) + 1] = e
         /\ \A k \in 1..Len(s) : Append(s, e)[k] = s[k]
         /\ 1..Len(s) + 1 = 1..Len(s) \union {Len(s) + 1}
OBVIOUS

\* What is acted on: the capture is new, and is placed and told behind all others.
LEMMA ActSound ==
  ASSUME Sound, NEW c, c.id \in CaptureIDs, ~Known(byCaptureID, c.id), Recording,
         c.kind \in Kinds, NEW named \in UUIDs \union {NoUUID}, NEW target \in Nat, NEW created,
         Act(c, named, target, created), status' = status
  PROVE  /\ DOMAIN byCaptureID' \subseteq CaptureIDs /\ DOMAIN told' = CaptureIDs
         /\ actions' \in Seq(ActionRecords)
         /\ Opened' /\ ToldAsIndexed' /\ PlacedInOrder'
         /\ Len(actions') = Len(actions) + 1
         /\ actions'[Len(actions) + 1].node = named /\ actions'[Len(actions) + 1].target = target
         /\ \A a \in 1..Len(actions) : actions'[a] = actions[a]
         /\ 1..Len(actions') = 1..Len(actions) \union {Len(actions) + 1}
<1> DEFINE seq == Len(actions) + 1
           result == Result(c, named, target, seq, created)
           action == [sequence |-> seq, kind |-> c.kind, node |-> named, target |-> target]
<1>1. /\ actions' = Append(actions, action)
      /\ byCaptureID' = Put(byCaptureID, c.id, result)
      /\ told' = [told EXCEPT ![c.id] = @ \union {result}]
  BY DEF Act
<1>2. /\ actions \in Seq(ActionRecords) /\ DOMAIN byCaptureID \subseteq CaptureIDs /\ DOMAIN told = CaptureIDs
      /\ Len(actions) > 0
  BY DEF Sound, SessionTypes, Opened, Recording
<1>3. Len(actions) \in Nat
  BY <1>2
<1>4. action \in ActionRecords
  BY <1>3 DEF ActionRecords
<1>5. /\ actions' \in Seq(ActionRecords)
      /\ Len(actions') = Len(actions) + 1
      /\ actions'[Len(actions) + 1] = action
      /\ \A a \in 1..Len(actions) : actions'[a] = actions[a]
      /\ 1..Len(actions') = 1..Len(actions) \union {Len(actions) + 1}
  BY <1>1, <1>2, <1>4, Appended
<1>6. /\ DOMAIN byCaptureID' = DOMAIN byCaptureID \union {c.id}
      /\ byCaptureID'[c.id] = result
      /\ \A x \in DOMAIN byCaptureID : byCaptureID'[x] = byCaptureID[x] /\ x # c.id
  <2> HIDE DEF result
  <2>1. \A x \in DOMAIN byCaptureID : x # c.id
    BY DEF Known
  <2>2. /\ DOMAIN byCaptureID' = DOMAIN byCaptureID \union {c.id}
        /\ byCaptureID'[c.id] = result
        /\ \A x \in DOMAIN byCaptureID : x # c.id => byCaptureID'[x] = byCaptureID[x]
    <3>1. byCaptureID' = Put(byCaptureID, c.id, result)
      BY <1>1
    <3> QED
      BY <3>1 DEF Put
  <2> QED
    BY <2>1, <2>2
<1>7. DOMAIN told' = CaptureIDs
  BY <1>1, <1>2
<1>8. Opened'
  <2>1. actions' # <<>> /\ Len(actions') > 0
    BY <1>3, <1>5
  <2> QED
    BY <2>1 DEF Opened, Recording
<1>9. ToldAsIndexed'
  <2> SUFFICES ASSUME NEW x \in CaptureIDs
               PROVE  told'[x] = IF Known(byCaptureID', x) THEN {byCaptureID'[x]} ELSE {}
    BY DEF ToldAsIndexed, Known
  <2>1. CASE x = c.id
    <3>1. told[x] = {}
      BY <2>1 DEF Sound, ToldAsIndexed
    <3>2. told'[x] = told[x] \union {result}
      BY <2>1, <1>1, <1>2
    <3> QED
      BY <2>1, <3>1, <3>2, <1>6 DEF Known
  <2>2. CASE x # c.id
    <3>1. told'[x] = told[x]
      BY <2>2, <1>1, <1>2
    <3> QED
      BY <2>2, <3>1, <1>6 DEF Sound, ToldAsIndexed, Known
  <2> QED
    BY <2>1, <2>2
<1>10. PlacedInOrder'
  <2>1. result.sequence = seq
    BY DEF Result
  <2>2. {byCaptureID'[x].sequence : x \in DOMAIN byCaptureID'}
          = {byCaptureID[x].sequence : x \in DOMAIN byCaptureID} \union {seq}
    BY <2>1, <1>6
  <2>3. 2..Len(actions') = 2..Len(actions) \union {seq}
    BY <1>2, <1>3, <1>5
  <2>4. IsFiniteSet(DOMAIN byCaptureID) /\ Cardinality(DOMAIN byCaptureID) = Len(actions) - 1
    BY <1>2 DEF Sound, PlacedInOrder
  <2>5. /\ IsFiniteSet(DOMAIN byCaptureID')
        /\ Cardinality(DOMAIN byCaptureID') = Cardinality(DOMAIN byCaptureID) + 1
    BY <2>4, <1>6, FS_AddElement DEF Known
  <2>6. Cardinality(DOMAIN byCaptureID') = Len(actions') - 1
    BY <2>4, <2>5, <1>3, <1>5
  <2> QED
    BY <2>2, <2>3, <2>5, <2>6 DEF Sound, PlacedInOrder
<1>11. action.node = named /\ action.target = target
  OBVIOUS
<1> HIDE DEF action
<1> QED
  BY <1>2, <1>5, <1>6, <1>7, <1>8, <1>9, <1>10, <1>11

\* What a capture carries for its kind (shapeViolations).
LEMMA ShapeHolds ==
  ASSUME NEW hints, NEW c \in Capture(hints), shapeViolations(c) = {}
  PROVE  /\ c.id \in CaptureIDs \/ c.id = NoKey
         /\ c.id # NoKey /\ c.kind \in Kinds /\ c.spec \in Specs
         /\ c.kind # "PRESS" => c.key # NoKey /\ c.key \in Keys
<1>1. /\ c.id \in CaptureIDs \union {NoKey} /\ c.key \in Keys \union {NoKey}
      /\ c.kind \in Kinds /\ c.spec \in Specs
  BY DEF Capture
<1>2. c.id # NoKey
  BY DEF shapeViolations
<1>3. c.kind \in ElementKinds => c.key # NoKey
  BY DEF shapeViolations
<1>4. c.kind # "NAVIGATE"
  BY DEF shapeViolations
<1>5. c.kind # "PRESS" => c.kind \in ElementKinds
  BY <1>1, <1>4 DEF Kinds
<1> QED
  BY <1>1, <1>2, <1>3, <1>5

\* The node a capture is about is one of the session, or the next.
LEMMA IndexFound ==
  ASSUME Sound, NEW c
  PROVE  \/ NodeIndex(c) \in 1..Len(nodes)
         \/ NodeIndex(c) = Len(nodes) + 1 /\ ~Known(byUUID, c.hint) /\ ~Known(byIdentity, c.key)
<1>1. \A u \in DOMAIN byUUID : byUUID[u] \in 1..Len(nodes)
  <2>1. /\ DOMAIN byUUID = {nodes[n].uuid : n \in 1..Len(nodes)}
        /\ \A n \in 1..Len(nodes) : byUUID[nodes[n].uuid] = n
    BY DEF Sound, NodesByUUID
  <2> QED
    BY <2>1
<1>2. \A k \in DOMAIN byIdentity : byIdentity[k] \in 1..Len(nodes)
  BY DEF Sound, NodesByKey
<1> QED
  BY <1>1, <1>2 DEF NodeIndex, Known

\* Only a refusal and the binding of a key: nothing is lost (RecordSeen).
LEMMA KeyBound ==
  ASSUME Sound, NEW k \in Keys, NEW n \in 1..Len(nodes),
         byIdentity' = Put(byIdentity, k, n), Len(nodes') = Len(nodes)
  PROVE  /\ DOMAIN byIdentity' \subseteq Keys /\ NodesByKey'
<1>1. /\ DOMAIN byIdentity' = DOMAIN byIdentity \union {k}
      /\ byIdentity'[k] = n
      /\ \A x \in DOMAIN byIdentity : x # k => byIdentity'[x] = byIdentity[x]
  BY DEF Put
<1>2. /\ \A x \in DOMAIN byIdentity : byIdentity[x] \in 1..Len(nodes)
      /\ IsFiniteSet(DOMAIN byIdentity) /\ Len(nodes) <= Cardinality(DOMAIN byIdentity)
      /\ DOMAIN byIdentity \subseteq Keys /\ nodes \in Seq(NodeRecords)
  BY DEF Sound, NodesByKey, SessionTypes
<1>3. \A x \in DOMAIN byIdentity' : byIdentity'[x] \in 1..Len(nodes')
  BY <1>1, <1>2
<1>4. /\ IsFiniteSet(DOMAIN byIdentity') /\ Cardinality(DOMAIN byIdentity') \in Nat
      /\ Cardinality(DOMAIN byIdentity) \in Nat
      /\ Cardinality(DOMAIN byIdentity) <= Cardinality(DOMAIN byIdentity')
  <2>1. IsFiniteSet(DOMAIN byIdentity')
    BY <1>1, <1>2, FS_AddElement
  <2>2. DOMAIN byIdentity \subseteq DOMAIN byIdentity'
    BY <1>1
  <2> QED
    BY <2>1, <2>2, <1>2, FS_Subset, FS_CardinalityType
<1>5. Len(nodes') <= Cardinality(DOMAIN byIdentity')
  BY <1>2, <1>4
<1> QED
  BY <1>1, <1>2, <1>3, <1>4, <1>5 DEF NodesByKey

\* A refused capture.
LEMMA RefusedSound ==
  ASSUME Sound, NEW code, RefuseCapture(code), UNCHANGED <<status, clock>>, UNCHANGED byIdentity
  PROVE  Sound'
<1>1. UNCHANGED <<nodes, actions, byIdentity, byUUID, byCaptureID, told>>
  BY DEF RefuseCapture
<1>2. Opened'
  BY <1>1 DEF Sound, Opened
<1> QED
  BY <1>1, <1>2, SoundKept DEF Sound, SessionTypes

\* A repeated capture is told what it was told.
LEMMA ReplayedSound ==
  ASSUME Sound, NEW c, c.id \in CaptureIDs, Known(byCaptureID, c.id),
         UNCHANGED <<status, clock, nodes, actions, byIdentity, byUUID, byCaptureID>>,
         told' = [told EXCEPT ![c.id] = @ \union {byCaptureID[c.id]}]
  PROVE  Sound'
<1>1. told[c.id] = {byCaptureID[c.id]} /\ DOMAIN told = CaptureIDs
  BY DEF Sound, ToldAsIndexed, SessionTypes
<1>2. DOMAIN told' = CaptureIDs /\ \A x \in CaptureIDs : told'[x] = told[x]
  BY <1>1
<1>3. SessionTypes'
  BY <1>2 DEF Sound, SessionTypes
<1>4. Opened'
  BY DEF Sound, Opened
<1>5. ToldAsIndexed'
  BY <1>2 DEF Sound, ToldAsIndexed, Known
<1>6. PlacedInOrder'
  BY DEF Sound, PlacedInOrder
<1>7. NodesByUUID'
  BY DEF Sound, NodesByUUID
<1>8. NodesByKey'
  BY DEF Sound, NodesByKey
<1>9. ActionsPlaced'
  BY DEF Sound, ActionsPlaced
<1> QED
  BY <1>3, <1>4, <1>5, <1>6, <1>7, <1>8, <1>9 DEF Sound

\* Keys pressed name no node (the ActionPress branch).
LEMMA PressSound ==
  ASSUME Sound, NEW c, c.id \in CaptureIDs, ~Known(byCaptureID, c.id), Recording,
         c.kind \in Kinds, RecordPress(c), UNCHANGED <<status, clock>>
  PROVE  Sound'
<1>1. Act(c, NoUUID, 0, FALSE) /\ UNCHANGED <<nodes, byIdentity, byUUID>>
  BY DEF RecordPress
<1>2. /\ DOMAIN byCaptureID' \subseteq CaptureIDs /\ DOMAIN told' = CaptureIDs
      /\ actions' \in Seq(ActionRecords)
      /\ Opened' /\ ToldAsIndexed' /\ PlacedInOrder'
      /\ Len(actions') = Len(actions) + 1
      /\ actions'[Len(actions) + 1].node = NoUUID
      /\ \A a \in 1..Len(actions) : actions'[a] = actions[a]
      /\ 1..Len(actions') = 1..Len(actions) \union {Len(actions) + 1}
  <2>1. NoUUID \in UUIDs \union {NoUUID} /\ 0 \in Nat
    OBVIOUS
  <2> QED
    BY <1>1, <2>1, ActSound
<1>3. SessionTypes'
  BY <1>1, <1>2 DEF Sound, SessionTypes
<1>4. NodesByUUID'
  BY <1>1 DEF Sound, NodesByUUID
<1>5. NodesByKey'
  BY <1>1 DEF Sound, NodesByKey
<1>6. ActionsPlaced'
  BY <1>1, <1>2 DEF Sound, ActionsPlaced
<1> QED
  BY <1>2, <1>3, <1>4, <1>5, <1>6 DEF Sound

\* A node more has a UUID that no other has, and its key is new (the created branch).
LEMMA NewSound ==
  ASSUME Sound, NEW c, c.id \in CaptureIDs, ~Known(byCaptureID, c.id), Recording,
         c.kind \in Kinds, c.key \in Keys, c.spec \in Specs, c.spec # BadSpec,
         ~Known(byIdentity, c.key),
         RecordNew(c), UNCHANGED <<status, clock>>
  PROVE  Sound'
<1> DEFINE uuid == NewUUID
           next == Len(nodes) + 1
           record == [uuid |-> uuid, id |-> ShortID(uuid), spec |-> c.spec]
<1>1. /\ nodes' = Append(nodes, record)
      /\ byIdentity' = Put(byIdentity, c.key, next)
      /\ byUUID' = Put(byUUID, uuid, next)
      /\ Act(c, uuid, ShortID(uuid), TRUE)
  BY DEF RecordNew
<1>2. nodes \in Seq(NodeRecords) /\ clock \in 0..MaxClock
  BY DEF Sound, SessionTypes
<1>3. /\ uuid \in UUIDs /\ uuid[2] = next /\ ShortID(uuid) = clock /\ clock \in Nat /\ uuid # NoUUID
  BY <1>2, ClockAssumption DEF UUIDs, NewUUID, ShortID, NoUUID
<1>4. record \in NodeRecords
  BY <1>2, <1>3 DEF NodeRecords
<1>5. /\ nodes' \in Seq(NodeRecords) /\ Len(nodes') = next /\ Len(nodes) \in Nat
      /\ nodes'[next] = record
      /\ \A n \in 1..Len(nodes) : nodes'[n] = nodes[n]
      /\ 1..Len(nodes') = 1..Len(nodes) \union {next}
  <2> HIDE DEF record
  <2> QED
    BY <1>1, <1>2, <1>4, Appended
<1>6. record.uuid = uuid /\ record.id = ShortID(uuid)
  OBVIOUS
<1> HIDE DEF record, uuid
<1>7. /\ DOMAIN byCaptureID' \subseteq CaptureIDs /\ DOMAIN told' = CaptureIDs
      /\ actions' \in Seq(ActionRecords)
      /\ Opened' /\ ToldAsIndexed' /\ PlacedInOrder'
      /\ Len(actions') = Len(actions) + 1
      /\ actions'[Len(actions) + 1].node = uuid /\ actions'[Len(actions) + 1].target = ShortID(uuid)
      /\ \A a \in 1..Len(actions) : actions'[a] = actions[a]
      /\ 1..Len(actions') = 1..Len(actions) \union {Len(actions) + 1}
  <2>1. uuid \in UUIDs \union {NoUUID} /\ ShortID(uuid) \in Nat
    BY <1>3
  <2> QED
    BY <1>1, <2>1, ActSound
<1>8. /\ DOMAIN byIdentity' = DOMAIN byIdentity \union {c.key}
      /\ byIdentity'[c.key] = next
      /\ \A x \in DOMAIN byIdentity : byIdentity'[x] = byIdentity[x]
  BY <1>1 DEF Put, Known
<1>9. uuid \notin DOMAIN byUUID
  <2>1. /\ DOMAIN byUUID = {nodes[n].uuid : n \in 1..Len(nodes)}
        /\ \A n \in 1..Len(nodes) : nodes[n].uuid[2] = n
    BY DEF Sound, NodesByUUID
  <2> QED
    BY <2>1, <1>3, <1>5
<1>10. /\ DOMAIN byUUID' = DOMAIN byUUID \union {uuid}
       /\ byUUID'[uuid] = next
       /\ \A u \in DOMAIN byUUID : byUUID'[u] = byUUID[u]
  BY <1>1, <1>9 DEF Put
<1>11. SessionTypes'
  BY <1>2, <1>5, <1>7, <1>8 DEF Sound, SessionTypes
<1>12. NodesByUUID'
  <2>1. /\ \A n \in 1..Len(nodes) : nodes[n].uuid[2] = n
        /\ DOMAIN byUUID = {nodes[n].uuid : n \in 1..Len(nodes)}
        /\ \A n \in 1..Len(nodes) : byUUID[nodes[n].uuid] = n
        /\ IsFiniteSet(DOMAIN byUUID) /\ Cardinality(DOMAIN byUUID) = Len(nodes)
    BY DEF Sound, NodesByUUID
  <2>2. \A n \in 1..Len(nodes') : nodes'[n].uuid[2] = n
    BY <2>1, <1>3, <1>5, <1>6
  <2>3. DOMAIN byUUID' = {nodes'[n].uuid : n \in 1..Len(nodes')}
    <3>1. {nodes'[n].uuid : n \in 1..Len(nodes')} = {nodes[n].uuid : n \in 1..Len(nodes)} \union {uuid}
      BY <1>5, <1>6
    <3> QED
      BY <2>1, <3>1, <1>10
  <2>4. \A n \in 1..Len(nodes') : byUUID'[nodes'[n].uuid] = n
    <3>1. \A n \in 1..Len(nodes) : nodes[n].uuid \in DOMAIN byUUID
      BY <2>1
    <3>2. \A n \in 1..Len(nodes) : byUUID'[nodes'[n].uuid] = n
      BY <2>1, <3>1, <1>5, <1>10
    <3>3. byUUID'[nodes'[next].uuid] = next
      BY <1>5, <1>6, <1>10
    <3> QED
      BY <3>2, <3>3, <1>5
  <2>5. IsFiniteSet(DOMAIN byUUID') /\ Cardinality(DOMAIN byUUID') = Len(nodes')
    <3>1. /\ IsFiniteSet(DOMAIN byUUID \union {uuid})
          /\ Cardinality(DOMAIN byUUID \union {uuid}) = Cardinality(DOMAIN byUUID) + 1
      BY <2>1, <1>9, FS_AddElement
    <3> QED
      BY <2>1, <3>1, <1>5, <1>10
  <2> QED
    BY <2>2, <2>3, <2>4, <2>5 DEF NodesByUUID
<1>13. NodesByKey'
  <2>1. /\ \A k \in DOMAIN byIdentity : byIdentity[k] \in 1..Len(nodes)
        /\ IsFiniteSet(DOMAIN byIdentity) /\ Len(nodes) <= Cardinality(DOMAIN byIdentity)
    BY DEF Sound, NodesByKey
  <2>2. \A k \in DOMAIN byIdentity' : byIdentity'[k] \in 1..Len(nodes')
    BY <2>1, <1>5, <1>8
  <2>3. IsFiniteSet(DOMAIN byIdentity') /\ Cardinality(DOMAIN byIdentity') = Cardinality(DOMAIN byIdentity) + 1
    BY <2>1, <1>8, FS_AddElement DEF Known
  <2>4. Cardinality(DOMAIN byIdentity) \in Nat
    BY <2>1, FS_CardinalityType
  <2>5. Len(nodes') <= Cardinality(DOMAIN byIdentity')
    BY <2>1, <2>3, <2>4, <1>5
  <2> QED
    BY <2>2, <2>3, <2>5 DEF NodesByKey
<1>14. ActionsPlaced'
  <2> SUFFICES ASSUME NEW a \in 1..Len(actions'), actions'[a].node # NoUUID
               PROVE  \E n \in 1..Len(nodes') :
                        nodes'[n].uuid = actions'[a].node /\ nodes'[n].id = actions'[a].target
    BY DEF ActionsPlaced
  <2>1. CASE a = Len(actions) + 1
    BY <2>1, <1>5, <1>6, <1>7
  <2>2. CASE a \in 1..Len(actions)
    <3>1. PICK n \in 1..Len(nodes) : nodes[n].uuid = actions[a].node /\ nodes[n].id = actions[a].target
      BY <2>2, <1>7 DEF Sound, ActionsPlaced
    <3> QED
      BY <3>1, <2>2, <1>5, <1>7
  <2> QED
    BY <2>1, <2>2, <1>7
<1> QED
  BY <1>7, <1>11, <1>12, <1>13, <1>14 DEF Sound

\* An element captured again keeps its node, and the node its two names, whether its
\* new content is valid or not (the update branch).
LEMMA SeenSound ==
  ASSUME Sound, NEW c, c.id \in CaptureIDs, ~Known(byCaptureID, c.id), Recording,
         c.kind \in Kinds, c.key \in Keys, c.spec \in Specs,
         NEW n \in 1..Len(nodes), RecordSeen(c, n), UNCHANGED <<status, clock>>
  PROVE  Sound'
<1>1. byIdentity' = Put(byIdentity, c.key, n)
  BY DEF RecordSeen
<1>2. nodes \in Seq(NodeRecords)
  BY DEF Sound, SessionTypes
<1>3. CASE c.spec = BadSpec
  <2>1. UNCHANGED <<nodes, actions, byUUID, byCaptureID, told>>
    BY <1>3 DEF RecordSeen, RefuseCapture
  <2>2. DOMAIN byIdentity' \subseteq Keys /\ NodesByKey'
    BY <1>1, <2>1, KeyBound
  <2>3. SessionTypes'
    BY <2>1, <2>2 DEF Sound, SessionTypes
  <2>4. Opened'
    BY <2>1 DEF Sound, Opened
  <2>5. ToldAsIndexed'
    BY <2>1 DEF Sound, ToldAsIndexed, Known
  <2>6. PlacedInOrder'
    BY <2>1 DEF Sound, PlacedInOrder
  <2>7. NodesByUUID'
    BY <2>1 DEF Sound, NodesByUUID
  <2>8. ActionsPlaced'
    BY <2>1 DEF Sound, ActionsPlaced
  <2> QED
    BY <2>2, <2>3, <2>4, <2>5, <2>6, <2>7, <2>8 DEF Sound
<1>4. CASE c.spec # BadSpec
  <2>1. /\ nodes' = [nodes EXCEPT ![n].spec = c.spec] /\ UNCHANGED byUUID
        /\ Act(c, nodes[n].uuid, nodes[n].id, FALSE)
    BY <1>4 DEF RecordSeen
  <2>2. nodes[n] \in NodeRecords
    BY <1>2
  <2>3. nodes[n].uuid \in UUIDs /\ nodes[n].id \in Nat
    BY <2>2, ClockAssumption DEF NodeRecords
  <2>4. /\ nodes' \in Seq(NodeRecords) /\ Len(nodes') = Len(nodes)
        /\ \A m \in 1..Len(nodes) : nodes'[m].uuid = nodes[m].uuid /\ nodes'[m].id = nodes[m].id
    <3> DEFINE updated == [nodes[n] EXCEPT !.spec = c.spec]
    <3>1. nodes' = [nodes EXCEPT ![n] = updated]
      BY <2>1
    <3>2. updated \in NodeRecords /\ updated.uuid = nodes[n].uuid /\ updated.id = nodes[n].id
      BY <2>2, <1>4 DEF NodeRecords
    <3> HIDE DEF updated
    <3>3. nodes' \in Seq(NodeRecords) /\ Len(nodes') = Len(nodes)
      BY <3>1, <3>2, <1>2
    <3>4. \A m \in 1..Len(nodes) : nodes'[m] = IF m = n THEN updated ELSE nodes[m]
      BY <3>1, <1>2
    <3> QED
      BY <3>2, <3>3, <3>4
  <2>5. DOMAIN byIdentity' \subseteq Keys /\ NodesByKey'
    BY <1>1, <2>4, KeyBound
  <2>6. /\ DOMAIN byCaptureID' \subseteq CaptureIDs /\ DOMAIN told' = CaptureIDs
        /\ actions' \in Seq(ActionRecords)
        /\ Opened' /\ ToldAsIndexed' /\ PlacedInOrder'
        /\ Len(actions') = Len(actions) + 1
        /\ actions'[Len(actions) + 1].node = nodes[n].uuid /\ actions'[Len(actions) + 1].target = nodes[n].id
        /\ \A a \in 1..Len(actions) : actions'[a] = actions[a]
        /\ 1..Len(actions') = 1..Len(actions) \union {Len(actions) + 1}
    <3> DEFINE named == nodes[n].uuid
               short == nodes[n].id
    <3>1. named \in UUIDs \union {NoUUID} /\ short \in Nat /\ Act(c, named, short, FALSE)
      BY <2>1, <2>3
    <3> HIDE DEF named, short
    <3>2. /\ DOMAIN byCaptureID' \subseteq CaptureIDs /\ DOMAIN told' = CaptureIDs
          /\ actions' \in Seq(ActionRecords)
          /\ Opened' /\ ToldAsIndexed' /\ PlacedInOrder'
          /\ Len(actions') = Len(actions) + 1
          /\ actions'[Len(actions) + 1].node = named /\ actions'[Len(actions) + 1].target = short
          /\ \A a \in 1..Len(actions) : actions'[a] = actions[a]
          /\ 1..Len(actions') = 1..Len(actions) \union {Len(actions) + 1}
      BY <3>1, ActSound
    <3> QED
      BY <3>2 DEF named, short
  <2>7. SessionTypes'
    BY <2>4, <2>5, <2>6 DEF Sound, SessionTypes
  <2>8. NodesByUUID'
    <3>1. /\ \A m \in 1..Len(nodes) : nodes[m].uuid[2] = m
          /\ DOMAIN byUUID = {nodes[m].uuid : m \in 1..Len(nodes)}
          /\ \A m \in 1..Len(nodes) : byUUID[nodes[m].uuid] = m
          /\ IsFiniteSet(DOMAIN byUUID) /\ Cardinality(DOMAIN byUUID) = Len(nodes)
      BY DEF Sound, NodesByUUID
    <3>2. {nodes'[m].uuid : m \in 1..Len(nodes')} = {nodes[m].uuid : m \in 1..Len(nodes)}
      BY <2>4
    <3> QED
      BY <3>1, <3>2, <2>1, <2>4 DEF NodesByUUID
  <2>9. ActionsPlaced'
    <3> SUFFICES ASSUME NEW a \in 1..Len(actions'), actions'[a].node # NoUUID
                 PROVE  \E m \in 1..Len(nodes') :
                          nodes'[m].uuid = actions'[a].node /\ nodes'[m].id = actions'[a].target
      BY DEF ActionsPlaced
    <3>1. CASE a = Len(actions) + 1
      BY <3>1, <2>4, <2>6
    <3>2. CASE a \in 1..Len(actions)
      <4>1. PICK m \in 1..Len(nodes) : nodes[m].uuid = actions[a].node /\ nodes[m].id = actions[a].target
        BY <3>2, <2>6 DEF Sound, ActionsPlaced
      <4> QED
        BY <4>1, <3>2, <2>4, <2>6
    <3> QED
      BY <3>1, <3>2, <2>6
  <2> QED
    BY <2>5, <2>6, <2>7, <2>8, <2>9 DEF Sound
<1> QED
  BY <1>3, <1>4

\* Whatever a browser sends (Record).
LEMMA RecordSound ==
  ASSUME Sound, NEW hints, NEW c \in Capture(hints), Record(c)
  PROVE  Sound'
<1>1. UNCHANGED <<status, clock>>
  BY DEF Record
<1>2. CASE ~Recording
  BY <1>1, <1>2, RefusedSound DEF Record
<1>3. CASE Recording /\ Replayed(c)
  <2>1. c.id \in CaptureIDs /\ Known(byCaptureID, c.id)
    BY <1>3 DEF Replayed, Known, Sound, SessionTypes
  <2>2. /\ told' = [told EXCEPT ![c.id] = @ \union {byCaptureID[c.id]}]
        /\ UNCHANGED <<nodes, actions, byIdentity, byUUID, byCaptureID>>
    BY <1>3 DEF Record
  <2> QED
    BY <1>1, <2>1, <2>2, ReplayedSound
<1>4. CASE Recording /\ ~Replayed(c) /\ shapeViolations(c) # {}
  BY <1>1, <1>4, RefusedSound DEF Record
<1>5. CASE Recording /\ ~Replayed(c) /\ shapeViolations(c) = {}
  <2>1. /\ c.id \in CaptureIDs /\ ~Known(byCaptureID, c.id) /\ c.kind \in Kinds /\ c.spec \in Specs
        /\ c.kind # "PRESS" => c.key \in Keys
    BY <1>5, ShapeHolds DEF Replayed
  <2>2. CASE c.kind = "PRESS"
    <3>1. RecordPress(c)
      BY <1>5, <2>2 DEF Record
    <3> QED
      BY <1>1, <1>5, <2>1, <3>1, PressSound
  <2>3. CASE c.kind # "PRESS" /\ NodeIndex(c) > Len(nodes)
    <3>1. RecordNew(c)
      BY <1>5, <2>3 DEF Record
    <3>2. ~Known(byIdentity, c.key)
      BY <2>3, IndexFound DEF Sound, SessionTypes
    <3>3. CASE c.spec = BadSpec
      BY <1>1, <3>1, <3>3, RefusedSound DEF RecordNew
    <3>4. CASE c.spec # BadSpec
      BY <1>1, <1>5, <2>1, <2>3, <3>1, <3>2, <3>4, NewSound
    <3> QED
      BY <3>3, <3>4
  <2>4. CASE c.kind # "PRESS" /\ ~(NodeIndex(c) > Len(nodes))
    <3>1. RecordSeen(c, NodeIndex(c))
      BY <1>5, <2>4 DEF Record
    <3>2. NodeIndex(c) \in 1..Len(nodes)
      <4>1. Len(nodes) \in Nat
        BY DEF Sound, SessionTypes
      <4> QED
        BY <2>4, <4>1, IndexFound
    <3> DEFINE place == NodeIndex(c)
    <3> HIDE DEF place
    <3>3. place \in 1..Len(nodes) /\ RecordSeen(c, place)
      BY <3>1, <3>2 DEF place
    <3> QED
      BY <1>1, <1>5, <2>1, <2>4, <3>3, SeenSound
  <2> QED
    BY <2>2, <2>3, <2>4
<1> QED
  BY <1>2, <1>3, <1>4, <1>5

\* Every step of a session keeps the invariant.
LEMMA NextSound == Sound /\ [SessionNext]_sessionVars => Sound'
<1> SUFFICES ASSUME Sound, [SessionNext]_sessionVars PROVE Sound'
  OBVIOUS
<1>1. CASE Start
  BY <1>1, StartSound
<1>2. CASE Pause \/ Resume \/ End \/ Interrupt \/ Tick
  BY <1>2, MoveSound
<1>3. ASSUME NEW c \in Capture({NoUUID} \union DOMAIN byUUID), Record(c) PROVE Sound'
  BY <1>3, RecordSound
<1>4. CASE UNCHANGED sessionVars
  <2>1. UNCHANGED <<status, nodes, actions, byIdentity, byUUID, byCaptureID, clock, told>>
    BY <1>4 DEF sessionVars, session
  <2>2. Opened'
    BY <2>1 DEF Sound, Opened
  <2> QED
    BY <2>1, <2>2, SoundKept DEF Sound, SessionTypes
<1> QED
  BY <1>1, <1>2, <1>3, <1>4 DEF SessionNext

-----------------------------------------------------------------------------
\* What the invariant says of captures and nodes.
LEMMA SoundIsEnough == Sound => CapturesAreSound
<1> SUFFICES ASSUME Sound PROVE CapturesAreSound
  OBVIOUS
<1>1. SessionTypeOK
  <2>1. \A n \in DOMAIN nodes : nodes[n].uuid[1] \in 0..MaxClock /\ nodes[n].spec \in Specs \ {BadSpec}
    <3>1. \A n \in DOMAIN nodes : nodes[n] \in NodeRecords
      BY DEF Sound, SessionTypes
    <3>2. \A r \in NodeRecords : r.uuid[1] \in 0..MaxClock /\ r.spec \in Specs \ {BadSpec}
      BY DEF NodeRecords, UUIDs
    <3> QED
      BY <3>1, <3>2
  <2>2. \A a \in DOMAIN actions : actions[a].kind \in Kinds
    <3>1. \A a \in DOMAIN actions : actions[a] \in ActionRecords
      BY DEF Sound, SessionTypes
    <3> QED
      BY <3>1 DEF ActionRecords
  <2> QED
    BY <2>1, <2>2 DEF Sound, SessionTypes, SessionTypeOK
<1>2. RetriesAgree
  <2> SUFFICES ASSUME NEW x \in CaptureIDs PROVE Cardinality(told[x]) <= 1
    BY DEF RetriesAgree
  <2>1. CASE Known(byCaptureID, x)
    <3>1. told[x] = {byCaptureID[x]}
      BY <2>1 DEF Sound, ToldAsIndexed
    <3>2. Cardinality({byCaptureID[x]}) = 1
      BY FS_Singleton
    <3> QED
      BY <3>1, <3>2
  <2>2. CASE ~Known(byCaptureID, x)
    <3>1. told[x] = {}
      BY <2>2 DEF Sound, ToldAsIndexed
    <3>2. Cardinality({}) = 0
      BY FS_EmptySet
    <3> QED
      BY <3>1, <3>2
  <2> QED
    BY <2>1, <2>2
<1>3. OneActionPerCapture
  <2> DEFINE places == {byCaptureID[x].sequence : x \in DOMAIN byCaptureID}
  <2>1. places = 2..Len(actions) /\ Len(actions) \in Nat
    BY DEF Sound, PlacedInOrder, SessionTypes
  <2>2. Cardinality(2..Len(actions)) = Cardinality(DOMAIN byCaptureID)
    <3>1. CASE Len(actions) > 0
      <4>1. Cardinality(2..Len(actions)) = Len(actions) - 1
        BY <2>1, <3>1, FS_Interval
      <4> QED
        BY <4>1, <3>1 DEF Sound, PlacedInOrder
    <3>2. CASE Len(actions) = 0
      <4>1. actions = <<>>
        BY <3>2 DEF Sound, SessionTypes
      <4>2. DOMAIN byCaptureID = {} /\ 2..Len(actions) = {}
        BY <4>1, <3>2 DEF Sound, Opened
      <4> QED
        BY <4>2
    <3> QED
      BY <2>1, <3>1, <3>2
  <2> QED
    BY <2>1, <2>2 DEF OneActionPerCapture
<1>4. ActionsNameTheirNode
  <2>1. DOMAIN actions = 1..Len(actions) /\ DOMAIN nodes = 1..Len(nodes)
    BY DEF Sound, SessionTypes
  <2> QED
    BY <2>1 DEF Sound, ActionsPlaced, ActionsNameTheirNode
<1>5. UUIDsFindTheirNode
  <2>1. DOMAIN nodes = 1..Len(nodes)
    BY DEF Sound, SessionTypes
  <2> QED
    BY <2>1 DEF Sound, NodesByUUID, UUIDsFindTheirNode, Known
<1>6. OneNodePerKey
  BY DEF Sound, NodesByKey, OneNodePerKey
<1> QED
  BY <1>1, <1>2, <1>3, <1>4, <1>5, <1>6 DEF CapturesAreSound

\* However captures are repeated, late or malformed, each is answered once and acted
\* on once, and names one node (session.go, Record).
THEOREM CapturesTheorem == SessionSpec => []CapturesAreSound
<1> QED
  BY InitSound, NextSound, SoundIsEnough, PTL DEF SessionSpec

\* What is recorded is appended, by a recording session only, and an ended or
\* interrupted one keeps all as it was.
LEMMA StepsStay ==
  ASSUME Sound, [SessionNext]_sessionVars
  PROVE  /\ SubSeq(actions', 1, Len(actions)) = actions
         /\ <<nodes, byCaptureID>> # <<nodes', byCaptureID'>> => status = "RECORDING"
         /\ status \in {"ENDED", "INTERRUPTED"} => session' = session
<1> DEFINE Stays == /\ SubSeq(actions', 1, Len(actions)) = actions
                    /\ <<nodes, byCaptureID>> # <<nodes', byCaptureID'>> => status = "RECORDING"
                    /\ status \in {"ENDED", "INTERRUPTED"} => session' = session
<1>1. actions \in Seq(ActionRecords)
  BY DEF Sound, SessionTypes
<1>2. actions' = actions => SubSeq(actions', 1, Len(actions)) = actions
  BY <1>1
<1>3. \A e : actions' = Append(actions, e) => SubSeq(actions', 1, Len(actions)) = actions
  BY <1>1
<1>4. CASE Start
  BY <1>2, <1>3, <1>4 DEF Start, Move, session
<1>5. CASE Pause \/ Resume \/ End \/ Interrupt \/ Tick
  BY <1>2, <1>5 DEF Pause, Resume, End, Interrupt, Tick, Move, session
<1>6. ASSUME NEW c \in Capture({NoUUID} \union DOMAIN byUUID), Record(c) PROVE Stays
  <2>1. CASE ~Recording
    BY <1>2, <1>6, <2>1 DEF Record, RefuseCapture, session
  <2>2. CASE Recording
    <3>1. actions' = actions \/ \E e : actions' = Append(actions, e)
      BY <1>6 DEF Record, RefuseCapture, RecordPress, RecordNew, RecordSeen, Act
    <3> QED
      BY <1>2, <1>3, <2>2, <3>1 DEF Recording
  <2> QED
    BY <2>1, <2>2
<1>7. CASE UNCHANGED sessionVars
  BY <1>2, <1>7 DEF sessionVars, session
<1> QED
  BY <1>4, <1>5, <1>6, <1>7 DEF SessionNext

\* What was recorded stays recorded (RecordedStays).
THEOREM RecordedTheorem == SessionSpec => RecordedStays
<1>1. Sound /\ [SessionNext]_sessionVars =>
        [/\ SubSeq(actions', 1, Len(actions)) = actions
         /\ <<nodes, byCaptureID>> # <<nodes', byCaptureID'>> => status = "RECORDING"
         /\ status \in {"ENDED", "INTERRUPTED"} => session' = session]_sessionVars
  BY StepsStay
<1> QED
  BY InitSound, NextSound, <1>1, PTL DEF SessionSpec, RecordedStays

-----------------------------------------------------------------------------
(* The governance of heals.  The invariant says of every base version what *)
(* its streak, its effect, its candidate and its version owe each other    *)
(* and the log of accepted facts (BaseSound), of every worker what was     *)
(* recorded and answered (WorkerHolds), and of every call of a reviewer    *)
(* what it read and was told (CallHolds, ReviewHolds).                     *)

Bands == {"APPLIED", "BELOW_CAP", "UNKNOWN"}
Outcomes == {"SUCCEEDED", "ORIGINAL_RECOVERED", "FAILED"}
Named == Hashes \union {Blank}
PlanErrors == {"snapshotInvalid", "stateInvalid", "observationInvalid", "provenanceConflict"}
ReviewAnswers == {Blank, "applied", "replayed", "candidateInvalid", "revisionConflict", "staleBase",
                  "authorityConflict", "contractViolation", "stateInvalid", "rejectionInvalid",
                  "sequenceConflict"}

\* What the tables of a setting s hold.
BasesOf(s) == 1..s.versions
BasedFacts(s) ==
  [id : FactIDs, outcome : Outcomes, candidate : Named, band : Bands, base : BasesOf(s)]
Contributions(s) ==
  [fact : s.instances \X FactIDs, commit : s.instances \X Nat, instance : s.instances, sequence : Nat]
Streaks(s) ==
  [base : Nat, candidate : Named, band : Bands \union {Blank}, contributions : Seq(Contributions(s)),
   consumed : Seq(Contributions(s)), lastSequence : Nat, observing : BOOLEAN, disposition : Dispositions]
Observations(s) ==
  [contribution : Contributions(s), base : BasesOf(s), candidate : Named, band : Bands,
   outcome : Outcomes, baseIsCurrent : BOOLEAN]
Entries(s) ==
  [fact : (s.instances \union s.calls) \X (FactIDs \union {"rejection"}), base : Nat,
   outcome : Outcomes \union {"REJECTION"}, candidate : Named, band : Bands \union {Blank},
   baseIsCurrent : BOOLEAN]
Effects(s) ==
  [kind : Dispositions \union {Blank}, candidate : Named, band : Bands \union {Blank},
   contributions : Seq(Contributions(s))]
CandidateRecords ==
  [status : {Blank, "AWAITING_APPROVAL", "PROMOTED", "REJECTED"}, hash : Named, revision : Nat]
VersionRecords == [source : {"manual", "auto", "review"}, base : Nat, candidate : Named]
AllTables(s) ==
  [log : Seq(Entries(s)), streaks : [BasesOf(s) -> Streaks(s)], effects : [BasesOf(s) -> Effects(s)],
   candidates : [BasesOf(s) -> CandidateRecords],
   node : [revision : Nat, versions : Seq(VersionRecords)], error : PlanErrors \union {Blank}]

Earning == {"OBSERVING", "AUTO_PUBLISH", "AWAIT_APPROVAL", "REJECTED"}

\* A streak of base b is readable, or has counted nothing.
Readable(k, b) ==
  /\ Unstarted(k) \/ StreakValid(k)
  /\ k.base \in {NoBase, b}
  /\ k.consumed = <<>> => k.contributions = <<>>
  /\ \A j \in 1..Len(k.contributions) : \E m \in 1..Len(k.consumed) : k.consumed[m] = k.contributions[j]
  /\ k.disposition = "OBSERVING" => k.observing
  /\ k.disposition = "REJECTED" => Len(k.contributions) = Required

\* Every contribution is a success in the log, of the instance that it names.
Evident(k, list) ==
  /\ k.lastSequence <= Len(list)
  /\ k.disposition \in Earning => \A j \in 1..Len(k.contributions) :
       LET c == k.contributions[j]
       IN /\ c.sequence \in 1..Len(list)
          /\ list[c.sequence].fact[1] = c.instance
          /\ list[c.sequence].outcome = "SUCCEEDED" /\ list[c.sequence].baseIsCurrent
          /\ list[c.sequence].candidate = k.candidate /\ list[c.sequence].band = k.band

\* Nothing since the first contribution spoke against the candidate.
Horizon(k, list) ==
  IF k.disposition = "OBSERVING" THEN Len(list) ELSE k.contributions[Len(k.contributions)].sequence
Quiet(k, b, list) ==
  k.disposition \in Earning =>
    /\ Len(k.contributions) > 0
    /\ \A n \in k.contributions[1].sequence..Horizon(k, list) :
         list[n].base = b => list[n].outcome # "ORIGINAL_RECOVERED" /\ list[n].candidate \in {Blank, k.candidate}

\* A candidate waits exactly for a streak that waits, and carries its hash.
CandidateFits(candidate, k) ==
  /\ k.disposition = "AWAIT_APPROVAL" => candidate.status \in {"AWAITING_APPROVAL", "PROMOTED"}
  /\ candidate.status = "REJECTED" <=> k.disposition = "REJECTED"
  /\ candidate.status \in {"AWAITING_APPROVAL", "PROMOTED"} => k.disposition = "AWAIT_APPROVAL"
  /\ candidate.status # Blank => candidate.hash = k.candidate
  /\ candidate.status = "AWAITING_APPROVAL" => candidate.revision = 1
  /\ candidate.status \in {"PROMOTED", "REJECTED"} => candidate.revision = 2

Follower(versions, b, source) == b < Len(versions) /\ versions[b + 1].source = source
VersionsFit(versions, b, k, candidate) ==
  /\ Follower(versions, b, "auto") <=> k.disposition = "AUTO_PUBLISH"
  /\ k.disposition = "AUTO_PUBLISH" => versions[b + 1] = Version("auto", b, k.candidate)
  /\ Follower(versions, b, "review") <=> candidate.status = "PROMOTED"
  /\ candidate.status = "PROMOTED" => versions[b + 1] = Version("review", b, candidate.hash)

VersionsInOrder(n) ==
  /\ Len(n.versions) >= 1 /\ n.revision = Len(n.versions)
  /\ \A k \in 2..Len(n.versions) : n.versions[k].base = k - 1

BaseSound(t, b) ==
  /\ Readable(t.streaks[b], b)
  /\ Evident(t.streaks[b], t.log)
  /\ Quiet(t.streaks[b], b, t.log)
  /\ validateExistingHealEffect(t.effects[b], t.streaks[b])
  /\ CandidateFits(t.candidates[b], t.streaks[b])
  /\ VersionsFit(t.node.versions, b, t.streaks[b], t.candidates[b])

TablesSound(s, t) ==
  /\ t \in AllTables(s)
  /\ VersionsInOrder(t.node)
  /\ \A b \in BasesOf(s) : BaseSound(t, b)

\* What a commit may do to the tables.
Advances(before, after) ==
  /\ before \in {"AUTO_PUBLISH", "STALE", "REJECTED"} => after = before
  /\ before = "AWAIT_APPROVAL" => after \in {"AWAIT_APPROVAL", "REJECTED"}
Asks(before, after) ==
  \/ after = before
  \/ before.status = Blank /\ after.status = "AWAITING_APPROVAL"
Follows(t, u) ==
  /\ Len(t.log) <= Len(u.log)
  /\ \A b \in DOMAIN t.streaks : Advances(t.streaks[b].disposition, u.streaks[b].disposition)
  /\ \A b \in DOMAIN t.candidates : Asks(t.candidates[b], u.candidates[b])

\* Commits and their answers.
Sents(s) ==
  {NothingSent} \union
  [phase : {"SUCCEEDED", "FAILED"}, facts : Seq(BasedFacts(s)), count : Nat, longest : Nat, total : Nat,
   foreign : BOOLEAN]
CommitsOf(w) == {n \in 1..MaxCommits : <<w, n>> \in DOMAIN replays}
Settled == {"applied", "replayed", "lost", "staleFence"}
WorkerRecords(s) ==
  [n : 0..s.commits, sent : Sents(s), known : Nat,
   answer : Answers \ {"sequenceConflict", "effectConflict", "identityConflict"}]
WorkerHolds(w) ==
  /\ step[w].revision = 1 + Cardinality(CommitsOf(w))
  /\ \A n \in Nat : <<w, n>> \in DOMAIN replays => n <= worker[w].n /\ replays[<<w, n>>].revision \in Nat
  /\ CommitOf(w) \in DOMAIN replays =>
       /\ replays[CommitOf(w)].payload = worker[w].sent
       /\ CommitError(worker[w].sent) = Blank
       /\ worker[w].answer \in Settled
WorkersSound ==
  /\ step \in [Instances -> [revision : Nat, live : BOOLEAN]]
  /\ worker \in [Instances -> WorkerRecords(setting)]
  /\ \A w \in Instances : WorkerHolds(w)

\* Reviewers.
Status(decision) == IF decision = "APPROVE" THEN "PROMOTED" ELSE "REJECTED"
ReviewHolds(k) ==
  /\ k \in DOMAIN DecisionOf /\ shown[k] # 0
  /\ candidates[Reviewed].status = Status(DecisionOf[k])
  /\ validateHealReviewReplay(k, reviews[k])
CallHolds(c) ==
  /\ call[c].pc \in {"node", "streak", "commit"} => call[c].candidate.status = "AWAITING_APPROVAL"
  /\ call[c].pc = "commit" /\ DecisionOf[CommandOf[c]] = "REJECT" =>
       /\ call[c].streak.disposition = "AWAIT_APPROVAL"
       /\ call[c].sequence > call[c].streak.lastSequence /\ call[c].sequence <= Len(log)
  /\ call[c].answer # "contractViolation"
  /\ call[c].answer \in {"applied", "replayed"} => CommandOf[c] \in DOMAIN reviews
CallRecords(s) ==
  [pc : {"idle", "lost", "load", "node", "streak", "commit", "done"}, candidate : CandidateRecords,
   streak : Streaks(s), sequence : Nat, answer : ReviewAnswers]
ReviewersSound ==
  /\ call \in [Calls -> CallRecords(setting)]
  /\ shown \in [DOMAIN DecisionOf -> Nat]
  /\ \A k \in DOMAIN reviews : ReviewHolds(k)
  /\ \A j, k \in DOMAIN reviews : j = k
  /\ candidates[Reviewed].status \in {"PROMOTED", "REJECTED"} => DOMAIN reviews # {}
  /\ \A c \in Calls : CallHolds(c)

GovernanceSound ==
  /\ setting \in Settings
  /\ Len(node.versions) <= MaxVersions
  /\ TablesSound(setting, Tables)
  /\ WorkersSound
  /\ ReviewersSound

-----------------------------------------------------------------------------
(* The facts of a commit, one after the other.                             *)

\* Induction on the natural numbers, with the property as a set.
LEMMA EveryNumber ==
  ASSUME NEW P, 0 \in P, \A n \in Nat : n \in P => n + 1 \in P
  PROVE  \A n \in Nat : n \in P
<1> DEFINE R == OpToRel(<, Nat)
           T == Nat \ P
<1>1. IsWellFoundedOn(R, Nat)
  BY NatLessThanWellFounded
<1>2. \A x, y \in Nat : <<y, x>> \in R <=> y < x
  BY DEF OpToRel
<1> HIDE DEF R
<1>3. SUFFICES ASSUME T # {} PROVE FALSE
  OBVIOUS
<1>4. PICK x \in T : \A y \in T : ~(<<y, x>> \in R)
  BY <1>1, <1>3, WFMin
<1>5. x \in Nat /\ x \notin P /\ x # 0
  BY <1>4
<1>6. PICK y \in Nat : x = y + 1
  <2>1. x = (x - 1) + 1 /\ x - 1 \in Nat
    BY <1>5
  <2> QED
    BY <2>1
<1>7. y \in T
  BY <1>5, <1>6
<1>8. <<y, x>> \in R
  BY <1>2, <1>5, <1>6
<1> QED
  BY <1>4, <1>7, <1>8

\* The tables after each of the first n facts.
InTurn(after, first, w, commit, facts, n) ==
  after = [k \in 0..n |-> IF k = 0 THEN first ELSE Governed(after[k - 1], w, commit, facts[k])]

\* There are such tables, for any number of facts.
LEMMA FactsInTurn ==
  ASSUME NEW first, NEW w, NEW commit, NEW facts
  PROVE  \A n \in Nat : \E after : InTurn(after, first, w, commit, facts, n)
<1> DEFINE Is(after, n) ==
             after = [k \in 0..n |-> IF k = 0 THEN first ELSE Governed(after[k - 1], w, commit, facts[k])]
           P == {n \in Nat : \E after : Is(after, n)}
<1>1. 0 \in P
  <2> DEFINE a == [k \in 0..0 |-> first]
  <2>1. Is(a, 0)
    OBVIOUS
  <2> QED
    BY <2>1
<1>2. ASSUME NEW n \in Nat, n \in P PROVE n + 1 \in P
  <2>1. PICK a : Is(a, n)
    BY <1>2
  <2> DEFINE b == [k \in 0..(n + 1) |-> IF k <= n THEN a[k] ELSE Governed(a[n], w, commit, facts[n + 1])]
  <2>2. ASSUME NEW k \in 0..(n + 1)
        PROVE  b[k] = IF k = 0 THEN first ELSE Governed(b[k - 1], w, commit, facts[k])
    <3>1. CASE k = 0
      BY <3>1, <2>1
    <3>2. CASE k \in 1..n
      <4>1. b[k] = a[k] /\ b[k - 1] = a[k - 1] /\ k # 0
        BY <3>2
      <4>2. a[k] = Governed(a[k - 1], w, commit, facts[k])
        BY <2>1, <3>2
      <4> QED
        BY <4>1, <4>2
    <3>3. CASE k = n + 1
      <4>1. b[k] = Governed(a[n], w, commit, facts[k]) /\ b[k - 1] = a[n] /\ k # 0
        BY <3>3
      <4> QED
        BY <4>1
    <3> QED
      BY <3>1, <3>2, <3>3
  <2>3. Is(b, n + 1)
    BY <2>2
  <2> HIDE DEF b
  <2>4. \E after : Is(after, n + 1)
    BY <2>3
  <2> QED
    BY <2>4
<1>3. \A n \in Nat : n \in P
  <2> HIDE DEF P
  <2> QED
    BY <1>1, <1>2, EveryNumber
<1> QED
  BY <1>3 DEF InTurn

\* The tables of a commit are the last of those.
LEMMA FactsGoverned ==
  ASSUME NEW w, NEW commit, NEW facts, Len(facts) \in Nat
  PROVE  \E after :
    /\ after = [k \in 0..Len(facts) |->
                  IF k = 0 THEN Tables ELSE Governed(after[k - 1], w, commit, facts[k])]
    /\ AfterFacts(w, commit, facts) = after[Len(facts)]
<1> DEFINE Is(after) ==
      after = [k \in 0..Len(facts) |-> IF k = 0 THEN Tables ELSE Governed(after[k - 1], w, commit, facts[k])]
<1>1. \E after : Is(after)
  <2>1. \E after : InTurn(after, Tables, w, commit, facts, Len(facts))
    BY FactsInTurn
  <2> QED
    BY <2>1 DEF InTurn
<1>2. Is(CHOOSE after : Is(after))
  <2> HIDE DEF Is
  <2> QED
    BY <1>1, Zenon
<1>3. AfterFacts(w, commit, facts) = (CHOOSE after : Is(after))[Len(facts)]
  BY DEF AfterFacts
<1> QED
  BY <1>2, <1>3

-----------------------------------------------------------------------------
(* What an observation makes of a streak.                                  *)

\* The contributions of a readable streak are known from what it consumed.
LEMMA Provenance ==
  ASSUME NEW s, NEW k \in Streaks(s), NEW b, Readable(k, b)
  PROVE  consumedProvenance(k) = k.consumed
BY DEF consumedProvenance, Readable

\* A readable streak shows in its disposition whether it observes.
LEMMA Standing ==
  ASSUME NEW s, NEW k \in Streaks(s), NEW b, Readable(k, b), StreakValid(k)
  PROVE  /\ k.disposition = "" => k = EmptyStreak
         /\ k.disposition = "OBSERVING" <=> k.observing
         /\ k.disposition # "" => k.base = b /\ DispositionValid(k) /\ ~Unstarted(k)
<1>1. CASE Unstarted(k)
  BY <1>1 DEF StreakValid, Unstarted, EmptyStreak
<1>2. CASE ~Unstarted(k)
  <2>1. DispositionValid(k)
    BY <1>2 DEF StreakValid
  <2>2. k.disposition # "" /\ (k.disposition = "OBSERVING" <=> k.observing) /\ k.base # NoBase
    BY <2>1 DEF DispositionValid
  <2> QED
    BY <1>2, <2>1, <2>2 DEF Readable
<1> QED
  BY <1>1, <1>2

\* The host's sequences are fresh: an observation is never one that is known.
LEMMA Fresh ==
  ASSUME NEW s, NEW k \in Streaks(s), NEW o \in Observations(s), Readable(k, o.base),
         o.contribution.sequence > k.lastSequence
  PROVE  /\ ObserveError(k, o) # "sequenceConflict"
         /\ ObserveError(k, o) \in PlanErrors \union {Blank}
         /\ StreakValid(k) => Observe(k, o) = Told(k, o)
         /\ ObserveError(k, o) = Blank =>
              /\ StreakValid(k) /\ ObservationValid(o)
              /\ \A j \in 1..Len(k.consumed) :
                   k.consumed[j].sequence < o.contribution.sequence /\ ~Clash(k.consumed[j], o.contribution)
<1> DEFINE c == o.contribution
           p == k.consumed
<1>1. consumedProvenance(k) = p /\ p \in Seq(Contributions(s)) /\ c \in Contributions(s) /\ k.lastSequence \in Nat
  BY Provenance DEF Streaks, Observations
<1>2. StreakValid(k) => \A j \in 1..Len(p) : p[j].sequence < c.sequence
  <2> SUFFICES ASSUME StreakValid(k), NEW j \in 1..Len(p) PROVE p[j].sequence < c.sequence
    OBVIOUS
  <2>1. ContributionsValid(p) /\ p[Len(p)].sequence <= k.lastSequence
    BY <1>1 DEF StreakValid
  <2>2. p[j] \in Contributions(s) /\ p[Len(p)] \in Contributions(s)
    BY <1>1
  <2>3. p[j].sequence \in Nat /\ p[Len(p)].sequence \in Nat /\ c.sequence \in Nat
    BY <1>1, <2>2 DEF Contributions
  <2>4. p[j].sequence <= p[Len(p)].sequence
    <3>1. CASE j = Len(p)
      BY <3>1, <2>3
    <3>2. CASE j < Len(p)
      <4>1. Len(p) \in 1..Len(p)
        BY <1>1
      <4>2. p[j].sequence < p[Len(p)].sequence
        BY <2>1, <3>2, <4>1 DEF ContributionsValid
      <4> QED
        BY <2>3, <4>2
    <3> QED
      BY <1>1, <3>1, <3>2
  <2> QED
    BY <1>1, <2>1, <2>3, <2>4
<1> DEFINE known == {j \in 1..Len(p) : p[j] = c}
           clashing == {j \in 1..Len(p) : p[j] # c /\ Clash(p[j], c)}
<1>3. StreakValid(k) => known = {}
  <2> SUFFICES ASSUME StreakValid(k), NEW j \in 1..Len(p), p[j] = c PROVE FALSE
    OBVIOUS
  <2>1. c.sequence < c.sequence /\ c.sequence \in Nat
    BY <1>1, <1>2 DEF Contributions
  <2> QED
    BY <2>1
<1>4. ObserveError(k, o) =
        IF ~StreakValid(k) THEN "stateInvalid"
        ELSE IF ~ObservationValid(o) THEN "observationInvalid"
        ELSE IF \E j \in clashing : \A m \in known : j < m THEN "provenanceConflict"
        ELSE IF known # {} THEN Blank
        ELSE IF c.sequence <= k.lastSequence THEN "sequenceConflict" ELSE Blank
  BY <1>1 DEF ObserveError
<1> HIDE DEF known, clashing
<1>5. ~(c.sequence <= k.lastSequence)
  BY <1>1 DEF Contributions
<1>6. ObserveError(k, o) =
        IF ~StreakValid(k) THEN "stateInvalid"
        ELSE IF ~ObservationValid(o) THEN "observationInvalid"
        ELSE IF clashing # {} THEN "provenanceConflict" ELSE Blank
  BY <1>3, <1>4, <1>5
<1>7. StreakValid(k) => Observe(k, o) = Told(k, o)
  BY <1>1, <1>3 DEF Observe, known
<1>8. ObserveError(k, o) = Blank => StreakValid(k) /\ ObservationValid(o) /\ clashing = {}
  BY <1>6 DEF Blank
<1>9. StreakValid(k) /\ clashing = {} => \A j \in 1..Len(p) : ~Clash(p[j], c)
  BY <1>3 DEF clashing, known
<1>10. ObserveError(k, o) \in PlanErrors \union {Blank} /\ ObserveError(k, o) # "sequenceConflict"
  BY <1>6 DEF Blank, PlanErrors
<1> QED
  BY <1>2, <1>7, <1>8, <1>9, <1>10

\* What is said of every contribution of a list stays true with one more.
LEMMA OneMore ==
  ASSUME NEW s, NEW p \in Seq(Contributions(s)), NEW c \in Contributions(s), ContributionsValid(p),
         \A j \in 1..Len(p) : p[j].sequence < c.sequence /\ ~Clash(p[j], c)
  PROVE  ContributionsValid(Append(p, c))
<1> DEFINE q == Append(p, c)
<1>1. Len(q) = Len(p) + 1 /\ q[Len(p) + 1] = c /\ \A j \in 1..Len(p) : q[j] = p[j]
  OBVIOUS
<1> HIDE DEF q
<1> SUFFICES ASSUME NEW j \in 1..Len(q), NEW m \in 1..Len(q), j < m
             PROVE  q[j].sequence < q[m].sequence /\ ~Clash(q[j], q[m])
  BY DEF ContributionsValid, q
<1>2. j \in 1..Len(p) /\ q[j] = p[j]
  BY <1>1
<1>3. CASE m = Len(p) + 1
  BY <1>1, <1>2, <1>3
<1>4. CASE m \in 1..Len(p)
  BY <1>1, <1>2, <1>4 DEF ContributionsValid
<1> QED
  BY <1>1, <1>3, <1>4

\* What an observation does, by the standing of the streak.
LEMMA ToldKinds ==
  ASSUME NEW s, NEW k \in Streaks(s), NEW o \in Observations(s), Readable(k, o.base), StreakValid(k),
         ObservationValid(o)
  PROVE
    \/ /\ Told(k, o) = withObservation(k, o.contribution)
       /\ k.disposition = "OBSERVING" => o.outcome # "ORIGINAL_RECOVERED" /\ o.candidate = Blank
    \/ /\ Told(k, o) = newHealStreak(o) /\ k.disposition \in {"", "OBSERVING", "RESET"}
       /\ Opens(o) /\ o.candidate # Blank
    \/ Told(k, o) = newHealTerminal(o, "RESET") /\ k.disposition \in {"", "OBSERVING"}
    \/ Told(k, o) = newHealTerminal(o, "STALE") /\ k.disposition = ""
    \/ /\ Told(k, o) = withDisposition(withObservation(k, o.contribution), "STALE")
       /\ k.disposition = "OBSERVING"
    \/ /\ Told(k, o) = Agreed(k, o.contribution) /\ k.disposition = "OBSERVING"
       /\ Opens(o) /\ matches(k, o)
<1>1. /\ k.disposition = "OBSERVING" <=> k.observing
      /\ k.disposition # "" => k.base = o.base
      /\ k.disposition = "" => ~k.observing
  BY Standing
<1>2. o.outcome \in Outcomes /\ k.disposition \in Dispositions
  BY DEF Observations, Streaks
<1>3. /\ o.outcome = "FAILED" \/ o.band = "UNKNOWN" => o.candidate = Blank
      /\ Opens(o) => o.candidate # Blank
  BY <1>2 DEF ObservationValid, ValidateHealDecisionBand, Opens, Outcomes
<1>4. CASE k.disposition \in {"AUTO_PUBLISH", "AWAIT_APPROVAL"}
  BY <1>4 DEF Told
<1>5. CASE k.disposition \in {"STALE", "REJECTED"}
  BY <1>1, <1>5 DEF Told
<1>6. CASE k.disposition = "RESET"
  BY <1>3, <1>6 DEF Told
<1>7. CASE k.disposition = "OBSERVING"
  <2>1. Told(k, o) = Advanced(k, o) /\ k.observing /\ k.base = o.base
    BY <1>1, <1>7 DEF Told
  <2> QED
    BY <2>1, <1>2, <1>3, <1>7 DEF Advanced, Opens, Outcomes
<1>8. CASE k.disposition = ""
  <2>1. Told(k, o) = Advanced(k, o) /\ ~k.observing
    BY <1>1, <1>8 DEF Told
  <2> QED
    BY <2>1, <1>2, <1>3, <1>8 DEF Advanced, Opens, Outcomes
<1> QED
  BY <1>2, <1>4, <1>5, <1>6, <1>7, <1>8 DEF Dispositions

Kept(s, k, b, list) ==
  k \in Streaks(s) /\ Readable(k, b) /\ Evident(k, list) /\ Quiet(k, b, list)

\* The streak k of a base is told o, which the host accepts as the entry e of the log.
Accepts(s, k, o, list, e) ==
  /\ o \in Observations(s) /\ list \in Seq(Entries(s)) /\ e \in Entries(s)
  /\ Kept(s, k, o.base, list)
  /\ o.contribution.sequence = Len(list) + 1 /\ o.contribution.fact[1] = o.contribution.instance
  /\ e.fact = o.contribution.fact /\ e.base = o.base /\ e.outcome = o.outcome
  /\ e.candidate = o.candidate /\ e.band = o.band /\ e.baseIsCurrent = o.baseIsCurrent
  /\ ObserveError(k, o) = Blank

\* A longer log says the same of a streak, if its last entry is quiet.
LEMMA LongerLog ==
  ASSUME NEW s, NEW list \in Seq(Entries(s)), NEW e \in Entries(s), NEW k, NEW b, Kept(s, k, b, list),
         k.disposition = "OBSERVING" /\ e.base = b =>
           e.outcome # "ORIGINAL_RECOVERED" /\ e.candidate \in {Blank, k.candidate}
  PROVE  Kept(s, k, b, Append(list, e))
<1> DEFINE more == Append(list, e)
<1>1. Len(more) = Len(list) + 1 /\ more[Len(list) + 1] = e /\ \A n \in 1..Len(list) : more[n] = list[n]
  OBVIOUS
<1>2. Len(list) \in Nat
  OBVIOUS
<1> HIDE DEF more
<1>3. k \in Streaks(s) /\ Readable(k, b) /\ Evident(k, list) /\ Quiet(k, b, list)
  BY DEF Kept
<1>4. k.lastSequence \in Nat /\ k.contributions \in Seq(Contributions(s))
  BY <1>3 DEF Streaks
<1>5. Evident(k, more)
  BY <1>1, <1>2, <1>3, <1>4 DEF Evident
<1>6. Quiet(k, b, more)
  <2> SUFFICES ASSUME k.disposition \in Earning,
                      NEW n \in k.contributions[1].sequence..Horizon(k, more), more[n].base = b
               PROVE  more[n].outcome # "ORIGINAL_RECOVERED" /\ more[n].candidate \in {Blank, k.candidate}
    BY <1>3 DEF Quiet
  <2>1. Len(k.contributions) > 0 /\ Len(k.contributions) \in Nat
    BY <1>3, <1>4 DEF Quiet
  <2>2. k.contributions[1].sequence \in 1..Len(list) /\ k.contributions[Len(k.contributions)].sequence \in 1..Len(list)
    BY <1>3, <2>1 DEF Evident
  <2>3. CASE n \in 1..Len(list)
    <3>1. n \in k.contributions[1].sequence..Horizon(k, list)
      BY <1>1, <1>2, <2>2, <2>3 DEF Horizon
    <3> QED
      BY <1>1, <1>3, <2>3, <3>1 DEF Quiet
  <2>4. CASE n \notin 1..Len(list)
    <3>1. k.disposition = "OBSERVING" /\ n = Len(list) + 1
      BY <1>1, <1>2, <2>2, <2>4 DEF Horizon
    <3> QED
      BY <1>1, <3>1
  <2> QED
    BY <2>3, <2>4
<1> QED
  BY <1>3, <1>5, <1>6 DEF Kept, more

\* A streak that only consumes what it is told.
LEMMA ObservedKept ==
  ASSUME NEW s, NEW k, NEW o, NEW list, NEW e, Accepts(s, k, o, list, e),
         k.disposition = "OBSERVING" => o.outcome # "ORIGINAL_RECOVERED" /\ o.candidate = Blank
  PROVE  /\ Kept(s, withObservation(k, o.contribution), o.base, Append(list, e))
         /\ StreakValid(withObservation(k, o.contribution)) \/ Unstarted(k)
<1> DEFINE c == o.contribution
           T == withObservation(k, c)
           b == o.base
<1> USE DEF Accepts
<1>1. k \in Streaks(s) /\ Readable(k, b) /\ Kept(s, k, b, Append(list, e))
  BY LongerLog DEF Kept
<1>2. c \in Contributions(s) /\ c.sequence \in Nat /\ c.sequence > 0 /\ Len(list) \in Nat
  BY DEF Observations, Contributions
<1>3. k.lastSequence \in Nat /\ k.lastSequence <= Len(list) /\ k.consumed \in Seq(Contributions(s))
      /\ k.contributions \in Seq(Contributions(s))
  BY DEF Kept, Evident, Streaks
<1>4. /\ StreakValid(k)
      /\ \A j \in 1..Len(k.consumed) : k.consumed[j].sequence < c.sequence /\ ~Clash(k.consumed[j], c)
  BY <1>1, <1>2, <1>3, Fresh
<1>5. T = [k EXCEPT !.consumed = Append(k.consumed, c), !.lastSequence = c.sequence]
  BY <1>1, Provenance DEF withObservation
<1>6. /\ T \in Streaks(s)
      /\ T.base = k.base /\ T.candidate = k.candidate /\ T.band = k.band
      /\ T.contributions = k.contributions /\ T.consumed = Append(k.consumed, c)
      /\ T.lastSequence = c.sequence /\ T.observing = k.observing /\ T.disposition = k.disposition
  <2> DEFINE q == Append(k.consumed, c)
  <2>1. q \in Seq(Contributions(s))
    BY <1>2, <1>3
  <2>2. T = [k EXCEPT !.consumed = q, !.lastSequence = c.sequence]
    BY <1>5
  <2> HIDE DEF q, T
  <2>3. T \in Streaks(s)
    BY <1>1, <1>2, <2>1, <2>2 DEF Streaks
  <2>4. /\ T.base = k.base /\ T.candidate = k.candidate /\ T.band = k.band
        /\ T.contributions = k.contributions /\ T.consumed = q
        /\ T.lastSequence = c.sequence /\ T.observing = k.observing /\ T.disposition = k.disposition
    BY <1>1, <2>2 DEF Streaks
  <2> QED
    BY <2>3, <2>4 DEF q
<1> HIDE DEF T
<1>7. ContributionsValid(T.consumed)
  <2>1. ContributionsValid(k.consumed)
    BY <1>1, <1>4, Provenance DEF StreakValid
  <2> QED
    BY <1>2, <1>3, <1>4, <1>6, <2>1, OneMore
<1>8. consumedProvenance(T) = T.consumed /\ T.consumed # <<>> /\ Len(T.consumed) \in Nat
      /\ T.consumed[Len(T.consumed)] = c
  <2> DEFINE q == Append(k.consumed, c)
  <2>1. q # <<>> /\ Len(q) \in Nat /\ q[Len(q)] = c
    BY <1>2, <1>3
  <2> HIDE DEF q
  <2>2. T.consumed = q
    BY <1>6 DEF q
  <2> QED
    BY <2>1, <2>2 DEF consumedProvenance
<1>9. ~Unstarted(k) => DispositionValid(k)
  BY <1>4 DEF StreakValid
<1>10. ~Unstarted(k) => StreakValid(T)
  <2> SUFFICES ASSUME ~Unstarted(k) PROVE StreakValid(T)
    OBVIOUS
  <2>1. DispositionValid(T)
    BY <1>2, <1>6, <1>9 DEF DispositionValid
  <2>2. ~Unstarted(T)
    BY <1>6 DEF Unstarted
  <2> QED
    BY <1>2, <1>6, <1>7, <1>8, <2>1, <2>2 DEF StreakValid
<1>11. Readable(T, b)
  <2>1. Unstarted(T) \/ StreakValid(T)
    BY <1>6, <1>10 DEF Unstarted
  <2>2. \A j \in 1..Len(T.contributions) : \E m \in 1..Len(T.consumed) : T.consumed[m] = T.contributions[j]
    <3> SUFFICES ASSUME NEW j \in 1..Len(k.contributions)
                 PROVE  \E m \in 1..Len(T.consumed) : T.consumed[m] = k.contributions[j]
      BY <1>6
    <3>1. PICK m \in 1..Len(k.consumed) : k.consumed[m] = k.contributions[j]
      BY <1>1 DEF Readable
    <3>2. m \in 1..Len(T.consumed) /\ T.consumed[m] = k.consumed[m]
      BY <1>3, <1>6
    <3> QED
      BY <3>1, <3>2
  <2> QED
    BY <1>1, <1>6, <1>8, <2>1, <2>2 DEF Readable
<1>12. Evident(T, Append(list, e)) /\ Quiet(T, b, Append(list, e))
  <2>1. Len(Append(list, e)) = Len(list) + 1
    OBVIOUS
  <2>2. Evident(k, Append(list, e)) /\ Quiet(k, b, Append(list, e))
    BY <1>1 DEF Kept
  <2> QED
    BY <1>6, <2>1, <2>2 DEF Evident, Quiet, Horizon
<1> QED
  BY <1>6, <1>10, <1>11, <1>12 DEF Kept, T

\* The entry of the log that the observation became.
LEMMA AcceptedLast ==
  ASSUME NEW s, NEW k, NEW o, NEW list, NEW e, Accepts(s, k, o, list, e)
  PROVE  /\ Len(list) \in Nat /\ Len(Append(list, e)) = Len(list) + 1
         /\ Append(list, e)[Len(list) + 1] = e
         /\ o.contribution \in Contributions(s) /\ o.contribution.sequence = Len(list) + 1
         /\ o.base \in Nat /\ o.base # NoBase
         /\ StreakValid(k) /\ ObservationValid(o)
<1> USE DEF Accepts
<1>1. o.contribution \in Contributions(s) /\ o.base \in BasesOf(s) /\ list \in Seq(Entries(s))
  BY DEF Observations
<1>2. k \in Streaks(s) /\ Readable(k, o.base) /\ k.lastSequence <= Len(list)
  BY DEF Kept, Evident
<1>3. o.contribution.sequence > k.lastSequence
  BY <1>1, <1>2 DEF Streaks
<1>4. StreakValid(k) /\ ObservationValid(o)
  BY <1>2, <1>3, Fresh
<1> QED
  BY <1>1, <1>4 DEF BasesOf, NoBase

\* A streak that opens counts the success that opened it.
LEMMA OpenedKept ==
  ASSUME NEW s, NEW k, NEW o, NEW list, NEW e, Accepts(s, k, o, list, e), Opens(o), o.candidate # Blank
  PROVE  Kept(s, newHealStreak(o), o.base, Append(list, e))
<1> DEFINE c == o.contribution
           T == newHealStreak(o)
           more == Append(list, e)
<1>1. /\ c \in Contributions(s) /\ o.base \in Nat /\ o.base # NoBase
      /\ Len(list) \in Nat /\ Len(more) = Len(list) + 1 /\ more[Len(list) + 1] = e
      /\ c.sequence = Len(list) + 1
  BY AcceptedLast
<1>2. /\ o.band \in {"APPLIED", "BELOW_CAP"} /\ o.candidate \in Named /\ o.candidate # Blank
      /\ o.outcome = "SUCCEEDED" /\ o.baseIsCurrent
  BY DEF Accepts, Observations, Opens, Bands
<1> HIDE DEF more
<1> DEFINE one == <<c>>
<1>3. one \in Seq(Contributions(s)) /\ Len(one) = 1 /\ one[1] = c /\ one # <<>>
  BY <1>1
<1>4. ContributionsValid(one)
  BY <1>3 DEF ContributionsValid
<1>5. T = [base |-> o.base, candidate |-> o.candidate, band |-> o.band, contributions |-> one,
           consumed |-> one, lastSequence |-> c.sequence, observing |-> TRUE, disposition |-> "OBSERVING"]
  BY DEF newHealStreak
<1> HIDE DEF one
<1>6. /\ T.base = o.base /\ T.candidate = o.candidate /\ T.band = o.band /\ T.contributions = one
      /\ T.consumed = one /\ T.lastSequence = Len(list) + 1 /\ T.observing = TRUE /\ T.disposition = "OBSERVING"
  BY <1>1, <1>5
<1>7. T \in Streaks(s)
  BY <1>1, <1>2, <1>3, <1>5 DEF Streaks, Bands, Dispositions
<1> HIDE DEF T
<1>8. StreakValid(T)
  <2>1. consumedProvenance(T) = one
    BY <1>3, <1>6 DEF consumedProvenance
  <2>2. T.base # NoBase /\ T.candidate # Blank
    BY <1>1, <1>2, <1>6
  <2>3. T.band \in {"APPLIED", "BELOW_CAP"} /\ T.lastSequence # 0
    BY <1>1, <1>2, <1>6
  <2>4. ContributionsValid(T.contributions) /\ Len(T.contributions) = 1
    BY <1>3, <1>4, <1>6
  <2>5. DispositionValid(T)
    BY <1>6, <2>2, <2>3, <2>4 DEF DispositionValid, Required
  <2>6. ~Unstarted(T)
    BY <1>6 DEF Unstarted
  <2>7. one[Len(one)].sequence <= T.lastSequence
    BY <1>1, <1>3, <1>6
  <2> QED
    BY <1>4, <2>1, <2>5, <2>6, <2>7 DEF StreakValid
<1>9. Readable(T, o.base)
  BY <1>3, <1>6, <1>8 DEF Readable
<1>10. e.fact[1] = c.instance /\ e.outcome = "SUCCEEDED" /\ e.baseIsCurrent /\ e.candidate = o.candidate /\ e.band = o.band
  BY <1>2 DEF Accepts
<1>11. Evident(T, more)
  <2> SUFFICES ASSUME NEW j \in 1..Len(T.contributions)
               PROVE  /\ T.contributions[j].sequence = Len(list) + 1
                      /\ T.contributions[j].instance = c.instance
    BY <1>1, <1>6, <1>10 DEF Evident
  <2>1. Len(T.contributions) = 1
    BY <1>3, <1>6
  <2>2. j = 1
    BY <2>1
  <2> QED
    BY <1>1, <1>3, <1>6, <2>2
<1>12. Quiet(T, o.base, more)
  BY <1>1, <1>3, <1>6, <1>10 DEF Quiet, Horizon
<1> QED
  BY <1>7, <1>9, <1>11, <1>12 DEF Kept, T, more

\* A streak that ends with what it was told counts nothing.
LEMMA EndedKept ==
  ASSUME NEW s, NEW k, NEW o, NEW list, NEW e, Accepts(s, k, o, list, e), NEW d \in {"RESET", "STALE"}
  PROVE  Kept(s, newHealTerminal(o, d), o.base, Append(list, e))
<1> DEFINE c == o.contribution
           T == newHealTerminal(o, d)
           more == Append(list, e)
           one == <<c>>
<1>1. /\ c \in Contributions(s) /\ o.base \in Nat /\ o.base # NoBase
      /\ Len(list) \in Nat /\ Len(more) = Len(list) + 1 /\ more[Len(list) + 1] = e
      /\ c.sequence = Len(list) + 1
  BY AcceptedLast
<1> HIDE DEF more
<1>3. one \in Seq(Contributions(s)) /\ Len(one) = 1 /\ one[1] = c /\ one # <<>>
  BY <1>1
<1>4. ContributionsValid(one)
  BY <1>3 DEF ContributionsValid
<1>5. T = [EmptyStreak EXCEPT !.base = o.base, !.lastSequence = c.sequence, !.disposition = d, !.consumed = one]
  BY DEF newHealTerminal
<1> HIDE DEF one, T
<1>2. EmptyStreak \in Streaks(s)
  BY DEF Streaks, Dispositions, Named, EmptyStreak, NoBase
<1>6. /\ T.base = o.base /\ T.contributions = EmptyStreak.contributions
      /\ T.consumed = one /\ T.lastSequence = Len(list) + 1 /\ T.observing = EmptyStreak.observing /\ T.disposition = d
  BY <1>1, <1>2, <1>5 DEF Streaks
<1>20. EmptyStreak.contributions = <<>> /\ EmptyStreak.observing = FALSE
  BY DEF EmptyStreak
<1>7. T \in Streaks(s)
  <2>0. d \in Dispositions
    BY DEF Dispositions
  <2>1. o.base \in Nat /\ c.sequence \in Nat
    BY <1>1
  <2> QED
    BY <1>2, <1>3, <1>5, <2>0, <2>1 DEF Streaks
<1>8. StreakValid(T)
  <2>1. consumedProvenance(T) = one
    BY <1>3, <1>6 DEF consumedProvenance
  <2>2. T.base # NoBase /\ T.lastSequence # 0 /\ T.observing = FALSE
    BY <1>1, <1>6, <1>20
  <2>3. DispositionValid(T)
    BY <1>6, <2>2 DEF DispositionValid
  <2>4. ~Unstarted(T)
    BY <1>6 DEF Unstarted
  <2>5. one[Len(one)].sequence <= T.lastSequence
    BY <1>1, <1>3, <1>6
  <2> QED
    BY <1>4, <2>1, <2>3, <2>4, <2>5 DEF StreakValid
<1>9. Readable(T, o.base)
  BY <1>3, <1>6, <1>8, <1>20 DEF Readable
<1>10. Evident(T, more) /\ Quiet(T, o.base, more)
  BY <1>1, <1>6, <1>20 DEF Evident, Quiet, Earning
<1> QED
  BY <1>7, <1>9, <1>10 DEF Kept, T, more

\* A base that is not current any more ends the streak, which keeps what it counted.
LEMMA StaleKept ==
  ASSUME NEW s, NEW k, NEW o, NEW list, NEW e, Accepts(s, k, o, list, e), k.disposition = "OBSERVING"
  PROVE  Kept(s, withDisposition(withObservation(k, o.contribution), "STALE"), o.base, Append(list, e))
<1> DEFINE c == o.contribution
           T == withDisposition(withObservation(k, c), "STALE")
           more == Append(list, e)
           q == Append(k.consumed, c)
<1>1. /\ c \in Contributions(s) /\ o.base \in Nat /\ o.base # NoBase
      /\ Len(list) \in Nat /\ Len(more) = Len(list) + 1 /\ more[Len(list) + 1] = e
      /\ c.sequence = Len(list) + 1 /\ StreakValid(k)
  BY AcceptedLast
<1> HIDE DEF more
<1>2. k \in Streaks(s) /\ Readable(k, o.base) /\ k.consumed \in Seq(Contributions(s))
      /\ k.lastSequence \in Nat /\ k.lastSequence <= Len(list)
  BY DEF Accepts, Kept, Streaks, Evident
<1>3. \A j \in 1..Len(k.consumed) : k.consumed[j].sequence < c.sequence /\ ~Clash(k.consumed[j], c)
  <2>1. o \in Observations(s) /\ ObserveError(k, o) = Blank
    BY DEF Accepts
  <2>2. o.contribution.sequence > k.lastSequence
    BY <1>1, <1>2
  <2> QED
    BY <1>2, <2>1, <2>2, Fresh
<1>4. consumedProvenance(k) = k.consumed /\ ContributionsValid(k.consumed)
  BY <1>1, <1>2, Provenance DEF StreakValid
<1>5. ContributionsValid(q) /\ q \in Seq(Contributions(s))
  BY <1>1, <1>2, <1>3, <1>4, OneMore
<1>6. q # <<>> /\ Len(q) = Len(k.consumed) + 1 /\ q[Len(q)] = c /\ \A j \in 1..Len(k.consumed) : q[j] = k.consumed[j]
  BY <1>1, <1>2
<1>7. T = [k EXCEPT !.consumed = q, !.lastSequence = c.sequence, !.observing = FALSE, !.disposition = "STALE"]
  BY <1>2, <1>4 DEF withObservation, withDisposition, Streaks
<1> HIDE DEF q, T
<1>8. T \in Streaks(s)
  <2>1. c.sequence \in Nat /\ "STALE" \in Dispositions
    BY <1>1 DEF Dispositions
  <2>2. [k EXCEPT !.consumed = q, !.lastSequence = c.sequence] \in Streaks(s)
    BY <1>2, <1>5, <2>1 DEF Streaks
  <2>3. [[k EXCEPT !.consumed = q, !.lastSequence = c.sequence]
          EXCEPT !.observing = FALSE, !.disposition = "STALE"] \in Streaks(s)
    BY <2>1, <2>2 DEF Streaks
  <2> QED
    BY <1>7, <2>3
<1>9. /\ T.base = k.base /\ T.contributions = k.contributions
      /\ T.consumed = q /\ T.lastSequence = Len(list) + 1 /\ T.observing = FALSE /\ T.disposition = "STALE"
  BY <1>1, <1>2, <1>7 DEF Streaks
<1>10. k.base = o.base
  BY <1>1, <1>2, Standing
<1>11. StreakValid(T)
  <2>1. consumedProvenance(T) = q
    BY <1>6, <1>9 DEF consumedProvenance
  <2>2. DispositionValid(T)
    BY <1>1, <1>9, <1>10 DEF DispositionValid
  <2> QED
    BY <1>1, <1>5, <1>6, <1>9, <2>1, <2>2 DEF StreakValid, Unstarted
<1>12. Readable(T, o.base)
  <2>1. \A j \in 1..Len(k.contributions) : \E m \in 1..Len(q) : q[m] = k.contributions[j]
    BY <1>2, <1>6 DEF Readable
  <2> QED
    BY <1>6, <1>9, <1>10, <1>11, <2>1 DEF Readable
<1>13. Evident(T, more) /\ Quiet(T, o.base, more)
  BY <1>1, <1>9 DEF Evident, Quiet, Earning
<1> QED
  BY <1>8, <1>12, <1>13 DEF Kept, T, more

\* A success that agrees is counted; the third one decides.
LEMMA AgreedFields ==
  ASSUME NEW s, NEW k \in Streaks(s), NEW c \in Contributions(s), NEW b, Readable(k, b)
  PROVE  /\ Agreed(k, c) \in Streaks(s)
         /\ Agreed(k, c).base = k.base /\ Agreed(k, c).candidate = k.candidate /\ Agreed(k, c).band = k.band
         /\ Agreed(k, c).contributions = Append(k.contributions, c)
         /\ Agreed(k, c).consumed = Append(k.consumed, c)
         /\ Agreed(k, c).lastSequence = c.sequence
         /\ Len(k.contributions) + 1 < Required =>
              Agreed(k, c).observing = k.observing /\ Agreed(k, c).disposition = k.disposition
         /\ ~(Len(k.contributions) + 1 < Required) =>
              /\ Agreed(k, c).observing = FALSE
              /\ Agreed(k, c).disposition = IF k.band = "APPLIED" THEN "AUTO_PUBLISH" ELSE "AWAIT_APPROVAL"
         /\ Agreed(k, c).disposition \in {k.disposition, "AUTO_PUBLISH", "AWAIT_APPROVAL"}
<1> DEFINE p == Append(k.contributions, c)
           q == Append(k.consumed, c)
           R == [withObservation(k, c) EXCEPT !.contributions = p]
           d == IF k.band = "APPLIED" THEN "AUTO_PUBLISH" ELSE "AWAIT_APPROVAL"
<1>1. /\ k.contributions \in Seq(Contributions(s)) /\ k.consumed \in Seq(Contributions(s))
      /\ c.sequence \in Nat
  BY DEF Streaks, Contributions
<1>2. p \in Seq(Contributions(s)) /\ q \in Seq(Contributions(s)) /\ Len(p) = Len(k.contributions) + 1 /\ Len(p) \in Nat
  BY <1>1
<1>3. R = [k EXCEPT !.consumed = q, !.lastSequence = c.sequence, !.contributions = p]
  BY Provenance DEF withObservation
<1>4. d \in Dispositions
  BY DEF Dispositions
<1> HIDE DEF q, R, p, d
<1>5. R \in Streaks(s)
  BY <1>1, <1>2, <1>3 DEF Streaks
<1>6. /\ R.base = k.base /\ R.candidate = k.candidate /\ R.band = k.band /\ R.contributions = p
      /\ R.consumed = q /\ R.lastSequence = c.sequence /\ R.observing = k.observing
      /\ R.disposition = k.disposition
  BY <1>3 DEF Streaks
<1> DEFINE D == [R EXCEPT !.observing = FALSE, !.disposition = d]
<1>7. Agreed(k, c) = IF Len(p) < Required THEN R ELSE D
  <2>1. Agreed(k, c) = Matured(R)
    BY DEF Agreed, R, p
  <2>2. Len(R.contributions) = Len(p) /\ R.band = k.band
    BY <1>6
  <2> QED
    BY <2>1, <2>2 DEF Matured, withDisposition, d
<1>8. D \in Streaks(s)
  BY <1>4, <1>5 DEF Streaks
<1>9. /\ D.base = R.base /\ D.candidate = R.candidate /\ D.band = R.band /\ D.contributions = R.contributions
      /\ D.consumed = R.consumed /\ D.lastSequence = R.lastSequence /\ D.observing = FALSE
      /\ D.disposition = d
  BY <1>5 DEF Streaks
<1> HIDE DEF D
<1>10. CASE ~(Len(k.contributions) + 1 < Required)
  <2>1. Agreed(k, c) = D
    BY <1>2, <1>7, <1>10
  <2> QED
    BY <2>1, <1>6, <1>8, <1>9, <1>10 DEF p, q, d
<1>11. CASE Len(k.contributions) + 1 < Required
  <2>1. Agreed(k, c) = R
    BY <1>2, <1>7, <1>11
  <2> QED
    BY <2>1, <1>5, <1>6, <1>11 DEF p, q
<1> QED
  BY <1>10, <1>11

\* What a streak holds, it holds after a success that agrees.
LEMMA AgreedKept ==
  ASSUME NEW s, NEW k, NEW o, NEW list, NEW e, Accepts(s, k, o, list, e), k.disposition = "OBSERVING",
         Opens(o), matches(k, o)
  PROVE  Kept(s, Agreed(k, o.contribution), o.base, Append(list, e))
<1> DEFINE c == o.contribution
           b == o.base
           T == Agreed(k, c)
           more == Append(list, e)
           p == Append(k.contributions, c)
           q == Append(k.consumed, c)
           three == ~(Len(k.contributions) + 1 < Required)
<1>1. /\ c \in Contributions(s) /\ c.sequence \in Nat /\ b \in Nat /\ b # NoBase
      /\ Len(list) \in Nat /\ Len(more) = Len(list) + 1 /\ more[Len(list) + 1] = e
      /\ c.sequence = Len(list) + 1 /\ StreakValid(k)
  BY AcceptedLast DEF Contributions
<1>2. /\ k \in Streaks(s) /\ Readable(k, b) /\ k.consumed \in Seq(Contributions(s))
      /\ k.contributions \in Seq(Contributions(s))
      /\ k.lastSequence \in Nat /\ k.lastSequence <= Len(list)
  BY DEF Accepts, Kept, Streaks, Evident
<1>3. \A j \in 1..Len(k.consumed) : k.consumed[j].sequence < c.sequence /\ ~Clash(k.consumed[j], c)
  <2>1. o \in Observations(s) /\ ObserveError(k, o) = Blank
    BY DEF Accepts
  <2>2. o.contribution.sequence > k.lastSequence
    BY <1>1, <1>2
  <2> QED
    BY <1>2, <2>1, <2>2, Fresh
<1>4. /\ consumedProvenance(k) = k.consumed /\ ContributionsValid(k.consumed)
      /\ DispositionValid(k) /\ k.observing /\ k.base = b
  BY <1>1, <1>2, Provenance, Standing DEF StreakValid
<1>5. /\ k.candidate # Blank /\ k.band \in {"APPLIED", "BELOW_CAP"} /\ ContributionsValid(k.contributions)
      /\ Len(k.contributions) < Required /\ Len(k.contributions) \in Nat
  BY <1>2, <1>4 DEF DispositionValid
<1>6. ContributionsValid(q) /\ q \in Seq(Contributions(s))
  <2>1. ContributionsValid(q)
    BY <1>1, <1>2, <1>3, <1>4, OneMore
  <2>2. q \in Seq(Contributions(s))
    BY <1>1, <1>2
  <2> QED
    BY <2>1, <2>2
<1>7. ContributionsValid(p) /\ p \in Seq(Contributions(s))
  <2>1. \A j \in 1..Len(k.contributions) :
          k.contributions[j].sequence < c.sequence /\ ~Clash(k.contributions[j], c)
    BY <1>2, <1>3 DEF Readable
  <2> QED
    BY <1>1, <1>2, <1>5, <2>1, OneMore
<1>8. /\ q # <<>> /\ Len(q) = Len(k.consumed) + 1 /\ q[Len(q)] = c
      /\ \A j \in 1..Len(k.consumed) : q[j] = k.consumed[j]
  BY <1>1, <1>2
<1>9. /\ p # <<>> /\ Len(p) = Len(k.contributions) + 1 /\ p[Len(p)] = c
      /\ \A j \in 1..Len(k.contributions) : p[j] = k.contributions[j]
  BY <1>1, <1>2
<1>10. /\ T \in Streaks(s)
       /\ T.base = b /\ T.candidate = k.candidate /\ T.band = k.band
       /\ T.contributions = p /\ T.consumed = q /\ T.lastSequence = Len(list) + 1
       /\ ~three => T.observing = k.observing /\ T.disposition = "OBSERVING"
       /\ three => /\ T.observing = FALSE
                   /\ T.disposition = IF k.band = "APPLIED" THEN "AUTO_PUBLISH" ELSE "AWAIT_APPROVAL"
  <2>1. /\ T \in Streaks(s)
        /\ T.base = k.base /\ T.candidate = k.candidate /\ T.band = k.band
        /\ T.contributions = p /\ T.consumed = q /\ T.lastSequence = c.sequence
        /\ ~three => T.observing = k.observing /\ T.disposition = k.disposition
        /\ three => /\ T.observing = FALSE
                    /\ T.disposition = IF k.band = "APPLIED" THEN "AUTO_PUBLISH" ELSE "AWAIT_APPROVAL"
    BY <1>1, <1>2, AgreedFields
  <2> HIDE DEF T, p, q, three
  <2> QED
    BY <1>1, <1>4, <2>1
<1>11. Kept(s, k, b, more)
  <2>1. e.outcome # "ORIGINAL_RECOVERED" /\ e.candidate = k.candidate
    BY DEF Accepts, Opens, matches
  <2> QED
    BY <2>1, LongerLog DEF Accepts
<1> HIDE DEF p, q, T, more
<1>12. consumedProvenance(T) = q /\ T.contributions # <<>> /\ Len(T.contributions) = Len(k.contributions) + 1
  <2>1. consumedProvenance(T) = q
    BY <1>8, <1>10 DEF consumedProvenance
  <2>2. T.contributions # <<>>
    BY <1>9, <1>10
  <2>3. Len(T.contributions) = Len(p)
    BY <1>10
  <2> QED
    BY <1>9, <2>1, <2>2, <2>3
<1>13. StreakValid(T)
  <2>1. T.base # NoBase /\ T.candidate # Blank /\ T.band \in {"APPLIED", "BELOW_CAP"}
    BY <1>1, <1>5, <1>10
  <2>2. T.lastSequence # 0 /\ ContributionsValid(T.contributions)
    BY <1>1, <1>7, <1>10
  <2>3. DispositionValid(T)
    <3>1. CASE three
      <4>1. Len(T.contributions) = Required
        BY <1>5, <1>12, <3>1 DEF Required
      <4>2. T.observing = FALSE
        BY <1>10, <3>1
      <4>3. T.disposition = IF T.band = "APPLIED" THEN "AUTO_PUBLISH" ELSE "AWAIT_APPROVAL"
        BY <1>10, <3>1
      <4> QED
        BY <2>1, <2>2, <4>1, <4>2, <4>3 DEF DispositionValid
    <3>2. CASE ~three
      <4>1. Len(T.contributions) < Required
        BY <1>5, <1>12, <3>2 DEF Required
      <4>2. T.observing /\ T.disposition = "OBSERVING"
        BY <1>4, <1>10, <3>2
      <4> QED
        BY <2>1, <2>2, <4>1, <4>2 DEF DispositionValid
    <3> QED
      BY <3>1, <3>2
  <2>4. ~Unstarted(T)
    BY <1>12 DEF Unstarted
  <2>5. q[Len(q)].sequence <= T.lastSequence
    BY <1>1, <1>8, <1>10
  <2> QED
    BY <1>6, <1>12, <2>3, <2>4, <2>5 DEF StreakValid
<1>14. Readable(T, b)
  <2>1. \A j \in 1..Len(p) : \E m \in 1..Len(q) : q[m] = p[j]
    <3> SUFFICES ASSUME NEW j \in 1..Len(p) PROVE \E m \in 1..Len(q) : q[m] = p[j]
      OBVIOUS
    <3>1. CASE j = Len(p)
      <4>1. Len(q) \in 1..Len(q)
        BY <1>2, <1>8
      <4> QED
        BY <1>8, <1>9, <3>1, <4>1
    <3>2. CASE j # Len(p)
      <4>1. j \in 1..Len(k.contributions) /\ p[j] = k.contributions[j]
        BY <1>5, <1>9, <3>2
      <4>2. PICK m \in 1..Len(k.consumed) : k.consumed[m] = k.contributions[j]
        BY <1>2, <4>1 DEF Readable
      <4>3. m \in 1..Len(q) /\ q[m] = k.consumed[m]
        BY <1>2, <1>8
      <4> QED
        BY <4>1, <4>2, <4>3
    <3> QED
      BY <3>1, <3>2
  <2>2. T.disposition # "REJECTED" /\ (T.disposition = "OBSERVING" => T.observing)
    BY <1>4, <1>10
  <2> QED
    BY <1>8, <1>10, <1>13, <2>1, <2>2 DEF Readable
<1>15. Evident(T, more)
  <2>1. T.lastSequence <= Len(more)
    BY <1>1, <1>10
  <2> SUFFICES ASSUME NEW j \in 1..Len(p)
               PROVE  /\ p[j].sequence \in 1..Len(more)
                      /\ more[p[j].sequence].fact[1] = p[j].instance
                      /\ more[p[j].sequence].outcome = "SUCCEEDED" /\ more[p[j].sequence].baseIsCurrent
                      /\ more[p[j].sequence].candidate = k.candidate /\ more[p[j].sequence].band = k.band
    BY <1>10, <2>1 DEF Evident
  <2>2. CASE j = Len(p)
    <3>1. p[j] = c
      BY <1>9, <2>2
    <3>2. /\ e.fact[1] = c.instance /\ e.outcome = "SUCCEEDED" /\ e.baseIsCurrent
          /\ e.candidate = k.candidate /\ e.band = k.band
      BY DEF Accepts, Opens, matches
    <3> QED
      BY <1>1, <3>1, <3>2
  <2>3. CASE j # Len(p)
    <3>1. j \in 1..Len(k.contributions) /\ p[j] = k.contributions[j]
      BY <1>5, <1>9, <2>3
    <3>2. Evident(k, more) /\ k.disposition \in Earning
      BY <1>11 DEF Kept, Earning
    <3> QED
      BY <3>1, <3>2 DEF Evident
  <2> QED
    BY <2>2, <2>3
<1>16. Quiet(T, b, more)
  <2>1. Quiet(k, b, more) /\ k.disposition \in Earning
    BY <1>11 DEF Kept, Earning
  <2>2. Len(k.contributions) > 0
    BY <2>1 DEF Quiet
  <2>3. p[1] = k.contributions[1] /\ Len(p) > 0
    BY <1>5, <1>9, <2>2
  <2>4. Horizon(T, more) = Len(list) + 1 /\ Horizon(k, more) = Len(list) + 1
    BY <1>1, <1>9, <1>10 DEF Horizon
  <2> QED
    BY <1>10, <2>1, <2>3, <2>4 DEF Quiet
<1> QED
  BY <1>10, <1>14, <1>15, <1>16 DEF Kept, T, more

\* What an observation may change of a decision.
Judges(k, o, T) ==
  /\ k.disposition \in {"AUTO_PUBLISH", "AWAIT_APPROVAL", "STALE", "REJECTED"} =>
       /\ T.disposition = k.disposition /\ T.candidate = k.candidate /\ T.band = k.band
       /\ T.contributions = k.contributions
  /\ T.disposition = "RESET" /\ k.disposition = "RESET" =>
       T.candidate = k.candidate /\ T.band = k.band /\ T.contributions = k.contributions
  /\ T.disposition = "AUTO_PUBLISH" => k.disposition = "AUTO_PUBLISH" \/ o.baseIsCurrent
  /\ T.disposition = "REJECTED" => k.disposition = "REJECTED"

\* What a streak holds, it holds after every observation it accepts (Observe).
LEMMA ObserveKept ==
  ASSUME NEW s, NEW k, NEW o, NEW list, NEW e, Accepts(s, k, o, list, e)
  PROVE  /\ Kept(s, Observe(k, o), o.base, Append(list, e))
         /\ Judges(k, o, Observe(k, o))
<1> DEFINE c == o.contribution
<1>1. /\ k \in Streaks(s) /\ o \in Observations(s) /\ Readable(k, o.base)
      /\ ObserveError(k, o) = Blank /\ c \in Contributions(s)
  BY AcceptedLast DEF Accepts, Kept
<1>2. c.sequence > k.lastSequence /\ StreakValid(k) /\ ObservationValid(o)
  <2>1. k.lastSequence <= Len(list) /\ k.lastSequence \in Nat
    BY DEF Accepts, Kept, Evident, Streaks
  <2> QED
    BY <2>1, AcceptedLast
<1>3. Observe(k, o) = Told(k, o)
  BY <1>1, <1>2, Fresh
<1>4. CASE /\ Told(k, o) = withObservation(k, c)
           /\ k.disposition = "OBSERVING" => o.outcome # "ORIGINAL_RECOVERED" /\ o.candidate = Blank
  <2>1. Kept(s, Told(k, o), o.base, Append(list, e))
    BY <1>4, ObservedKept
  <2>2. /\ Told(k, o).disposition = k.disposition /\ Told(k, o).candidate = k.candidate
        /\ Told(k, o).band = k.band /\ Told(k, o).contributions = k.contributions
    BY <1>1, <1>4 DEF withObservation, Streaks
  <2> QED
    BY <1>3, <2>1, <2>2 DEF Judges
<1>5. CASE /\ Told(k, o) = newHealStreak(o) /\ k.disposition \in {"", "OBSERVING", "RESET"}
           /\ Opens(o) /\ o.candidate # Blank
  <2>1. Kept(s, Told(k, o), o.base, Append(list, e))
    BY <1>5, OpenedKept
  <2>2. Told(k, o).disposition = "OBSERVING"
    <3>1. newHealStreak(o).disposition = "OBSERVING"
      BY DEF newHealStreak
    <3> QED
      BY <1>5, <3>1
  <2> QED
    BY <1>3, <1>5, <2>1, <2>2 DEF Judges
<1>6. CASE Told(k, o) = newHealTerminal(o, "RESET") /\ k.disposition \in {"", "OBSERVING"}
  <2>1. Kept(s, Told(k, o), o.base, Append(list, e))
    BY <1>6, EndedKept
  <2>2. Told(k, o).disposition = "RESET"
    BY <1>6 DEF newHealTerminal, EmptyStreak
  <2> QED
    BY <1>3, <1>6, <2>1, <2>2 DEF Judges
<1>7. CASE Told(k, o) = newHealTerminal(o, "STALE") /\ k.disposition = ""
  <2>1. Kept(s, Told(k, o), o.base, Append(list, e))
    BY <1>7, EndedKept
  <2>2. Told(k, o).disposition = "STALE"
    BY <1>7 DEF newHealTerminal, EmptyStreak
  <2> QED
    BY <1>3, <1>7, <2>1, <2>2 DEF Judges
<1>8. CASE /\ Told(k, o) = withDisposition(withObservation(k, c), "STALE")
           /\ k.disposition = "OBSERVING"
  <2>1. Kept(s, Told(k, o), o.base, Append(list, e))
    BY <1>8, StaleKept
  <2>2. Told(k, o).disposition = "STALE"
    BY <1>1, <1>8 DEF withObservation, withDisposition, Streaks
  <2> QED
    BY <1>3, <1>8, <2>1, <2>2 DEF Judges
<1>9. CASE Told(k, o) = Agreed(k, c) /\ k.disposition = "OBSERVING" /\ Opens(o) /\ matches(k, o)
  <2>1. Kept(s, Told(k, o), o.base, Append(list, e))
    BY <1>9, AgreedKept
  <2>2. Told(k, o).disposition \in {"OBSERVING", "AUTO_PUBLISH", "AWAIT_APPROVAL"}
    <3>1. Agreed(k, c).disposition \in {k.disposition, "AUTO_PUBLISH", "AWAIT_APPROVAL"}
      BY <1>1, AgreedFields
    <3> QED
      BY <1>9, <3>1
  <2>3. o.baseIsCurrent
    BY <1>9 DEF Opens
  <2> QED
    BY <1>3, <1>9, <2>1, <2>2, <2>3 DEF Judges
<1> QED
  BY <1>1, <1>2, <1>4, <1>5, <1>6, <1>7, <1>8, <1>9, ToldKinds

\* A rejection is the last word on a streak that waits.
LEMMA RejectKept ==
  ASSUME NEW s, NEW k, NEW b, NEW list, Kept(s, k, b, list), NEW sequence \in Nat,
         k.disposition = "AWAIT_APPROVAL", sequence > k.lastSequence, sequence <= Len(list)
  PROVE  /\ Kept(s, Reject(k, sequence), b, list) /\ StreakValid(Reject(k, sequence))
         /\ Reject(k, sequence).disposition = "REJECTED" /\ Reject(k, sequence).candidate = k.candidate
<1> DEFINE T == Reject(k, sequence)
<1>1. /\ k \in Streaks(s) /\ Readable(k, b) /\ Evident(k, list) /\ Quiet(k, b, list)
      /\ k.lastSequence \in Nat /\ k.consumed \in Seq(Contributions(s))
      /\ k.contributions \in Seq(Contributions(s))
  BY DEF Kept, Streaks
<1>2. T \in Streaks(s)
  BY <1>1 DEF Reject, Streaks, Dispositions
<1>3. /\ T.base = k.base /\ T.candidate = k.candidate /\ T.band = k.band
      /\ T.contributions = k.contributions /\ T.consumed = k.consumed
      /\ T.lastSequence = sequence /\ T.observing = FALSE /\ T.disposition = "REJECTED"
  BY <1>1 DEF Reject, Streaks
<1> HIDE DEF T
<1>4. StreakValid(k) /\ ~Unstarted(k)
  BY <1>1 DEF Readable, Unstarted
<1>5. DispositionValid(k) /\ ContributionsValid(k.consumed)
      /\ (k.consumed # <<>> => k.consumed[Len(k.consumed)].sequence <= k.lastSequence)
  BY <1>1, <1>4, Provenance DEF StreakValid
<1>6. k.base # NoBase /\ k.candidate # Blank /\ ContributionsValid(k.contributions)
      /\ Len(k.contributions) = Required
  BY <1>5 DEF DispositionValid
<1>7. Readable(T, b)
  <2>1. consumedProvenance(T) = k.consumed
    BY <1>1, <1>3 DEF consumedProvenance, Readable
  <2>2. T.lastSequence # 0
    BY <1>1, <1>3
  <2>3. DispositionValid(T)
    BY <1>3, <1>6, <2>2 DEF DispositionValid
  <2>4. ~Unstarted(T)
    BY <1>3 DEF Unstarted
  <2>5. k.consumed # <<>> => k.consumed[Len(k.consumed)].sequence <= T.lastSequence
    <3> SUFFICES ASSUME k.consumed # <<>> PROVE k.consumed[Len(k.consumed)].sequence <= T.lastSequence
      OBVIOUS
    <3>1. Len(k.consumed) \in 1..Len(k.consumed)
      BY <1>1
    <3>2. k.consumed[Len(k.consumed)] \in Contributions(s)
      BY <1>1, <3>1
    <3> QED
      BY <1>1, <1>3, <1>5, <3>2 DEF Contributions
  <2>6. StreakValid(T)
    BY <1>5, <2>1, <2>3, <2>4, <2>5 DEF StreakValid
  <2> QED
    BY <1>1, <1>3, <1>6, <2>6 DEF Readable
<1>8. Evident(T, list)
  <2>1. k.disposition \in Earning
    BY DEF Earning
  <2> QED
    BY <1>1, <1>3, <2>1 DEF Evident
<1>9. Quiet(T, b, list)
  <2>1. k.disposition \in Earning
    BY DEF Earning
  <2>2. Horizon(T, list) = Horizon(k, list)
    BY <1>3 DEF Horizon
  <2> QED
    BY <1>1, <1>3, <2>1, <2>2 DEF Quiet
<1>10. StreakValid(T)
  BY <1>3, <1>7 DEF Readable, Unstarted
<1> QED
  BY <1>2, <1>3, <1>7, <1>8, <1>9, <1>10 DEF Kept, T

\* The observation that the host makes of a fact, its streak and what it becomes.
Contribution(t, w, commit, f) == [fact |-> <<w, f.id>>, commit |-> commit, instance |-> w, sequence |-> NextSequence(t)]
Observation(t, w, commit, f) == mapAcceptedHealFact(f, Contribution(t, w, commit, f), Len(t.node.versions))
Error(t, w, commit, f) ==
  PlanError(t.streaks[f.base], t.candidates[f.base].status, t.effects[f.base], Observation(t, w, commit, f))
NextStreak(t, w, commit, f) == Observe(t.streaks[f.base], Observation(t, w, commit, f))
Effect(t, w, commit, f) == terminalEffectForTransition(t.streaks[f.base], NextStreak(t, w, commit, f))

\* A fact is known, or refused, or accepted.
LEMMA GovernedCases ==
  ASSUME NEW t, NEW w, NEW commit, NEW f
  PROVE  LET r == [t EXCEPT !.log = Append(@, Entry(w, f, Observation(t, w, commit, f))),
                            !.streaks[f.base] = NextStreak(t, w, commit, f),
                            !.effects[f.base] = IF Effect(t, w, commit, f) = Blank THEN @
                                                ELSE EffectOf(NextStreak(t, w, commit, f))]
         IN \/ Governed(t, w, commit, f) = t
            \/ /\ t.error = Blank /\ Error(t, w, commit, f) # Blank
               /\ Governed(t, w, commit, f) = [t EXCEPT !.error = Error(t, w, commit, f)]
            \/ /\ t.error = Blank /\ Error(t, w, commit, f) = Blank
               /\ Governed(t, w, commit, f) = Effected(r, Effect(t, w, commit, f), f.base, NextStreak(t, w, commit, f))
BY DEF Governed, Contribution, Observation, Error, NextStreak, Effect

\* What the planner is shown of a fact.
LEMMA ObservationOfFact ==
  ASSUME NEW s, NEW t \in AllTables(s), NEW w \in s.instances, NEW commit \in s.instances \X Nat,
         NEW f \in BasedFacts(s), s.versions \in Nat
  PROVE  LET o == Observation(t, w, commit, f)
         IN /\ o \in Observations(s) /\ o.base = f.base /\ o.baseIsCurrent = (f.base = Len(t.node.versions))
            /\ o.contribution.sequence = Len(t.log) + 1
            /\ o.contribution.fact = <<w, f.id>> /\ o.contribution.instance = w
            /\ Entry(w, f, o) \in Entries(s)
            /\ Entry(w, f, o).fact = o.contribution.fact /\ Entry(w, f, o).base = o.base
            /\ Entry(w, f, o).outcome = o.outcome /\ Entry(w, f, o).candidate = o.candidate
            /\ Entry(w, f, o).band = o.band /\ Entry(w, f, o).baseIsCurrent = o.baseIsCurrent
<1> DEFINE c == Contribution(t, w, commit, f)
           o == Observation(t, w, commit, f)
<1>1. /\ f.id \in FactIDs /\ f.base \in BasesOf(s) /\ f.candidate \in Named /\ f.band \in Bands
      /\ f.outcome \in Outcomes /\ f.base \in Nat
  BY DEF BasedFacts, BasesOf
<1>2. t.log \in Seq(Entries(s)) /\ Len(t.log) \in Nat
  BY DEF AllTables
<1>3. NextSequence(t) = Len(t.log) + 1 /\ NextSequence(t) \in Nat
  BY <1>2 DEF NextSequence
<1>4. /\ c \in Contributions(s) /\ c.fact = <<w, f.id>> /\ c.instance = w /\ c.sequence = Len(t.log) + 1
  BY <1>1, <1>3 DEF Contributions, Contribution
<1>5. /\ o \in Observations(s) /\ o.base = f.base /\ o.contribution = c
      /\ o.baseIsCurrent = (f.base = Len(t.node.versions))
      /\ o.outcome = f.outcome /\ o.candidate = f.candidate /\ o.band = f.band
  <2> HIDE DEF c
  <2>1. o = [contribution |-> c, base |-> f.base, candidate |-> f.candidate, band |-> f.band,
             outcome |-> f.outcome, baseIsCurrent |-> f.base = Len(t.node.versions)]
    BY DEF Observation, mapAcceptedHealFact, c
  <2>2. (f.base = Len(t.node.versions)) \in BOOLEAN
    OBVIOUS
  <2> QED
    BY <1>1, <1>4, <2>1, <2>2 DEF Observations
<1> HIDE DEF o, c
<1>6. /\ o.outcome \in Outcomes /\ o.candidate \in Named /\ o.band \in Bands /\ o.baseIsCurrent \in BOOLEAN
      /\ o.base \in Nat
  BY <1>1, <1>5 DEF Observations
<1>7. /\ Entry(w, f, o) \in Entries(s)
      /\ Entry(w, f, o).fact = <<w, f.id>> /\ Entry(w, f, o).base = o.base
      /\ Entry(w, f, o).outcome = o.outcome /\ Entry(w, f, o).candidate = o.candidate
      /\ Entry(w, f, o).band = o.band /\ Entry(w, f, o).baseIsCurrent = o.baseIsCurrent
  BY <1>1, <1>6 DEF Entry, Entries
<1> QED
  BY <1>4, <1>5, <1>7 DEF o

\* The tables u are the tables t after a fact, logged as e, made T of the streak of base b.
Became(s, t, b, e, T, effect, u) ==
  /\ u \in AllTables(s)
  /\ u.log = Append(t.log, e) /\ u.streaks = [t.streaks EXCEPT ![b] = T]
  /\ u.effects = [t.effects EXCEPT ![b] = IF effect = Blank THEN @ ELSE EffectOf(T)]
  /\ u.candidates = IF effect = "AWAIT_APPROVAL"
                    THEN [t.candidates EXCEPT ![b] = [status |-> "AWAITING_APPROVAL",
                                                      hash |-> T.candidate, revision |-> 1]]
                    ELSE t.candidates
  /\ u.node.versions = IF effect = "AUTO_PUBLISH"
                       THEN Append(t.node.versions, Version("auto", b, T.candidate))
                       ELSE t.node.versions
  /\ u.node.revision = IF effect = "AUTO_PUBLISH" THEN t.node.revision + 1 ELSE t.node.revision
  /\ u.error = t.error

\* The tables with one accepted fact more, table by table.
LEMMA AcceptedFields ==
  ASSUME NEW s, NEW t \in AllTables(s), NEW b \in BasesOf(s), NEW e \in Entries(s), NEW k \in Streaks(s),
         NEW effect \in {Blank, "AUTO_PUBLISH", "AWAIT_APPROVAL", "RESET", "STALE"}, b \in Nat,
         NEW r, r = [t EXCEPT !.log = Append(@, e), !.streaks[b] = k,
                              !.effects[b] = IF effect = Blank THEN @ ELSE EffectOf(k)]
  PROVE  Became(s, t, b, e, k, effect, Effected(r, effect, b, k))
<1> DEFINE l == Append(t.log, e)
           ks == [t.streaks EXCEPT ![b] = k]
           es == [t.effects EXCEPT ![b] = IF effect = Blank THEN @ ELSE EffectOf(k)]
           u == Effected(r, effect, b, k)
           version == Version("auto", b, k.candidate)
           waiting == [status |-> "AWAITING_APPROVAL", hash |-> k.candidate, revision |-> 1]
<1>1. /\ t.log \in Seq(Entries(s)) /\ t.streaks \in [BasesOf(s) -> Streaks(s)]
      /\ t.effects \in [BasesOf(s) -> Effects(s)] /\ t.candidates \in [BasesOf(s) -> CandidateRecords]
      /\ t.node \in [revision : Nat, versions : Seq(VersionRecords)] /\ t.error \in PlanErrors \union {Blank}
  BY DEF AllTables
<1>2. l \in Seq(Entries(s)) /\ ks \in [BasesOf(s) -> Streaks(s)]
  BY <1>1
<1>3. EffectOf(k) \in Effects(s)
  BY DEF EffectOf, Effects, Streaks
<1>4. es \in [BasesOf(s) -> Effects(s)]
  <2> HIDE DEF es
  <2>1. CASE effect = Blank
    BY <1>1, <2>1 DEF es
  <2>2. CASE effect # Blank
    BY <1>1, <1>3, <2>2 DEF es
  <2> QED
    BY <2>1, <2>2
<1>5. version \in VersionRecords /\ waiting \in CandidateRecords
  BY DEF Version, VersionRecords, CandidateRecords, Streaks
<1>6. r = [t EXCEPT !.log = l, !.streaks = ks, !.effects = es]
  BY <1>1 DEF AllTables
<1> HIDE DEF l, ks, es, version, waiting
<1>7. /\ r \in AllTables(s) /\ r.log = l /\ r.streaks = ks /\ r.effects = es
      /\ r.candidates = t.candidates /\ r.node = t.node /\ r.error = t.error
  BY <1>1, <1>2, <1>4, <1>6 DEF AllTables
<1>8. CASE effect = "AUTO_PUBLISH"
  <2> DEFINE n == [revision |-> t.node.revision + 1, versions |-> Append(t.node.versions, version)]
  <2>1. n \in [revision : Nat, versions : Seq(VersionRecords)]
    BY <1>1, <1>5
  <2>2. u = [r EXCEPT !.node = n]
    BY <1>7, <1>8 DEF Effected, version
  <2>3. n.revision = t.node.revision + 1 /\ n.versions = Append(t.node.versions, version)
    OBVIOUS
  <2> HIDE DEF n, u
  <2>4. /\ u \in AllTables(s) /\ u.log = l /\ u.streaks = ks /\ u.effects = es
        /\ u.candidates = t.candidates /\ u.node = n /\ u.error = t.error
    BY <1>7, <2>1, <2>2 DEF AllTables
  <2> QED
    BY <1>8, <2>3, <2>4 DEF l, ks, es, version, u, Became
<1>9. CASE effect = "AWAIT_APPROVAL"
  <2> DEFINE cs == [t.candidates EXCEPT ![b] = waiting]
  <2>1. cs \in [BasesOf(s) -> CandidateRecords]
    BY <1>1, <1>5
  <2>2. u = [r EXCEPT !.candidates[b] = waiting]
    BY <1>9 DEF Effected, waiting
  <2>3. u = [r EXCEPT !.candidates = cs]
    BY <1>7, <2>2 DEF AllTables
  <2> HIDE DEF cs, u
  <2>4. /\ u \in AllTables(s) /\ u.log = l /\ u.streaks = ks /\ u.effects = es
        /\ u.candidates = cs /\ u.node = t.node /\ u.error = t.error
    BY <1>7, <2>1, <2>3 DEF AllTables
  <2> QED
    BY <1>9, <2>4 DEF l, ks, es, waiting, u, cs, Became
<1>10. CASE effect \notin {"AUTO_PUBLISH", "AWAIT_APPROVAL"}
  <2>1. u = r
    BY <1>10 DEF Effected
  <2> HIDE DEF u
  <2>2. /\ u \in AllTables(s) /\ u.log = l /\ u.streaks = ks /\ u.effects = es
        /\ u.candidates = t.candidates /\ u.node = t.node /\ u.error = t.error
    BY <1>7, <2>1
  <2> QED
    BY <1>10, <2>2 DEF l, ks, es, u, Became
<1> QED
  BY <1>8, <1>9, <1>10

\* The planner makes T of a streak k, and of its effect, candidate and versions new ones.
Decides(s, k, o, T, b, candidate, old, versions, effect, new, after, more) ==
  /\ T \in Streaks(s) /\ Judges(k, o, T) /\ candidate \in CandidateRecords
  /\ versions \in Seq(VersionRecords) /\ b \in Nat /\ b # 0
  /\ validateExistingHealEffect(old, k) /\ CandidateFits(candidate, k) /\ VersionsFit(versions, b, k, candidate)
  /\ o.baseIsCurrent = (b = Len(versions))
  /\ effect = terminalEffectForTransition(k, T)
  /\ new = IF effect = Blank THEN old ELSE EffectOf(T)
  /\ after = IF effect = "AWAIT_APPROVAL"
             THEN [status |-> "AWAITING_APPROVAL", hash |-> T.candidate, revision |-> 1]
             ELSE candidate
  /\ more = IF effect = "AUTO_PUBLISH" THEN Append(versions, Version("auto", b, T.candidate)) ELSE versions

\* What the planner decides fits the decision before it.
LEMMA DecisionFits ==
  ASSUME NEW s, NEW k, NEW o, NEW T, NEW b, NEW candidate, NEW old, NEW versions,
         NEW effect, NEW new, NEW after, NEW more,
         Decides(s, k, o, T, b, candidate, old, versions, effect, new, after, more)
  PROVE  /\ effect \in {Blank, "AUTO_PUBLISH", "AWAIT_APPROVAL", "RESET", "STALE"}
         /\ validateExistingHealEffect(new, T)
         /\ CandidateFits(after, T)
         /\ VersionsFit(more, b, T, after)
         /\ effect = "AUTO_PUBLISH" => b = Len(versions)
         /\ Asks(candidate, after)
         /\ Advances(k.disposition, T.disposition)
<1> DEFINE waiting == [status |-> "AWAITING_APPROVAL", hash |-> T.candidate, revision |-> 1]
           version == Version("auto", b, T.candidate)
           longer == Append(versions, version)
<1> USE DEF Decides
<1>1. effect = IF k.disposition # T.disposition /\ T.disposition \in Terminal THEN T.disposition ELSE Blank
  BY DEF terminalEffectForTransition
<1>2. waiting.status = "AWAITING_APPROVAL" /\ waiting.hash = T.candidate /\ waiting.revision = 1
  OBVIOUS
<1>3. candidate.status \in {Blank, "AWAITING_APPROVAL", "PROMOTED", "REJECTED"}
  BY DEF CandidateRecords
<1>4. version = Version("auto", b, T.candidate) /\ version.source = "auto"
  BY DEF Version
<1>0. /\ after = IF effect = "AWAIT_APPROVAL" THEN waiting ELSE candidate
      /\ more = IF effect = "AUTO_PUBLISH" THEN longer ELSE versions
  OBVIOUS
<1> HIDE DEF version
<1>5. /\ Len(versions) \in Nat /\ Len(longer) = Len(versions) + 1 /\ longer[Len(versions) + 1] = version
      /\ \A n \in 1..Len(versions) : longer[n] = versions[n]
  OBVIOUS
<1> HIDE DEF waiting, longer
<1>6. effect \in {Blank, "AUTO_PUBLISH", "AWAIT_APPROVAL", "RESET", "STALE"}
  BY <1>1 DEF Terminal
<1>7. Advances(k.disposition, T.disposition)
  BY DEF Advances, Judges
<1>8. validateExistingHealEffect(new, T)
  <2>1. CASE effect = Blank
    <3>1. T.disposition \in Terminal => k.disposition = T.disposition
      BY <1>1, <2>1 DEF Terminal, Blank
    <3>2. T.disposition \in Terminal =>
            T.candidate = k.candidate /\ T.band = k.band /\ T.contributions = k.contributions
      BY <3>1 DEF Judges, Terminal
    <3>3. T.disposition \in Terminal => EffectOf(T) = EffectOf(k)
      BY <3>1, <3>2 DEF EffectOf
    <3> QED
      BY <2>1, <3>1, <3>3 DEF validateExistingHealEffect
  <2>2. CASE effect # Blank
    BY <2>2 DEF validateExistingHealEffect
  <2> QED
    BY <2>1, <2>2
<1>9. effect = "AWAIT_APPROVAL" =>
        /\ T.disposition = "AWAIT_APPROVAL" /\ k.disposition \notin {"AWAIT_APPROVAL", "REJECTED"}
        /\ candidate.status = Blank
  <2> SUFFICES ASSUME effect = "AWAIT_APPROVAL"
               PROVE  /\ T.disposition = "AWAIT_APPROVAL" /\ k.disposition \notin {"AWAIT_APPROVAL", "REJECTED"}
                      /\ candidate.status = Blank
    OBVIOUS
  <2>1. T.disposition = "AWAIT_APPROVAL" /\ k.disposition # T.disposition
    BY <1>1 DEF Blank
  <2>2. k.disposition # "REJECTED"
    BY <2>1 DEF Judges
  <2> QED
    BY <1>3, <2>1, <2>2 DEF CandidateFits
<1>10. effect = "AUTO_PUBLISH" =>
         /\ T.disposition = "AUTO_PUBLISH" /\ k.disposition \notin {"AUTO_PUBLISH", "AWAIT_APPROVAL"}
         /\ b = Len(versions)
  <2> SUFFICES ASSUME effect = "AUTO_PUBLISH"
               PROVE  /\ T.disposition = "AUTO_PUBLISH" /\ k.disposition \notin {"AUTO_PUBLISH", "AWAIT_APPROVAL"}
                      /\ b = Len(versions)
    OBVIOUS
  <2>1. T.disposition = "AUTO_PUBLISH" /\ k.disposition # T.disposition
    BY <1>1 DEF Blank
  <2> QED
    BY <2>1 DEF Judges
<1>11. /\ effect # "AWAIT_APPROVAL" /\ T.disposition = "AWAIT_APPROVAL" => k.disposition = "AWAIT_APPROVAL"
       /\ effect # "AUTO_PUBLISH" /\ T.disposition = "AUTO_PUBLISH" => k.disposition = "AUTO_PUBLISH"
  BY <1>1 DEF Terminal
<1>12. /\ k.disposition \in {"AUTO_PUBLISH", "AWAIT_APPROVAL", "REJECTED"} =>
            T.disposition = k.disposition /\ T.candidate = k.candidate
       /\ T.disposition = "REJECTED" => k.disposition = "REJECTED"
  BY DEF Judges
<1>13. CandidateFits(after, T)
  <2>1. CASE effect = "AWAIT_APPROVAL"
    BY <1>0, <1>2, <1>9, <2>1 DEF CandidateFits, Blank
  <2>2. CASE effect # "AWAIT_APPROVAL"
    <3>1. after = candidate
      BY <1>0, <2>2
    <3>2. candidate.status # Blank => candidate.hash = T.candidate
      BY <1>3, <1>12 DEF CandidateFits
    <3>3. /\ T.disposition = "AWAIT_APPROVAL" => candidate.status \in {"AWAITING_APPROVAL", "PROMOTED"}
          /\ candidate.status = "REJECTED" <=> T.disposition = "REJECTED"
          /\ candidate.status \in {"AWAITING_APPROVAL", "PROMOTED"} => T.disposition = "AWAIT_APPROVAL"
      BY <1>11, <1>12, <2>2 DEF CandidateFits
    <3> QED
      BY <3>1, <3>2, <3>3 DEF CandidateFits
  <2> QED
    BY <2>1, <2>2
<1>14. candidate.status # Blank => after = candidate
  BY <1>0, <1>9
<1>15. after.status = "PROMOTED" <=> candidate.status = "PROMOTED"
  BY <1>0, <1>2, <1>9 DEF Blank
<1>16. VersionsFit(more, b, T, after)
  <2>1. CASE effect = "AUTO_PUBLISH"
    <3>1. more = longer /\ b < Len(longer) /\ longer[b + 1] = version
      BY <1>5, <1>10, <1>0, <2>1
    <3>2. candidate.status # "PROMOTED"
      BY <1>10, <2>1 DEF CandidateFits
    <3>3. Follower(more, b, "auto") /\ ~Follower(more, b, "review")
      BY <1>4, <3>1 DEF Follower
    <3> QED
      BY <1>4, <1>10, <1>15, <2>1, <3>1, <3>2, <3>3 DEF VersionsFit
  <2>2. CASE effect # "AUTO_PUBLISH"
    <3>1. more = versions
      BY <1>0, <2>2
    <3>2. T.disposition = "AUTO_PUBLISH" <=> k.disposition = "AUTO_PUBLISH"
      BY <1>11, <1>12, <2>2
    <3>3. T.disposition = "AUTO_PUBLISH" => T.candidate = k.candidate
      BY <1>12, <3>2
    <3>4. candidate.status = "PROMOTED" => after = candidate
      BY <1>14 DEF Blank
    <3> QED
      BY <1>15, <3>1, <3>2, <3>3, <3>4 DEF VersionsFit
  <2> QED
    BY <2>1, <2>2
<1>17. Asks(candidate, after)
  BY <1>0, <1>2, <1>9 DEF Asks
<1> QED
  BY <1>6, <1>7, <1>8, <1>10, <1>13, <1>16, <1>17

\* Tables that stay follow themselves.
LEMMA FollowsItself ==
  ASSUME NEW t PROVE Follows(t, t)
<1>1. Len(t.log) <= Len(t.log)
  OBVIOUS
<1> QED
  BY DEF Follows, Advances, Asks

\* What an accepted fact makes of the streak of its base.
LEMMA NextKept ==
  ASSUME NEW s, s.versions \in Nat, NEW t, TablesSound(s, t), NEW w \in s.instances,
         NEW commit \in s.instances \X Nat, NEW f \in BasedFacts(s)
  PROVE  /\ Error(t, w, commit, f) \in PlanErrors \union {Blank}
         /\ Error(t, w, commit, f) = Blank =>
              /\ Kept(s, NextStreak(t, w, commit, f), f.base,
                      Append(t.log, Entry(w, f, Observation(t, w, commit, f))))
              /\ Judges(t.streaks[f.base], Observation(t, w, commit, f), NextStreak(t, w, commit, f))
<1> DEFINE b == f.base
           k == t.streaks[b]
           o == Observation(t, w, commit, f)
           e == Entry(w, f, o)
           T == NextStreak(t, w, commit, f)
<1>1. t \in AllTables(s) /\ \A x \in BasesOf(s) : BaseSound(t, x)
  BY DEF TablesSound
<1>2. t.log \in Seq(Entries(s)) /\ t.streaks \in [BasesOf(s) -> Streaks(s)]
  BY <1>1 DEF AllTables
<1>3. b \in BasesOf(s)
  BY DEF BasedFacts
<1>4. /\ o \in Observations(s) /\ o.base = b
      /\ o.contribution.sequence = Len(t.log) + 1
      /\ o.contribution.fact = <<w, f.id>> /\ o.contribution.instance = w
      /\ e \in Entries(s) /\ e.fact = o.contribution.fact /\ e.base = o.base
      /\ e.outcome = o.outcome /\ e.candidate = o.candidate
      /\ e.band = o.band /\ e.baseIsCurrent = o.baseIsCurrent
  BY <1>1, ObservationOfFact
<1>5. BaseSound(t, b)
  BY <1>1, <1>3
<1>6. Kept(s, k, b, t.log)
  BY <1>2, <1>3, <1>5 DEF BaseSound, Kept
<1>7. Error(t, w, commit, f) \in PlanErrors \union {Blank}
  <2>1. o.contribution.sequence > k.lastSequence
    <3>1. k.lastSequence \in Nat /\ k.lastSequence <= Len(t.log)
      BY <1>6 DEF Kept, Evident, Streaks
    <3> QED
      BY <1>2, <1>4, <3>1
  <2>2. ObserveError(k, o) \in PlanErrors \union {Blank}
    <3>1. k \in Streaks(s) /\ Readable(k, o.base)
      BY <1>4, <1>6 DEF Kept
    <3> HIDE DEF k, o
    <3> QED
      BY <1>4, <2>1, <3>1, Fresh
  <2>3. validateExistingHealEffect(t.effects[b], k)
    BY <1>5 DEF BaseSound
  <2> QED
    BY <2>2, <2>3 DEF Error, PlanError, PlanErrors
<1> SUFFICES ASSUME Error(t, w, commit, f) = Blank
             PROVE  Kept(s, T, b, Append(t.log, e)) /\ Judges(k, o, T)
  BY <1>7
<1>8. ObserveError(k, o) = Blank
  BY DEF Error, PlanError, Blank
<1>9. Accepts(s, k, o, t.log, e)
  <2>1. o.contribution.fact[1] = o.contribution.instance
    BY <1>4
  <2> HIDE DEF k, o, e
  <2> QED
    BY <1>2, <1>4, <1>6, <1>8, <2>1 DEF Accepts
<1>10. T = Observe(k, o)
  BY DEF NextStreak
<1> HIDE DEF k, o, e, T
<1> QED
  BY <1>4, <1>9, <1>10, ObserveKept

\* What holds of every base holds of the tables with one fact more.
LEMMA AcceptedSound ==
  ASSUME NEW s, s.versions \in Nat, NEW t, TablesSound(s, t), NEW w \in s.instances,
         NEW commit \in s.instances \X Nat, NEW f \in BasedFacts(s), NEW u,
         Error(t, w, commit, f) = Blank, Became(s, t, f.base, Entry(w, f, Observation(t, w, commit, f)), NextStreak(t, w, commit, f),
                Effect(t, w, commit, f), u)
  PROVE  TablesSound(s, u) /\ Follows(t, u)
<1> DEFINE b == f.base
           k == t.streaks[b]
           o == Observation(t, w, commit, f)
           e == Entry(w, f, o)
           T == NextStreak(t, w, commit, f)
           effect == Effect(t, w, commit, f)
           waiting == [status |-> "AWAITING_APPROVAL", hash |-> T.candidate, revision |-> 1]
           version == Version("auto", b, T.candidate)
           oldEffect == t.effects[b]
           newEffect == IF effect = Blank THEN oldEffect ELSE EffectOf(T)
           old == t.candidates[b]
           after == IF effect = "AWAIT_APPROVAL" THEN waiting ELSE old
           versions == t.node.versions
           more == IF effect = "AUTO_PUBLISH" THEN Append(versions, version) ELSE versions
<1> USE DEF Became
<1>1. /\ t \in AllTables(s) /\ VersionsInOrder(t.node) /\ \A x \in BasesOf(s) : BaseSound(t, x)
  BY DEF TablesSound
<1>2. /\ t.log \in Seq(Entries(s)) /\ t.streaks \in [BasesOf(s) -> Streaks(s)]
      /\ t.effects \in [BasesOf(s) -> Effects(s)] /\ t.candidates \in [BasesOf(s) -> CandidateRecords]
      /\ versions \in Seq(VersionRecords) /\ t.node.revision \in Nat
  BY <1>1 DEF AllTables
<1>3. b \in BasesOf(s) /\ b \in Nat /\ b # 0
  BY DEF BasedFacts, BasesOf
<1>4. /\ o \in Observations(s) /\ o.base = b /\ o.baseIsCurrent = (b = Len(versions))
      /\ o.contribution.sequence = Len(t.log) + 1
      /\ o.contribution.fact = <<w, f.id>> /\ o.contribution.instance = w
      /\ e \in Entries(s) /\ e.fact = o.contribution.fact /\ e.base = o.base
      /\ e.outcome = o.outcome /\ e.candidate = o.candidate
      /\ e.band = o.band /\ e.baseIsCurrent = o.baseIsCurrent
  BY <1>1, ObservationOfFact
<1>5. BaseSound(t, b)
  BY <1>1, <1>3
<1>9. T = Observe(k, o) /\ effect = terminalEffectForTransition(k, T)
  BY DEF NextStreak, Effect
<1>10. Kept(s, T, b, u.log) /\ Judges(k, o, T)
  BY NextKept
<1>11. /\ effect \in {Blank, "AUTO_PUBLISH", "AWAIT_APPROVAL", "RESET", "STALE"}
       /\ validateExistingHealEffect(newEffect, T)
       /\ CandidateFits(after, T) /\ VersionsFit(more, b, T, after)
       /\ effect = "AUTO_PUBLISH" => b = Len(versions)
       /\ Asks(old, after)
       /\ Advances(k.disposition, T.disposition)
  <2>1. T \in Streaks(s) /\ old \in CandidateRecords
    BY <1>2, <1>3, <1>10 DEF Kept
  <2>2. validateExistingHealEffect(oldEffect, k) /\ CandidateFits(old, k) /\ VersionsFit(versions, b, k, old)
    BY <1>5 DEF BaseSound
  <2>3. /\ effect = terminalEffectForTransition(k, T)
        /\ after = IF effect = "AWAIT_APPROVAL"
                   THEN [status |-> "AWAITING_APPROVAL", hash |-> T.candidate, revision |-> 1]
                   ELSE old
        /\ more = IF effect = "AUTO_PUBLISH" THEN Append(versions, Version("auto", b, T.candidate)) ELSE versions
        /\ newEffect = IF effect = Blank THEN oldEffect ELSE EffectOf(T)
    BY <1>9
  <2>4. versions \in Seq(VersionRecords) /\ o.baseIsCurrent = (b = Len(versions)) /\ b \in Nat /\ b # 0
    BY <1>2, <1>3, <1>4
  <2> HIDE DEF k, o, T, effect, old, oldEffect, versions, b, after, more, newEffect, waiting, version
  <2>5. /\ effect \in {Blank, "AUTO_PUBLISH", "AWAIT_APPROVAL", "RESET", "STALE"}
        /\ validateExistingHealEffect(newEffect, T)
        /\ CandidateFits(after, T) /\ VersionsFit(more, b, T, after)
        /\ effect = "AUTO_PUBLISH" => b = Len(versions)
        /\ Asks(old, after)
        /\ Advances(k.disposition, T.disposition)
    <3>1. Decides(s, k, o, T, b, old, oldEffect, versions, effect, newEffect, after, more)
      BY <1>10, <2>1, <2>2, <2>3, <2>4 DEF Decides
    <3> QED
      BY <3>1, DecisionFits
  <2> QED
    BY <2>5
<1>12. /\ u.streaks[b] = T /\ u.effects[b] = newEffect /\ u.candidates[b] = after /\ u.node.versions = more
       /\ \A x \in BasesOf(s) : x # b =>
            /\ u.streaks[x] = t.streaks[x] /\ u.effects[x] = t.effects[x]
            /\ u.candidates[x] = t.candidates[x]
  <2> HIDE DEF T, effect, waiting, version, o, e
  <2>1. /\ u.streaks = [t.streaks EXCEPT ![b] = T]
        /\ u.effects = [t.effects EXCEPT ![b] = IF effect = Blank THEN @ ELSE EffectOf(T)]
        /\ u.candidates = IF effect = "AWAIT_APPROVAL" THEN [t.candidates EXCEPT ![b] = waiting] ELSE t.candidates
        /\ u.node.versions = more
    BY DEF T, effect, waiting, version
  <2> HIDE DEF b
  <2>2. CASE effect = "AWAIT_APPROVAL"
    BY <1>2, <1>3, <2>1, <2>2
  <2>3. CASE effect # "AWAIT_APPROVAL"
    BY <1>2, <1>3, <2>1, <2>3
  <2> QED
    BY <2>2, <2>3
<1>13. Len(versions) \in Nat /\ Len(versions) >= 1 /\ t.node.revision = Len(versions)
  BY <1>1, <1>2 DEF VersionsInOrder
<1>14. /\ effect = "AUTO_PUBLISH" => Len(more) = Len(versions) + 1 /\ more[Len(versions) + 1] = version
       /\ effect # "AUTO_PUBLISH" => more = versions
       /\ \A n \in 1..Len(versions) : more[n] = versions[n]
  <2>1. version \in VersionRecords
    <3>1. T \in Streaks(s)
      BY <1>10 DEF Kept
    <3> HIDE DEF T
    <3> QED
      BY <1>3, <3>1 DEF VersionRecords, Version, Streaks
  <2> HIDE DEF version, versions, effect
  <2> QED
    BY <1>2, <2>1
<1>15. version.source = "auto" /\ version.base = b
  BY DEF Version
<1> HIDE DEF k, o, e, T, effect, waiting, version, newEffect, old, oldEffect, after, more
<1>16. BaseSound(u, b)
  BY <1>10, <1>11, <1>12 DEF BaseSound, Kept
<1>17. ASSUME NEW x \in BasesOf(s), x # b PROVE BaseSound(u, x)
  <2>1. BaseSound(t, x) /\ x \in Nat /\ x >= 1
    BY <1>1 DEF BasesOf
  <2>2. Kept(s, u.streaks[x], x, u.log)
    <3>1. Kept(s, t.streaks[x], x, t.log)
      BY <1>2, <2>1 DEF BaseSound, Kept
    <3>2. e.base # x
      BY <1>4, <1>17
    <3>3. u.log = Append(t.log, e)
      BY DEF e, o
    <3>4. Kept(s, t.streaks[x], x, Append(t.log, e))
      BY <1>2, <1>4, <3>1, <3>2, LongerLog
    <3> QED
      BY <1>12, <1>17, <3>3, <3>4
  <2>3. \A source : Follower(more, x, source) <=> Follower(versions, x, source)
    <3>1. CASE effect = "AUTO_PUBLISH"
      <4>1. x < Len(more) <=> x < Len(versions)
        BY <1>3, <1>11, <1>13, <1>14, <1>17, <2>1, <3>1
      <4>2. x < Len(versions) => more[x + 1] = versions[x + 1]
        BY <1>13, <1>14, <2>1
      <4> QED
        BY <4>1, <4>2 DEF Follower
    <3>2. CASE effect # "AUTO_PUBLISH"
      BY <1>14, <3>2
    <3> QED
      BY <3>1, <3>2
  <2>4. x < Len(versions) => more[x + 1] = versions[x + 1]
    BY <1>13, <1>14, <2>1
  <2>5. VersionsFit(more, x, t.streaks[x], t.candidates[x])
    <3>1. VersionsFit(versions, x, t.streaks[x], t.candidates[x])
      BY <2>1 DEF BaseSound
    <3>2. \/ t.streaks[x].disposition = "AUTO_PUBLISH"
          \/ t.candidates[x].status = "PROMOTED" => x < Len(versions)
      BY <3>1 DEF VersionsFit, Follower
    <3>3. t.streaks[x].disposition = "AUTO_PUBLISH" => x < Len(versions)
      BY <3>1 DEF VersionsFit, Follower
    <3>4. t.candidates[x].status = "PROMOTED" => x < Len(versions)
      BY <3>1 DEF VersionsFit, Follower
    <3> QED
      BY <2>3, <2>4, <3>1, <3>3, <3>4 DEF VersionsFit
  <2> QED
    BY <1>12, <1>17, <2>1, <2>2, <2>5 DEF BaseSound, Kept
<1>18. VersionsInOrder(u.node)
  <2>1. CASE effect = "AUTO_PUBLISH"
    <3>1. u.node.revision = t.node.revision + 1
      BY <2>1 DEF effect
    <3>2. \A n \in 2..Len(more) : more[n].base = n - 1
      <4> SUFFICES ASSUME NEW n \in 2..Len(more) PROVE more[n].base = n - 1
        OBVIOUS
      <4>1. CASE n = Len(versions) + 1
        BY <1>11, <1>13, <1>14, <1>15, <2>1, <4>1
      <4>2. CASE n # Len(versions) + 1
        <5>1. n \in 2..Len(versions) /\ more[n] = versions[n]
          BY <1>13, <1>14, <2>1, <4>2
        <5> QED
          BY <1>1, <5>1 DEF VersionsInOrder
      <4> QED
        BY <4>1, <4>2
    <3> QED
      <4>1. u.node.versions = more /\ Len(u.node.versions) = Len(more)
        BY <1>12
      <4>2. 2..Len(u.node.versions) = 2..Len(more)
        BY <4>1
      <4>3. Len(more) >= 1 /\ u.node.revision = Len(u.node.versions)
        BY <1>13, <1>14, <2>1, <3>1, <4>1
      <4> QED
        BY <3>2, <4>1, <4>2, <4>3 DEF VersionsInOrder
  <2>2. CASE effect # "AUTO_PUBLISH"
    <3>1. u.node.revision = t.node.revision
      BY <2>2 DEF effect
    <3> QED
      BY <1>1, <1>12, <1>14, <2>2, <3>1 DEF VersionsInOrder
  <2> QED
    BY <2>1, <2>2
<1>19. TablesSound(s, u)
  BY <1>16, <1>17, <1>18 DEF TablesSound
<1>20. Follows(t, u)
  <2>1. Len(t.log) <= Len(u.log)
    <3>1. u.log = Append(t.log, e)
      BY DEF e, o
    <3> QED
      BY <1>2, <3>1
  <2>2. ASSUME NEW x \in BasesOf(s) PROVE Advances(t.streaks[x].disposition, u.streaks[x].disposition)
    <3>1. CASE x = b
      BY <1>11, <1>12, <3>1 DEF k
    <3>2. CASE x # b
      BY <1>12, <3>2 DEF Advances
    <3> QED
      BY <3>1, <3>2
  <2>3. ASSUME NEW x \in BasesOf(s) PROVE Asks(t.candidates[x], u.candidates[x])
    <3>1. CASE x = b
      BY <1>11, <1>12, <3>1 DEF old
    <3>2. CASE x # b
      BY <1>12, <3>2 DEF Asks
    <3> QED
      BY <3>1, <3>2
  <2>4. DOMAIN t.streaks = BasesOf(s) /\ DOMAIN t.candidates = BasesOf(s)
    BY <1>2
  <2> QED
    BY <2>1, <2>2, <2>3, <2>4 DEF Follows
<1> QED
  BY <1>19, <1>20

-----------------------------------------------------------------------------
(* What a commit makes of the tables.                                      *)

\* One fact of a commit: the tables stay sound, and no decision is taken back.
LEMMA GovernedSound ==
  ASSUME NEW s, s.versions \in Nat, NEW t, TablesSound(s, t), NEW w \in s.instances,
         NEW commit \in s.instances \X Nat, NEW f \in BasedFacts(s)
  PROVE  TablesSound(s, Governed(t, w, commit, f)) /\ Follows(t, Governed(t, w, commit, f))
<1> DEFINE o == Observation(t, w, commit, f)
           e == Entry(w, f, o)
           T == NextStreak(t, w, commit, f)
           effect == Effect(t, w, commit, f)
           error == Error(t, w, commit, f)
           u == Governed(t, w, commit, f)
           r == [t EXCEPT !.log = Append(@, e), !.streaks[f.base] = T,
                          !.effects[f.base] = IF effect = Blank THEN @ ELSE EffectOf(T)]
<1>1. t \in AllTables(s)
  BY DEF TablesSound
<1>2. CASE u = t
  BY <1>2, FollowsItself
<1>3. CASE error # Blank /\ u = [t EXCEPT !.error = error]
  <2>1. error \in PlanErrors \union {Blank}
    BY NextKept
  <2> HIDE DEF error, u
  <2>2. /\ u \in AllTables(s) /\ u.log = t.log /\ u.streaks = t.streaks /\ u.effects = t.effects
        /\ u.candidates = t.candidates /\ u.node = t.node
    BY <1>1, <1>3, <2>1 DEF AllTables
  <2>3. TablesSound(s, u)
    BY <2>2 DEF TablesSound, BaseSound
  <2>4. Follows(t, u)
    BY <2>2 DEF Follows, Advances, Asks
  <2> QED
    BY <2>3, <2>4 DEF u
<1>4. CASE error = Blank /\ u = Effected(r, effect, f.base, T)
  <2>1. f.base \in BasesOf(s) /\ f.base \in Nat
    BY DEF BasedFacts, BasesOf
  <2>2. e \in Entries(s)
    BY <1>1, ObservationOfFact
  <2>3. T \in Streaks(s)
    BY <1>4, NextKept DEF Kept
  <2>4. effect \in {Blank, "AUTO_PUBLISH", "AWAIT_APPROVAL", "RESET", "STALE"}
    BY DEF Effect, terminalEffectForTransition, Terminal
  <2> HIDE DEF e, T, effect
  <2> DEFINE x == Effected(r, effect, f.base, T)
  <2>5. Became(s, t, f.base, e, T, effect, x)
    BY <1>1, <2>1, <2>2, <2>3, <2>4, AcceptedFields
  <2> HIDE DEF x
  <2>6. Became(s, t, f.base, Entry(w, f, Observation(t, w, commit, f)), NextStreak(t, w, commit, f),
               Effect(t, w, commit, f), x)
    BY <2>5 DEF e, T, effect, o
  <2>7. TablesSound(s, x) /\ Follows(t, x)
    BY <1>4, <2>6, AcceptedSound
  <2> QED
    BY <1>4, <2>7 DEF x
<1> QED
  BY <1>2, <1>3, <1>4, GovernedCases

\* One commit after the other, and one fact after the other.
LEMMA FollowsOn ==
  ASSUME NEW s, NEW t \in AllTables(s), NEW u \in AllTables(s), NEW v \in AllTables(s),
         Follows(t, u), Follows(u, v)
  PROVE  Follows(t, v)
<1>1. /\ Len(t.log) \in Nat /\ Len(u.log) \in Nat /\ Len(v.log) \in Nat
      /\ DOMAIN t.streaks = BasesOf(s) /\ DOMAIN u.streaks = BasesOf(s)
      /\ DOMAIN t.candidates = BasesOf(s) /\ DOMAIN u.candidates = BasesOf(s)
  BY DEF AllTables
<1>2. Len(t.log) <= Len(v.log)
  BY <1>1 DEF Follows
<1>3. ASSUME NEW b \in BasesOf(s) PROVE Advances(t.streaks[b].disposition, v.streaks[b].disposition)
  BY <1>1 DEF Follows, Advances
<1>4. ASSUME NEW b \in BasesOf(s) PROVE Asks(t.candidates[b], v.candidates[b])
  <2>1. Asks(t.candidates[b], u.candidates[b]) /\ Asks(u.candidates[b], v.candidates[b])
    BY <1>1 DEF Follows
  <2> QED
    BY <2>1 DEF Asks, Blank
<1> QED
  BY <1>1, <1>2, <1>3, <1>4 DEF Follows

\* All the facts of a commit.
LEMMA CommitSound ==
  ASSUME setting.versions \in Nat, TablesSound(setting, Tables), NEW w \in Instances,
         NEW commit \in Instances \X Nat, NEW facts \in Seq(BasedFacts(setting))
  PROVE  /\ TablesSound(setting, AfterFacts(w, commit, facts))
         /\ Follows(Tables, AfterFacts(w, commit, facts))
<1> DEFINE s == setting
<1>2. Len(facts) \in Nat
  OBVIOUS
<1>1. PICK after :
        /\ after = [k \in 0..Len(facts) |->
                      IF k = 0 THEN Tables ELSE Governed(after[k - 1], w, commit, facts[k])]
        /\ AfterFacts(w, commit, facts) = after[Len(facts)]
  BY <1>2, FactsGoverned
<1> DEFINE P == {k \in Nat : k <= Len(facts) => TablesSound(s, after[k]) /\ Follows(Tables, after[k])}
<1>3. 0 \in P
  <2>1. after[0] = Tables
    BY <1>1, <1>2
  <2> QED
    BY <2>1, FollowsItself
<1>4. ASSUME NEW k \in Nat, k \in P PROVE k + 1 \in P
  <2> SUFFICES ASSUME k + 1 <= Len(facts)
               PROVE  TablesSound(s, after[k + 1]) /\ Follows(Tables, after[k + 1])
    OBVIOUS
  <2>1. TablesSound(s, after[k]) /\ Follows(Tables, after[k])
    BY <1>2, <1>4
  <2>2. after[k + 1] = Governed(after[k], w, commit, facts[k + 1])
    <3>1. k + 1 \in 0..Len(facts) /\ k + 1 # 0 /\ (k + 1) - 1 = k
      BY <1>2
    <3> QED
      BY <1>1, <3>1
  <2>3. facts[k + 1] \in BasedFacts(s)
    BY <1>2
  <2>4. TablesSound(s, after[k + 1]) /\ Follows(after[k], after[k + 1])
    BY <2>1, <2>2, <2>3, GovernedSound DEF Instances
  <2>5. Tables \in AllTables(s) /\ after[k] \in AllTables(s) /\ after[k + 1] \in AllTables(s)
    BY <2>1, <2>4 DEF TablesSound
  <2> QED
    BY <2>1, <2>4, <2>5, FollowsOn
<1>5. \A k \in Nat : k \in P
  <2> HIDE DEF P
  <2> QED
    BY <1>3, <1>4, EveryNumber
<1> QED
  BY <1>1, <1>2, <1>5

-----------------------------------------------------------------------------
(* What a reviewer and an editor make of the tables.                       *)

\* Tables that hold the same are as sound.
LEMMA SameTables ==
  ASSUME NEW s, NEW t, TablesSound(s, t), NEW u, u \in AllTables(s),
         u.log = t.log, u.streaks = t.streaks, u.effects = t.effects, u.candidates = t.candidates, u.node = t.node
  PROVE  TablesSound(s, u)
BY DEF TablesSound, BaseSound

\* The sequence of a rejection is logged, whatever becomes of the rejection.
LEMMA RejectionLogged ==
  ASSUME NEW s, NEW t, TablesSound(s, t), NEW e \in Entries(s), e.outcome = "REJECTION", e.candidate = Blank,
         NEW u, u \in AllTables(s),
         u.log = Append(t.log, e), u.streaks = t.streaks, u.effects = t.effects, u.candidates = t.candidates,
         u.node = t.node
  PROVE  TablesSound(s, u)
<1>1. t \in AllTables(s) /\ VersionsInOrder(t.node) /\ \A b \in BasesOf(s) : BaseSound(t, b)
  BY DEF TablesSound
<1>2. t.log \in Seq(Entries(s)) /\ t.streaks \in [BasesOf(s) -> Streaks(s)]
  BY <1>1 DEF AllTables
<1>3. ASSUME NEW b \in BasesOf(s) PROVE BaseSound(u, b)
  <2>1. BaseSound(t, b)
    BY <1>1
  <2>2. Kept(s, t.streaks[b], b, t.log)
    BY <1>2, <2>1 DEF BaseSound, Kept
  <2>3. Kept(s, t.streaks[b], b, Append(t.log, e))
    BY <1>2, <2>2, LongerLog
  <2> QED
    BY <2>1, <2>3 DEF BaseSound, Kept
<1> QED
  BY <1>1, <1>3 DEF TablesSound

\* The versions of the element target, with one more.
Grown(n, v, m) ==
  /\ n.versions \in Seq(VersionRecords) /\ n.revision \in Nat /\ VersionsInOrder(n)
  /\ v \in VersionRecords /\ v.base = Len(n.versions)
  /\ m.revision = n.revision + 1 /\ m.versions = Append(n.versions, v)

\* The versions stay in their order.
LEMMA OneVersionMore ==
  ASSUME NEW n, NEW v, NEW m, Grown(n, v, m)
  PROVE  /\ VersionsInOrder(m) /\ Len(m.versions) = Len(n.versions) + 1 /\ Len(n.versions) \in Nat
         /\ m.versions[Len(n.versions) + 1] = v
         /\ \A k \in 1..Len(n.versions) : m.versions[k] = n.versions[k]
<1> DEFINE old == n.versions
           more == m.versions
<1>1. /\ Len(old) \in Nat /\ Len(more) = Len(old) + 1 /\ more[Len(old) + 1] = v
      /\ \A k \in 1..Len(old) : more[k] = old[k]
  BY DEF Grown
<1>2. Len(old) >= 1 /\ n.revision = Len(old) /\ \A k \in 2..Len(old) : old[k].base = k - 1
  BY DEF VersionsInOrder, Grown
<1>3. ASSUME NEW k \in 2..Len(more) PROVE more[k].base = k - 1
  <2>1. CASE k = Len(old) + 1
    BY <1>1, <2>1 DEF Grown
  <2>2. CASE k # Len(old) + 1
    <3>1. k \in 2..Len(old)
      BY <1>1, <2>2
    <3> QED
      BY <1>1, <1>2, <3>1
  <2> QED
    BY <2>1, <2>2
<1>4. Len(more) >= 1 /\ m.revision = Len(more)
  BY <1>1, <1>2 DEF Grown
<1> QED
  BY <1>1, <1>3, <1>4 DEF VersionsInOrder

\* An edit by hand answers to no decision.
LEMMA EditedTables ==
  ASSUME NEW s, NEW t, TablesSound(s, t), NEW u, u \in AllTables(s),
         u.log = t.log, u.streaks = t.streaks, u.effects = t.effects, u.candidates = t.candidates,
         u.node.revision = t.node.revision + 1,
         u.node.versions = Append(t.node.versions, Version("manual", Len(t.node.versions), Blank))
  PROVE  TablesSound(s, u)
<1> DEFINE v == Version("manual", Len(t.node.versions), Blank)
           old == t.node.versions
           more == u.node.versions
<1>1. t \in AllTables(s) /\ VersionsInOrder(t.node) /\ \A b \in BasesOf(s) : BaseSound(t, b)
  BY DEF TablesSound
<1>2. old \in Seq(VersionRecords) /\ t.node.revision \in Nat /\ Len(old) \in Nat
  BY <1>1 DEF AllTables
<1>3. v \in VersionRecords /\ v.base = Len(old) /\ v.source = "manual"
  BY <1>2 DEF Version, VersionRecords, Named
<1> HIDE DEF v
<1>4. /\ VersionsInOrder(u.node) /\ Len(more) = Len(old) + 1 /\ more[Len(old) + 1] = v
      /\ \A k \in 1..Len(old) : more[k] = old[k]
  <2>1. more = Append(old, v)
    BY DEF v
  <2>2. Grown(t.node, v, u.node)
    BY <1>1, <1>2, <1>3, <2>1 DEF Grown
  <2> QED
    BY <2>2, OneVersionMore
<1>5. ASSUME NEW b \in BasesOf(s) PROVE BaseSound(u, b)
  <2>1. BaseSound(t, b) /\ b \in Nat /\ b >= 1
    BY <1>1 DEF BasesOf
  <2>2. VersionsFit(old, b, t.streaks[b], t.candidates[b])
    BY <2>1 DEF BaseSound
  <2>3. b < Len(old) => more[b + 1] = old[b + 1]
    BY <1>2, <1>4, <2>1
  <2>4. ASSUME NEW source, source \in {"auto", "review"} PROVE Follower(more, b, source) <=> Follower(old, b, source)
    <3>1. CASE b = Len(old)
      <4>1. more[b + 1].source = "manual"
        BY <1>3, <1>4, <3>1
      <4> QED
        BY <1>2, <2>4, <3>1, <4>1 DEF Follower
    <3>2. CASE b # Len(old)
      <4>1. b < Len(more) <=> b < Len(old)
        BY <1>2, <1>4, <2>1, <3>2
      <4> QED
        BY <2>3, <4>1 DEF Follower
    <3> QED
      BY <3>1, <3>2
  <2>5. t.streaks[b].disposition = "AUTO_PUBLISH" \/ t.candidates[b].status = "PROMOTED" => b < Len(old)
    BY <2>2 DEF VersionsFit, Follower
  <2>6. VersionsFit(more, b, t.streaks[b], t.candidates[b])
    BY <2>2, <2>3, <2>4, <2>5 DEF VersionsFit
  <2> QED
    BY <2>1, <2>6 DEF BaseSound
<1> QED
  BY <1>4, <1>5 DEF TablesSound

\* An approval makes the version of the candidate that waited.
Approves(s, t, u) ==
  /\ s.versions \in Nat \ {0} /\ TablesSound(s, t) /\ u \in AllTables(s)
  /\ Len(t.node.versions) = Reviewed /\ t.candidates[Reviewed].status = "AWAITING_APPROVAL"
  /\ u.log = t.log /\ u.streaks = t.streaks /\ u.effects = t.effects
  /\ u.candidates = [t.candidates EXCEPT ![Reviewed] = Review(t.candidates[Reviewed], "PROMOTED")]
  /\ u.node.revision = t.node.revision + 1
  /\ u.node.versions = Append(t.node.versions, Version("review", Reviewed, t.candidates[Reviewed].hash))

\* The tables stay sound when an approval is stored.
LEMMA ApprovedTables ==
  ASSUME NEW s, NEW t, NEW u, Approves(s, t, u)
  PROVE  TablesSound(s, u) /\ u.candidates[Reviewed].status = "PROMOTED" /\ u.candidates[Reviewed].revision = 2
         /\ u.candidates[Reviewed].hash = t.candidates[Reviewed].hash
<1> USE DEF Approves
<1> DEFINE c == t.candidates[Reviewed]
           v == Version("review", Reviewed, c.hash)
           old == t.node.versions
           more == u.node.versions
           d == Review(c, "PROMOTED")
<1>1. t \in AllTables(s) /\ VersionsInOrder(t.node) /\ \A b \in BasesOf(s) : BaseSound(t, b)
  BY DEF TablesSound
<1>2. /\ old \in Seq(VersionRecords) /\ t.node.revision \in Nat
      /\ t.candidates \in [BasesOf(s) -> CandidateRecords]
  BY <1>1 DEF AllTables
<1>3. Reviewed \in BasesOf(s) /\ Reviewed = 1
  BY DEF Reviewed, BasesOf
<1>4. c \in CandidateRecords
  BY <1>2, <1>3
<1>5. v \in VersionRecords /\ v.base = Len(old) /\ v.source = "review"
  BY <1>3, <1>4 DEF Version, VersionRecords, CandidateRecords
<1>6. d.status = "PROMOTED" /\ d.hash = c.hash /\ d.revision = c.revision + 1
  BY <1>4 DEF Review, CandidateRecords
<1>7. BaseSound(t, Reviewed) /\ CandidateFits(c, t.streaks[Reviewed])
  BY <1>1, <1>3 DEF BaseSound
<1>8. c.revision = 1 /\ t.streaks[Reviewed].disposition = "AWAIT_APPROVAL" /\ c.hash = t.streaks[Reviewed].candidate
  BY <1>7 DEF CandidateFits, Blank
<1>9. u.candidates[Reviewed] = d /\ \A b \in BasesOf(s) : b # Reviewed => u.candidates[b] = t.candidates[b]
  BY <1>2, <1>3
<1>10. v = Version("review", Reviewed, d.hash)
  BY <1>6
<1> HIDE DEF v, c, d
<1>11. /\ VersionsInOrder(u.node) /\ Len(more) = 2 /\ more[2] = v
  <2>1. more = Append(old, v)
    BY DEF v, c
  <2>2. Grown(t.node, v, u.node)
    BY <1>1, <1>2, <1>5, <2>1 DEF Grown
  <2>4. /\ VersionsInOrder(u.node) /\ Len(more) = Len(old) + 1 /\ more[Len(old) + 1] = v
    BY <2>2, OneVersionMore
  <2>3. Len(old) = 1
    BY <1>3
  <2> QED
    BY <2>3, <2>4
<1>12. BaseSound(u, Reviewed)
  <2>1. CandidateFits(d, t.streaks[Reviewed])
    BY <1>6, <1>8 DEF CandidateFits
  <2>2. Follower(more, Reviewed, "review") /\ ~Follower(more, Reviewed, "auto")
    BY <1>3, <1>5, <1>11 DEF Follower
  <2>3. VersionsFit(more, Reviewed, t.streaks[Reviewed], d)
    BY <1>3, <1>6, <1>8, <1>10, <1>11, <2>2 DEF VersionsFit
  <2> QED
    BY <1>7, <1>9, <2>1, <2>3 DEF BaseSound
<1>13. ASSUME NEW b \in BasesOf(s), b # Reviewed PROVE BaseSound(u, b)
  <2>1. BaseSound(t, b) /\ b \in Nat /\ b >= 2
    BY <1>1, <1>3, <1>13 DEF BasesOf
  <2>2. VersionsFit(old, b, t.streaks[b], t.candidates[b])
    BY <2>1 DEF BaseSound
  <2>3. ~(b < Len(old)) /\ ~(b < Len(more))
    BY <1>3, <1>11, <2>1
  <2>4. VersionsFit(more, b, t.streaks[b], t.candidates[b])
    BY <2>2, <2>3 DEF VersionsFit, Follower
  <2> QED
    BY <1>9, <1>13, <2>1, <2>4 DEF BaseSound
<1> QED
  BY <1>6, <1>8, <1>9, <1>11, <1>12, <1>13 DEF TablesSound, c

\* A rejection ends the streak whose candidate waited.
Rejects(s, t, sequence, u) ==
  /\ s.versions \in Nat \ {0} /\ TablesSound(s, t) /\ u \in AllTables(s)
  /\ t.candidates[Reviewed].status = "AWAITING_APPROVAL"
  /\ sequence \in Nat /\ sequence > t.streaks[Reviewed].lastSequence /\ sequence <= Len(t.log)
  /\ u.log = t.log /\ u.effects = t.effects /\ u.node = t.node
  /\ u.streaks = [t.streaks EXCEPT ![Reviewed] = Reject(t.streaks[Reviewed], sequence)]
  /\ u.candidates = [t.candidates EXCEPT ![Reviewed] = Review(t.candidates[Reviewed], "REJECTED")]

\* The tables stay sound when a rejection is stored.
LEMMA RejectedTables ==
  ASSUME NEW s, NEW t, NEW sequence, NEW u, Rejects(s, t, sequence, u)
  PROVE  TablesSound(s, u) /\ u.candidates[Reviewed].status = "REJECTED" /\ u.candidates[Reviewed].revision = 2
         /\ StreakValid(u.streaks[Reviewed]) /\ u.streaks[Reviewed].disposition = "REJECTED"
         /\ u.streaks[Reviewed].candidate = u.candidates[Reviewed].hash
         /\ t.streaks[Reviewed].disposition = "AWAIT_APPROVAL"
         /\ \A b \in BasesOf(s) : b # Reviewed => u.streaks[b] = t.streaks[b]
<1> USE DEF Rejects
<1> DEFINE c == t.candidates[Reviewed]
           d == Review(c, "REJECTED")
           k == t.streaks[Reviewed]
           T == Reject(k, sequence)
           versions == t.node.versions
<1>1. t \in AllTables(s) /\ VersionsInOrder(t.node) /\ \A b \in BasesOf(s) : BaseSound(t, b)
  BY DEF TablesSound
<1>2. /\ t.streaks \in [BasesOf(s) -> Streaks(s)] /\ t.candidates \in [BasesOf(s) -> CandidateRecords]
  BY <1>1 DEF AllTables
<1>3. Reviewed \in BasesOf(s)
  BY DEF Reviewed, BasesOf
<1>4. c \in CandidateRecords /\ k \in Streaks(s)
  BY <1>2, <1>3
<1>6. d.status = "REJECTED" /\ d.hash = c.hash /\ d.revision = c.revision + 1
  BY <1>4 DEF Review, CandidateRecords
<1>7. BaseSound(t, Reviewed) /\ CandidateFits(c, k) /\ VersionsFit(versions, Reviewed, k, c)
  BY <1>1, <1>3 DEF BaseSound
<1>8. c.revision = 1 /\ k.disposition = "AWAIT_APPROVAL" /\ c.hash = k.candidate
  BY <1>7 DEF CandidateFits, Blank
<1>9. /\ u.candidates[Reviewed] = d /\ u.streaks[Reviewed] = T
      /\ \A b \in BasesOf(s) : b # Reviewed => u.candidates[b] = t.candidates[b] /\ u.streaks[b] = t.streaks[b]
  BY <1>2, <1>3
<1> HIDE DEF c, d, k, T
<1>10. Kept(s, k, Reviewed, t.log)
  BY <1>4, <1>7 DEF BaseSound, Kept, k
<1>11. /\ Kept(s, T, Reviewed, t.log) /\ StreakValid(T)
       /\ T.disposition = "REJECTED" /\ T.candidate = k.candidate
  <2>1. sequence > k.lastSequence
    BY DEF k
  <2> QED
    BY <1>8, <1>10, <2>1, RejectKept DEF T
<1>12. BaseSound(u, Reviewed)
  <2>1. CandidateFits(d, T)
    BY <1>6, <1>8, <1>11 DEF CandidateFits
  <2>2. VersionsFit(versions, Reviewed, T, d)
    BY <1>6, <1>7, <1>8, <1>11 DEF VersionsFit, c
  <2>3. validateExistingHealEffect(t.effects[Reviewed], T)
    BY <1>11 DEF validateExistingHealEffect, Terminal
  <2> QED
    BY <1>9, <1>11, <2>1, <2>2, <2>3 DEF BaseSound, Kept
<1>13. ASSUME NEW b \in BasesOf(s), b # Reviewed PROVE BaseSound(u, b)
  BY <1>1, <1>9, <1>13 DEF BaseSound
<1> QED
  BY <1>1, <1>6, <1>8, <1>9, <1>11, <1>12, <1>13 DEF TablesSound, k

-----------------------------------------------------------------------------
(* Workers.                                                                *)

\* The setting of a run is the one it started with.
LEMMA SettingStays ==
  ASSUME setting' = setting
  PROVE  /\ Instances' = Instances /\ Calls' = Calls /\ MaxCommits' = MaxCommits /\ MaxVersions' = MaxVersions
         /\ WorkerRecords(setting)' = WorkerRecords(setting) /\ CallRecords(setting)' = CallRecords(setting)
         /\ Bases' = Bases
BY DEF Instances, Calls, MaxCommits, MaxVersions, Bases

\* What workers hold, they hold when nothing of theirs changes.
LEMMA WorkersSame ==
  ASSUME WorkersSound, UNCHANGED <<setting, step, worker, replays>>
  PROVE  WorkersSound'
<1>1. \A w : CommitsOf(w)' = CommitsOf(w) /\ CommitOf(w)' = CommitOf(w)
  BY DEF CommitsOf, CommitOf, MaxCommits
<1> QED
  BY <1>1, SettingStays DEF WorkersSound, WorkerHolds

\* The worker w is answered a.
Reanswered(w, a) ==
  /\ worker' \in [Instances -> WorkerRecords(setting)]
  /\ worker'[w].n = worker[w].n /\ worker'[w].sent = worker[w].sent /\ worker'[w].answer = a
  /\ \A v \in Instances : v # w => worker'[v] = worker[v]
  /\ CommitOf(w) \in DOMAIN replays => a \in Settled

\* What workers hold, they hold when one of them is answered.
LEMMA AnswerKept ==
  ASSUME WorkersSound, UNCHANGED <<setting, step, replays>>, NEW w \in Instances, NEW a, Reanswered(w, a)
  PROVE  WorkersSound'
<1>1. \A v \in Instances : CommitsOf(v)' = CommitsOf(v) /\ CommitOf(v)' = CommitOf(v)
  BY DEF CommitsOf, CommitOf, MaxCommits, Reanswered
<1>2. ASSUME NEW v \in Instances PROVE WorkerHolds(v)'
  <2>1. WorkerHolds(v)
    BY DEF WorkersSound
  <2> QED
    BY <1>1, <2>1 DEF WorkerHolds, Reanswered
<1> QED
  BY <1>2, SettingStays DEF WorkersSound, Reanswered

Allowed == Answers \ {"sequenceConflict", "effectConflict", "identityConflict"}

\* An answer alone (Answered).
LEMMA AnswerGiven ==
  ASSUME WorkersSound, NEW w \in Instances, NEW a \in Allowed, Answered(w, a),
         CommitOf(w) \in DOMAIN replays => a \in Settled
  PROVE  Reanswered(w, a)
<1>1. worker \in [Instances -> WorkerRecords(setting)] /\ worker[w] \in WorkerRecords(setting)
  BY DEF WorkersSound
<1>2. worker' = [worker EXCEPT ![w].answer = a]
  BY DEF Answered
<1>3. [worker[w] EXCEPT !.answer = a] \in WorkerRecords(setting)
  BY <1>1 DEF WorkerRecords, Allowed
<1> QED
  BY <1>1, <1>2, <1>3 DEF Reanswered, WorkerRecords

\* An answer with the revision that was recorded.
LEMMA AnswerKnown ==
  ASSUME WorkersSound, NEW w \in Instances, NEW a \in Allowed, NEW known \in Nat,
         worker' = [worker EXCEPT ![w].answer = a, ![w].known = known],
         CommitOf(w) \in DOMAIN replays => a \in Settled
  PROVE  Reanswered(w, a)
<1>1. worker \in [Instances -> WorkerRecords(setting)] /\ worker[w] \in WorkerRecords(setting)
  BY DEF WorkersSound
<1>3. [worker[w] EXCEPT !.answer = a, !.known = known] \in WorkerRecords(setting)
  BY <1>1 DEF WorkerRecords, Allowed
<1>4. /\ worker'[w] = [worker[w] EXCEPT !.answer = a, !.known = known]
      /\ \A v \in Instances : v # w => worker'[v] = worker[v]
      /\ worker' \in [Instances -> WorkerRecords(setting)]
  BY <1>1, <1>3
<1> QED
  BY <1>1, <1>4 DEF Reanswered, WorkerRecords

Stand == \A b \in Bases : Advances(streaks[b].disposition, streaks'[b].disposition)
tables == <<log, streaks, effects, candidates, node>>

\* Tables that stay are sound.
LEMMA TablesSame ==
  ASSUME GovernanceSound, UNCHANGED <<setting, tables>>
  PROVE  /\ (setting \in Settings /\ Len(node.versions) <= MaxVersions /\ TablesSound(setting, Tables))'
         /\ Stand
<1>1. Tables' = Tables /\ MaxVersions' = MaxVersions
  BY DEF Tables, tables, MaxVersions
<1>2. Stand
  BY DEF Stand, Advances, tables
<1> QED
  BY <1>1, <1>2 DEF GovernanceSound, tables

\* What reviewers hold, they hold when the log grows and a candidate begins to wait.
LEMMA ReviewersKept ==
  ASSUME ReviewersSound, UNCHANGED <<setting, shown, call, reviews>>,
         Len(log) \in Nat, Len(log') \in Nat, Len(log) <= Len(log'), Asks(candidates[Reviewed], candidates'[Reviewed])
  PROVE  ReviewersSound'
<1>1. ASSUME NEW k \in DOMAIN reviews PROVE ReviewHolds(k)'
  <2>1. ReviewHolds(k)
    BY DEF ReviewersSound
  <2>2. candidates'[Reviewed] = candidates[Reviewed]
    BY <2>1, DecisionAssumption DEF ReviewHolds, Status, Asks, Blank
  <2> QED
    BY <2>1, <2>2 DEF ReviewHolds, validateHealReviewReplay
<1>2. ASSUME NEW c \in Calls PROVE CallHolds(c)'
  <2>1. CallHolds(c) /\ call[c] \in CallRecords(setting)
    BY DEF ReviewersSound
  <2> QED
    BY <2>1 DEF CallHolds, CallRecords
<1>3. candidates'[Reviewed].status \in {"PROMOTED", "REJECTED"} => DOMAIN reviews # {}
  BY DEF ReviewersSound, Asks
<1> QED
  BY <1>1, <1>2, <1>3, SettingStays DEF ReviewersSound

\* What reviewers hold, they hold when the tables stay.
LEMMA ReviewersSame ==
  ASSUME GovernanceSound, UNCHANGED <<setting, shown, call, reviews, tables>>
  PROVE  ReviewersSound'
<1>1. Len(log) \in Nat
  BY DEF GovernanceSound, TablesSound, AllTables, Tables
<1>2. Asks(candidates[Reviewed], candidates'[Reviewed]) /\ Len(log') = Len(log)
  BY DEF Asks, tables
<1> QED
  BY <1>1, <1>2, ReviewersKept DEF GovernanceSound

\* A step of a worker that leaves the tables.
LEMMA WorkerMoves ==
  ASSUME GovernanceSound, UNCHANGED <<setting, shown, call, reviews, tables>>, WorkersSound'
  PROVE  GovernanceSound' /\ Stand
BY TablesSame, ReviewersSame DEF GovernanceSound

\* The facts that are sent.
LEMMA SentFacts ==
  ASSUME GovernanceSound, NEW p \in setting.payloads, NEW b \in 1..Current
  PROVE  [p EXCEPT !.facts = [k \in DOMAIN @ |-> Based(@[k], b)]] \in Sents(setting)
<1> DEFINE facts == [k \in DOMAIN p.facts |-> Based(p.facts[k], b)]
<1>1. p \in Reports /\ setting.versions \in Nat
  BY SettingsAssumption DEF GovernanceSound
<1>2. b \in BasesOf(setting)
  <2>1. Current \in Nat /\ Current <= setting.versions
    BY DEF GovernanceSound, TablesSound, AllTables, Tables, MaxVersions, Current
  <2> QED
    BY <1>1, <2>1 DEF BasesOf
<1>3. facts \in Seq(BasedFacts(setting))
  <2>1. p.facts \in Seq(Facts)
    BY <1>1 DEF Reports
  <2>2. ASSUME NEW f \in Facts PROVE Based(f, b) \in BasedFacts(setting)
    BY <1>2 DEF Facts, Based, BasedFacts, Outcomes, Named, Bands
  <2>3. \A k \in DOMAIN p.facts : p.facts[k] \in Facts
    BY <2>1
  <2> HIDE DEF Facts
  <2>4. Len(p.facts) \in Nat /\ DOMAIN p.facts = 1..Len(p.facts)
    BY <2>1
  <2>5. \A k \in 1..Len(p.facts) : Based(p.facts[k], b) \in BasedFacts(setting)
    BY <2>2, <2>3, <2>4
  <2> QED
    BY <2>4, <2>5
<1> HIDE DEF facts
<1>4. [p EXCEPT !.facts = facts] \in Sents(setting)
  BY <1>1, <1>3 DEF Sents, Reports
<1> QED
  BY <1>4 DEF facts

\* A worker sends a commit (Send).
LEMMA SendSound ==
  ASSUME GovernanceSound, UNCHANGED setting, NEW w \in Instances, Send(w)
  PROVE  GovernanceSound' /\ Stand
<1>1. PICK p \in setting.payloads, b \in 1..Current :
        worker' = [worker EXCEPT ![w] =
          [n |-> @.n + 1, known |-> @.known, answer |-> Blank,
           sent |-> [p EXCEPT !.facts = [k \in DOMAIN @ |-> Based(@[k], b)]]]]
  BY DEF Send
<1> DEFINE sent == [p EXCEPT !.facts = [k \in DOMAIN @ |-> Based(@[k], b)]]
<1>2. sent \in Sents(setting)
  BY SentFacts
<1> HIDE DEF sent
<1> DEFINE r == [n |-> worker[w].n + 1, known |-> worker[w].known, answer |-> Blank, sent |-> sent]
<1>3. worker' = [worker EXCEPT ![w] = r]
  BY <1>1 DEF sent
<1>4. worker \in [Instances -> WorkerRecords(setting)] /\ worker[w].n < MaxCommits /\ MaxCommits \in Nat
  BY SettingsAssumption DEF Send, GovernanceSound, WorkersSound, MaxCommits
<1>5. r \in WorkerRecords(setting) /\ r.n = worker[w].n + 1
  <2>1. worker[w].n \in Nat /\ worker[w].known \in Nat
    BY <1>4 DEF WorkerRecords, MaxCommits
  <2>2. worker[w].n + 1 \in 0..setting.commits
    BY <1>4, <2>1 DEF MaxCommits
  <2> QED
    BY <1>2, <2>1, <2>2 DEF WorkerRecords, Answers, Blank
<1> HIDE DEF r
<1>6. /\ worker'[w] = r /\ worker' \in [Instances -> WorkerRecords(setting)]
      /\ \A v \in Instances : v # w => worker'[v] = worker[v]
  BY <1>3, <1>4, <1>5
<1>7. UNCHANGED <<step, replays>>
  BY DEF Send
<1>8. ASSUME NEW v \in Instances PROVE WorkerHolds(v)'
  <2>1. WorkerHolds(v) /\ CommitsOf(v)' = CommitsOf(v) /\ worker[v].n \in Nat
    BY <1>4, <1>7, SettingStays DEF GovernanceSound, WorkersSound, CommitsOf, WorkerRecords
  <2>2. CASE v = w
    <3>1. CommitOf(v)' \notin DOMAIN replays
      BY <1>5, <1>6, <2>1, <2>2 DEF WorkerHolds, CommitOf
    <3> QED
      BY <1>5, <1>6, <1>7, <2>1, <2>2, <3>1 DEF WorkerHolds
  <2>3. CASE v # w
    BY <1>6, <1>7, <2>1, <2>3 DEF WorkerHolds, CommitOf
  <2> QED
    BY <2>2, <2>3
<1>9. WorkersSound'
  BY <1>6, <1>7, <1>8, SettingStays DEF WorkersSound, GovernanceSound
<1> QED
  BY <1>9, WorkerMoves DEF Send, tables

\* The transaction of a commit fails (Rollback).
LEMMA RollbackSound ==
  ASSUME GovernanceSound, UNCHANGED setting, NEW w \in Instances, Rollback(w)
  PROVE  GovernanceSound' /\ Stand
<1>1. Reanswered(w, "lost")
  BY AnswerGiven DEF GovernanceSound, Rollback, Allowed, Answers, Settled
<1> QED
  BY <1>1, AnswerKept, WorkerMoves DEF GovernanceSound, Rollback, tables

\* A claim ends under its worker (Lapse).
LEMMA LapseSound ==
  ASSUME GovernanceSound, UNCHANGED setting, NEW w \in Instances, Lapse(w)
  PROVE  GovernanceSound' /\ Stand
<1>1. step \in [Instances -> [revision : Nat, live : BOOLEAN]]
  BY DEF GovernanceSound, WorkersSound
<1>2. /\ step' \in [Instances -> [revision : Nat, live : BOOLEAN]]
      /\ \A v \in Instances : step'[v].revision = step[v].revision
  BY <1>1 DEF Lapse
<1>3. ASSUME NEW v \in Instances PROVE WorkerHolds(v)'
  <2>1. WorkerHolds(v) /\ CommitsOf(v)' = CommitsOf(v)
    BY SettingStays DEF GovernanceSound, WorkersSound, CommitsOf, Lapse
  <2> QED
    BY <1>2, <2>1 DEF WorkerHolds, CommitOf, Lapse
<1>4. WorkersSound'
  BY <1>2, <1>3, SettingStays DEF WorkersSound, GovernanceSound, Lapse
<1> QED
  BY <1>4, WorkerMoves DEF Lapse, tables

\* One commit more is recorded.
LEMMA Recorded ==
  ASSUME WorkersSound, UNCHANGED setting, MaxCommits \in Nat, NEW w \in Instances, worker[w].n > 0,
         CommitOf(w) \notin DOMAIN replays, CommitError(worker[w].sent) = Blank,
         step' = [step EXCEPT ![w].revision = step[w].revision + 1],
         replays' = Noted(replays, CommitOf(w), [payload |-> worker[w].sent, revision |-> step[w].revision + 1]),
         NEW a \in {"applied", "lost"}, Reanswered(w, a)
  PROVE  WorkersSound'
<1> DEFINE n == worker[w].n
           result == [payload |-> worker[w].sent, revision |-> step[w].revision + 1]
<1>1. /\ step \in [Instances -> [revision : Nat, live : BOOLEAN]]
      /\ worker[w] \in WorkerRecords(setting) /\ n \in 1..MaxCommits
  BY DEF WorkersSound, WorkerRecords, MaxCommits
<1>2. /\ step' \in [Instances -> [revision : Nat, live : BOOLEAN]]
      /\ step'[w].revision = step[w].revision + 1
      /\ \A v \in Instances : v # w => step'[v].revision = step[v].revision
  BY <1>1
<1>3. /\ DOMAIN replays' = DOMAIN replays \union {CommitOf(w)}
      /\ replays'[CommitOf(w)] = result
      /\ \A x \in DOMAIN replays : replays'[x] = replays[x]
  BY DEF Noted
<1>4. \A v \in Instances : CommitOf(v)' = CommitOf(v)
  BY DEF CommitOf, Reanswered
<1> HIDE DEF n
<1>5. WorkerHolds(w)'
  <2>1. WorkerHolds(w)
    BY DEF WorkersSound
  <2>2. CommitsOf(w)' = CommitsOf(w) \union {n} /\ n \notin CommitsOf(w)
    BY <1>1, <1>3, SettingStays DEF CommitsOf, CommitOf, n
  <2>3. IsFiniteSet(CommitsOf(w))
    <3>1. IsFiniteSet(1..MaxCommits)
      BY FS_Interval
    <3>2. CommitsOf(w) \subseteq 1..MaxCommits
      BY DEF CommitsOf
    <3> QED
      BY <3>1, <3>2, FS_Subset
  <2>4. Cardinality(CommitsOf(w)') = Cardinality(CommitsOf(w)) + 1 /\ Cardinality(CommitsOf(w)) \in Nat
    BY <2>2, <2>3, FS_AddElement, FS_CardinalityType
  <2>5. step'[w].revision = 1 + Cardinality(CommitsOf(w))'
    BY <1>2, <2>1, <2>4 DEF WorkerHolds
  <2>6. ASSUME NEW m \in Nat, <<w, m>> \in DOMAIN replays'
        PROVE  m <= worker'[w].n /\ replays'[<<w, m>>].revision \in Nat
    <3>1. CASE <<w, m>> \in DOMAIN replays
      BY <1>3, <2>1, <3>1 DEF WorkerHolds, Reanswered
    <3>2. CASE <<w, m>> = CommitOf(w)
      <4>1. m = n /\ n \in Nat
        BY <1>1, <3>2 DEF CommitOf, n
      <4>2. replays'[<<w, m>>].revision = step[w].revision + 1
        BY <1>3, <3>2
      <4> QED
        BY <1>1, <4>1, <4>2 DEF Reanswered, n
    <3> QED
      BY <1>3, <2>6, <3>1, <3>2
  <2>7. worker'[w].answer \in Settled /\ worker'[w].sent = worker[w].sent /\ replays'[CommitOf(w)].payload = worker[w].sent
    BY <1>3 DEF Reanswered, Settled
  <2> QED
    BY <1>4, <2>5, <2>6, <2>7 DEF WorkerHolds
<1>6. ASSUME NEW v \in Instances, v # w PROVE WorkerHolds(v)'
  <2>1. WorkerHolds(v) /\ worker'[v] = worker[v] /\ CommitOf(v)' = CommitOf(v)
    BY <1>4, <1>6 DEF WorkersSound, Reanswered
  <2>2. \A m : <<v, m>> \in DOMAIN replays' <=> <<v, m>> \in DOMAIN replays
    BY <1>3, <1>6 DEF CommitOf
  <2>3. CommitsOf(v)' = CommitsOf(v)
    BY <2>2, SettingStays DEF CommitsOf
  <2>4. \A m : <<v, m>> \in DOMAIN replays' => replays'[<<v, m>>] = replays[<<v, m>>]
    BY <1>3, <2>2
  <2> QED
    BY <1>2, <1>6, <2>1, <2>2, <2>3, <2>4 DEF WorkerHolds, CommitOf
<1> QED
  BY <1>2, <1>5, <1>6, SettingStays DEF WorkersSound, Reanswered

\* What a worker has sent.
LEMMA SentIsBased ==
  ASSUME NEW w \in Instances, worker[w] \in WorkerRecords(setting), setting.commits \in Nat
  PROVE  worker[w].sent.facts \in Seq(BasedFacts(setting)) /\ CommitOf(w) \in Instances \X Nat
<1>1. worker[w].sent \in Sents(setting) /\ worker[w].n \in Nat
  BY DEF WorkerRecords
<1>2. \A x \in Sents(setting) : x.facts \in Seq(BasedFacts(setting))
  <2>1. NothingSent.facts \in Seq(BasedFacts(setting))
    BY DEF NothingSent
  <2> QED
    BY <2>1 DEF Sents
<1> QED
  BY <1>1, <1>2 DEF CommitOf

\* A commit is stored with all of its facts (Apply).
LEMMA ApplySound ==
  ASSUME GovernanceSound, UNCHANGED <<setting, shown, call, reviews>>, NEW w \in Instances, worker[w].n > 0,
         CommitError(worker[w].sent) = Blank, Apply(w)
  PROVE  GovernanceSound' /\ Stand
<1> DEFINE t == AfterFacts(w, CommitOf(w), worker[w].sent.facts)
<1>1. /\ setting.versions \in Nat /\ setting.commits \in Nat /\ MaxCommits \in Nat /\ worker[w] \in WorkerRecords(setting)
      /\ step[w].revision \in Nat
  BY SettingsAssumption DEF GovernanceSound, WorkersSound, MaxCommits
<1>2. worker[w].sent.facts \in Seq(BasedFacts(setting)) /\ CommitOf(w) \in Instances \X Nat
  BY <1>1, SentIsBased
<1>3. TablesSound(setting, Tables) /\ TablesSound(setting, t) /\ Follows(Tables, t)
  BY <1>1, <1>2, CommitSound DEF GovernanceSound
<1> HIDE DEF t
<1>4. /\ log' = t.log /\ streaks' = t.streaks /\ effects' = t.effects /\ candidates' = t.candidates
      /\ node' = t.node /\ Len(t.node.versions) <= MaxVersions
  BY DEF Apply, t
<1>5. t \in AllTables(setting)
  BY <1>3 DEF TablesSound
<1>6. Tables' \in AllTables(setting)
  BY <1>4, <1>5 DEF AllTables, Tables
<1>7. TablesSound(setting, Tables')
  <2>1. /\ Tables'.log = t.log /\ Tables'.streaks = t.streaks /\ Tables'.effects = t.effects
        /\ Tables'.candidates = t.candidates /\ Tables'.node = t.node
    BY <1>4 DEF Tables
  <2> QED
    BY <1>3, <1>6, <2>1, SameTables
<1>8. /\ Stand /\ Len(log) \in Nat /\ Len(log') \in Nat /\ Len(log) <= Len(log')
      /\ Asks(candidates[Reviewed], candidates'[Reviewed])
  <2>1. /\ DOMAIN streaks = Bases /\ DOMAIN candidates = Bases /\ Reviewed \in Bases
        /\ Len(log) \in Nat /\ Len(log') \in Nat
    <3>1. Tables \in AllTables(setting) /\ setting.versions \in Nat \ {0}
      BY <1>3, SettingsAssumption DEF TablesSound, GovernanceSound
    <3> QED
      BY <1>4, <1>5, <3>1 DEF AllTables, Tables, Bases, BasesOf, MaxVersions, Reviewed
  <2> QED
    BY <1>3, <1>4, <2>1 DEF Follows, Tables, Stand
<1>9. ReviewersSound'
  BY <1>8, ReviewersKept DEF GovernanceSound
<1>10. PICK a \in {"applied", "lost"} : Reanswered(w, a)
  <2>1. CASE worker' = [worker EXCEPT ![w].answer = "applied", ![w].known = step[w].revision + 1]
    <3>1. "applied" \in Allowed /\ "applied" \in Settled /\ step[w].revision + 1 \in Nat
      BY <1>1 DEF Allowed, Answers, Settled
    <3> QED
      BY <2>1, <3>1, AnswerKnown DEF GovernanceSound
  <2>2. CASE Answered(w, "lost")
    <3>1. "lost" \in Allowed /\ "lost" \in Settled
      BY DEF Allowed, Answers, Settled
    <3> QED
      BY <2>2, <3>1, AnswerGiven DEF GovernanceSound
  <2> QED
    BY <2>1, <2>2 DEF Apply
<1>11. WorkersSound'
  <2>1. /\ step' = [step EXCEPT ![w].revision = step[w].revision + 1]
        /\ replays' = Noted(replays, CommitOf(w), [payload |-> worker[w].sent, revision |-> step[w].revision + 1])
        /\ CommitOf(w) \notin DOMAIN replays
    BY DEF Apply
  <2> QED
    BY <1>1, <1>10, <2>1, Recorded DEF GovernanceSound
<1>12. (setting \in Settings /\ Len(node.versions) <= MaxVersions)'
  BY <1>4, SettingStays DEF GovernanceSound
<1> QED
  BY <1>7, <1>8, <1>9, <1>11, <1>12 DEF GovernanceSound

\* A commit is refused, answered from the record, or stored (Transact).
LEMMA TransactSound ==
  ASSUME GovernanceSound, UNCHANGED setting, NEW w \in Instances, Transact(w)
  PROVE  GovernanceSound' /\ Stand
<1>1. /\ worker[w].n > 0 /\ WorkerHolds(w) /\ UNCHANGED <<shown, call, reviews>>
      /\ setting.versions \in Nat /\ setting.commits \in Nat /\ worker[w] \in WorkerRecords(setting)
  BY SettingsAssumption DEF Transact, GovernanceSound, WorkersSound
<1>2. ASSUME NEW error, RefuseCommit(w, error), error \in Allowed, CommitOf(w) \in DOMAIN replays => error \in Settled
      PROVE  GovernanceSound' /\ Stand
  <2>1. Reanswered(w, error)
    BY <1>2, AnswerGiven DEF RefuseCommit, GovernanceSound
  <2> QED
    BY <1>1, <1>2, <2>1, AnswerKept, WorkerMoves DEF RefuseCommit, GovernanceSound, tables
<1>3. CASE RefuseCommit(w, CommitError(worker[w].sent))
  <2>1. CommitError(worker[w].sent) \in Allowed
    BY DEF CommitError, Allowed, Answers, Blank
  <2>2. CommitOf(w) \notin DOMAIN replays
    BY <1>1, <1>3 DEF RefuseCommit, WorkerHolds
  <2> QED
    BY <1>2, <1>3, <2>1, <2>2
<1>4. CASE RefuseCommit(w, TransactionError(w))
  <2>1. TransactionError(w) \in Allowed
    BY <1>1 DEF WorkerHolds, TransactionError, Allowed, Answers, Blank
  <2>2. CommitOf(w) \in DOMAIN replays => TransactionError(w) \in Settled
    BY <1>1, <1>4 DEF RefuseCommit, WorkerHolds, TransactionError, Settled
  <2> QED
    BY <1>2, <1>4, <2>1, <2>2
<1>5. CASE Replay(w)
  <2>1. replays[CommitOf(w)].revision \in Nat
    BY <1>1, <1>5 DEF WorkerHolds, Replay, CommitOf, WorkerRecords
  <2>2. Reanswered(w, "replayed")
    BY <1>5, <2>1, AnswerKnown DEF Replay, GovernanceSound, Allowed, Answers, Settled
  <2> QED
    BY <1>1, <1>5, <2>2, AnswerKept, WorkerMoves DEF Replay, GovernanceSound, tables
<1>6. CASE CommitError(worker[w].sent) = Blank /\ Apply(w)
  BY <1>1, <1>6, ApplySound
<1>7. CASE /\ CommitOf(w) \notin DOMAIN replays
           /\ RefuseCommit(w, AfterFacts(w, CommitOf(w), worker[w].sent.facts).error)
  <2>1. worker[w].sent.facts \in Seq(BasedFacts(setting)) /\ CommitOf(w) \in Instances \X Nat
    BY <1>1, SentIsBased
  <2>2. AfterFacts(w, CommitOf(w), worker[w].sent.facts) \in AllTables(setting)
    BY <1>1, <2>1, CommitSound DEF GovernanceSound, TablesSound
  <2>3. AfterFacts(w, CommitOf(w), worker[w].sent.facts).error \in Allowed
    <3>1. AfterFacts(w, CommitOf(w), worker[w].sent.facts).error \in PlanErrors \union {Blank}
      BY <2>2 DEF AllTables
    <3>2. PlanErrors \union {Blank} \subseteq Allowed
      BY DEF Allowed, Answers, PlanErrors, Blank
    <3> QED
      BY <3>1, <3>2
  <2> QED
    BY <1>2, <1>7, <2>3
<1> QED
  BY <1>3, <1>4, <1>5, <1>6, <1>7 DEF Transact

-----------------------------------------------------------------------------
(* Reviewers.                                                              *)

\* The call c has moved on, and no other.
CallMoved(c) ==
  /\ call' \in [Calls -> CallRecords(setting)]
  /\ \A d \in Calls : d # c => call'[d] = call[d]
  /\ CallHolds(c)'

\* What every call holds, when one of them moves on.
LEMMA CallsHold ==
  ASSUME ReviewersSound, setting' = setting, DOMAIN reviews \subseteq DOMAIN reviews',
         Len(log) \in Nat, Len(log') \in Nat, Len(log) <= Len(log'), NEW c \in Calls, CallMoved(c)
  PROVE  (call \in [Calls -> CallRecords(setting)])' /\ (\A d \in Calls : CallHolds(d))'
<1>1. ASSUME NEW d \in Calls PROVE CallHolds(d)'
  <2>1. CASE d = c
    BY <2>1 DEF CallMoved
  <2>2. CASE d # c
    <3>1. CallHolds(d) /\ call'[d] = call[d] /\ call[d].sequence \in Nat
      BY <2>2 DEF ReviewersSound, CallMoved, CallRecords
    <3> QED
      BY <3>1 DEF CallHolds
  <2> QED
    BY <2>1, <2>2
<1> QED
  BY <1>1, SettingStays DEF CallMoved

\* A call that ends with an answer (Ends).
LEMMA CallEnds ==
  ASSUME ReviewersSound, setting' = setting, NEW c \in Calls, NEW a \in ReviewAnswers \ {"contractViolation"}, Ends(c, a),
         a \in {"applied", "replayed"} => CommandOf[c] \in DOMAIN reviews'
  PROVE  CallMoved(c)
<1>1. call \in [Calls -> CallRecords(setting)] /\ call[c] \in CallRecords(setting)
  BY DEF ReviewersSound
<1>2. call' = [call EXCEPT ![c].pc = "done", ![c].answer = a]
  BY DEF Ends
<1>3. [call[c] EXCEPT !.pc = "done", !.answer = a] \in CallRecords(setting)
  BY <1>1 DEF CallRecords
<1>4. /\ call'[c] = [call[c] EXCEPT !.pc = "done", !.answer = a]
      /\ call' \in [Calls -> CallRecords(setting)]
      /\ \A d \in Calls : d # c => call'[d] = call[d]
  BY <1>1, <1>2, <1>3
<1>5. call'[c].pc = "done" /\ call'[c].answer = a
  BY <1>1, <1>4 DEF CallRecords
<1> QED
  BY <1>4, <1>5 DEF CallMoved, CallHolds

\* The tables stay; a revision may be shown that was not, and a sequence taken.
LEMMA ReviewersGoOn ==
  ASSUME ReviewersSound, UNCHANGED <<setting, candidates, reviews>>, NEW c \in Calls, CallMoved(c),
         Len(log) \in Nat, Len(log') \in Nat, Len(log) <= Len(log'), shown' \in [DOMAIN DecisionOf -> Nat],
         \A k \in DOMAIN DecisionOf : shown[k] # 0 => shown'[k] = shown[k]
  PROVE  ReviewersSound'
<1>1. ASSUME NEW k \in DOMAIN reviews PROVE ReviewHolds(k)'
  <2>1. ReviewHolds(k) /\ shown'[k] = shown[k]
    BY DEF ReviewersSound, ReviewHolds
  <2> QED
    BY <2>1 DEF ReviewHolds, validateHealReviewReplay
<1>2. (call \in [Calls -> CallRecords(setting)])' /\ (\A d \in Calls : CallHolds(d))'
  BY CallsHold
<1> QED
  BY <1>1, <1>2 DEF ReviewersSound

\* What a call decides.
LEMMA CallDecides ==
  ASSUME GovernanceSound, NEW c \in Calls
  PROVE  /\ CommandOf[c] \in DOMAIN DecisionOf /\ DecisionOf[CommandOf[c]] \in {"APPROVE", "REJECT"}
         /\ CallHolds(c) /\ call \in [Calls -> CallRecords(setting)] /\ call[c] \in CallRecords(setting)
BY SettingsAssumption, DecisionAssumption DEF GovernanceSound, ReviewersSound, Calls

\* The types of the tables, and the order of the versions.
LEMMA TableTypes ==
  ASSUME GovernanceSound
  PROVE  /\ Tables \in AllTables(setting) /\ setting.versions \in Nat \ {0} /\ Bases = BasesOf(setting)
         /\ Len(log) \in Nat /\ streaks \in [Bases -> Streaks(setting)] /\ Reviewed \in Bases
         /\ candidates \in [Bases -> CandidateRecords] /\ log \in Seq(Entries(setting))
         /\ node.versions \in Seq(VersionRecords) /\ node.revision = Len(node.versions) /\ Len(node.versions) >= 1
         /\ VersionsInOrder(node)
<1>1. TablesSound(setting, Tables) /\ setting.versions \in Nat \ {0} /\ Bases = BasesOf(setting)
  BY SettingsAssumption DEF GovernanceSound, Bases, BasesOf, MaxVersions
<1>2. Reviewed \in Bases
  BY <1>1 DEF BasesOf, Reviewed
<1>3. Tables \in AllTables(setting) /\ VersionsInOrder(node)
  BY <1>1 DEF TablesSound, Tables
<1> QED
  BY <1>1, <1>2, <1>3 DEF AllTables, Tables, VersionsInOrder

\* A recorded command is answered from its record (ReplayReview).
LEMMA ReviewReplayed ==
  ASSUME GovernanceSound, NEW c \in Calls, CommandOf[c] \in DOMAIN reviews, ReplayReview(c), UNCHANGED <<setting, reviews>>
  PROVE  CallMoved(c)
<1>1. validateHealReviewReplay(CommandOf[c], reviews[CommandOf[c]])
  BY DEF GovernanceSound, ReviewersSound, ReviewHolds
<1>2. Ends(c, "replayed")
  BY <1>1 DEF ReplayReview
<1>3. "replayed" \in ReviewAnswers \ {"contractViolation"}
  BY DEF ReviewAnswers
<1> QED
  BY <1>2, <1>3, CallEnds DEF GovernanceSound

\* A call that takes a step in the tables that stay.
LEMMA CallStep ==
  ASSUME GovernanceSound, UNCHANGED <<setting, evidence, tables, reviews>>, NEW c \in Calls, CallMoved(c),
         shown' \in [DOMAIN DecisionOf -> Nat],
         \A k \in DOMAIN DecisionOf : shown[k] # 0 => shown'[k] = shown[k]
  PROVE  GovernanceSound' /\ Stand
<1>1. WorkersSound'
  BY WorkersSame DEF GovernanceSound, evidence
<1>2. ReviewersSound'
  BY TableTypes, ReviewersGoOn DEF GovernanceSound, tables
<1> QED
  BY <1>1, <1>2, TablesSame DEF GovernanceSound

\* A call looks its command up (Lookup).
LEMMA LookupSound ==
  ASSUME GovernanceSound, UNCHANGED setting, NEW c \in Calls, Lookup(c)
  PROVE  GovernanceSound' /\ Stand
<1>1. shown \in [DOMAIN DecisionOf -> Nat] /\ node.revision \in Nat
  BY TableTypes DEF GovernanceSound, ReviewersSound
<1>2. /\ shown' \in [DOMAIN DecisionOf -> Nat]
      /\ \A k \in DOMAIN DecisionOf : shown[k] # 0 => shown'[k] = shown[k]
  BY <1>1, CallDecides DEF Lookup
<1>3. CallMoved(c)
  <2>1. CASE CommandOf[c] \in DOMAIN reviews
    BY <2>1, ReviewReplayed DEF Lookup
  <2>2. CASE call' = [call EXCEPT ![c].pc = "load"]
    <3>1. [call[c] EXCEPT !.pc = "load"] \in CallRecords(setting)
      BY CallDecides DEF CallRecords
    <3>2. /\ call'[c] = [call[c] EXCEPT !.pc = "load"]
          /\ call' \in [Calls -> CallRecords(setting)]
          /\ \A d \in Calls : d # c => call'[d] = call[d]
      BY <2>2, <3>1, CallDecides
    <3>3. call'[c].pc = "load" /\ call'[c].answer = call[c].answer
      BY <3>2, CallDecides DEF CallRecords
    <3>4. CallHolds(c)'
      BY <3>3, CallDecides DEF CallHolds, Lookup
    <3> QED
      BY <3>2, <3>4 DEF CallMoved
  <2> QED
    BY <2>1, <2>2 DEF Lookup
<1> QED
  BY <1>2, <1>3, CallStep DEF Lookup, tables

\* A call reads the candidate (LoadCandidate).
LEMMA LoadCandidateSound ==
  ASSUME GovernanceSound, UNCHANGED setting, NEW c \in Calls, LoadCandidate(c)
  PROVE  GovernanceSound' /\ Stand
<1>1. candidates[Reviewed] \in CandidateRecords
  BY TableTypes
<1>2. CallMoved(c)
  <2>1. CASE Ends(c, "candidateInvalid")
    BY <2>1, CallEnds DEF LoadCandidate, GovernanceSound, ReviewAnswers
  <2>2. CASE /\ candidates[Reviewed].status = "AWAITING_APPROVAL"
             /\ call' = [call EXCEPT ![c].pc = "node", ![c].candidate = candidates[Reviewed]]
    <3>1. [call[c] EXCEPT !.pc = "node", !.candidate = candidates[Reviewed]] \in CallRecords(setting)
      BY <1>1, CallDecides DEF CallRecords
    <3>2. /\ call'[c] = [call[c] EXCEPT !.pc = "node", !.candidate = candidates[Reviewed]]
          /\ call' \in [Calls -> CallRecords(setting)]
          /\ \A d \in Calls : d # c => call'[d] = call[d]
      BY <2>2, <3>1, CallDecides
    <3>3. call'[c].pc = "node" /\ call'[c].answer = call[c].answer /\ call'[c].candidate = candidates[Reviewed]
      BY <3>2, CallDecides DEF CallRecords
    <3>4. CallHolds(c)'
      BY <2>2, <3>3, CallDecides DEF CallHolds, LoadCandidate
    <3> QED
      BY <3>2, <3>4 DEF CallMoved
  <2> QED
    BY <2>1, <2>2 DEF LoadCandidate
<1>3. shown' \in [DOMAIN DecisionOf -> Nat] /\ shown' = shown
  BY DEF LoadCandidate, GovernanceSound, ReviewersSound
<1> QED
  BY <1>2, <1>3, CallStep DEF LoadCandidate, tables

\* A call reads the element target (LoadNode).
LEMMA LoadNodeSound ==
  ASSUME GovernanceSound, UNCHANGED setting, NEW c \in Calls, LoadNode(c)
  PROVE  GovernanceSound' /\ Stand
<1> DEFINE to == IF DecisionOf[CommandOf[c]] = "APPROVE" THEN "commit" ELSE "streak"
<1>2. CallMoved(c)
  <2>1. CASE Ends(c, "revisionConflict") \/ Ends(c, "staleBase")
    BY <2>1, CallEnds DEF LoadNode, GovernanceSound, ReviewAnswers
  <2>2. CASE call' = [call EXCEPT ![c].pc = to]
    <3>0. to \in {"commit", "streak"} /\ (to = "commit" => DecisionOf[CommandOf[c]] = "APPROVE")
      OBVIOUS
    <3> HIDE DEF to
    <3>1. [call[c] EXCEPT !.pc = to] \in CallRecords(setting)
      BY <3>0, CallDecides DEF CallRecords
    <3>2. /\ call'[c] = [call[c] EXCEPT !.pc = to]
          /\ call' \in [Calls -> CallRecords(setting)]
          /\ \A d \in Calls : d # c => call'[d] = call[d]
      BY <2>2, <3>1, CallDecides
    <3>3. call'[c].pc = to /\ call'[c].answer = call[c].answer /\ call'[c].candidate = call[c].candidate
      BY <3>2, CallDecides DEF CallRecords
    <3>4. CallHolds(c)'
      BY <3>0, <3>3, CallDecides DEF CallHolds, LoadNode
    <3> QED
      BY <3>2, <3>4 DEF CallMoved
  <2> QED
    BY <2>1, <2>2 DEF LoadNode
<1>3. shown' \in [DOMAIN DecisionOf -> Nat] /\ shown' = shown
  BY DEF LoadNode, GovernanceSound, ReviewersSound
<1> QED
  BY <1>2, <1>3, CallStep DEF LoadNode, tables

\* A rejection takes its sequence and reads the streak (LoadStreak).
LEMMA LoadStreakSound ==
  ASSUME GovernanceSound, UNCHANGED setting, NEW c \in Calls, LoadStreak(c)
  PROVE  GovernanceSound' /\ Stand
<1> DEFINE sequence == Len(log) + 1
           k == streaks[Reviewed]
           error == RejectError(k, sequence)
           e == [fact |-> <<c, "rejection">>, base |-> Reviewed, outcome |-> "REJECTION",
                 candidate |-> Blank, band |-> Blank, baseIsCurrent |-> FALSE]
<1>1. log' = Append(log, e) /\ UNCHANGED <<evidence, streaks, effects, candidates, node, shown, reviews>>
  BY DEF LoadStreak
<1>2. e \in Entries(setting) /\ e.outcome = "REJECTION" /\ e.candidate = Blank
  BY DEF Entries, Calls, Reviewed, Named
<1> HIDE DEF e
<1>3. Len(log) \in Nat /\ Len(log') = Len(log) + 1 /\ log' \in Seq(Entries(setting))
  BY <1>1, <1>2, TableTypes
<1>4. k \in Streaks(setting)
  BY TableTypes
<1>5. CallMoved(c)
  <2>1. CASE error # Blank /\ Ends(c, error)
    <3>1. error \in ReviewAnswers \ {"contractViolation"} /\ error \notin {"applied", "replayed"}
      BY <2>1 DEF RejectError, ReviewAnswers, Blank
    <3> HIDE DEF error
    <3> QED
      BY <2>1, <3>1, CallEnds DEF GovernanceSound
  <2>2. CASE error = Blank /\ call' = [call EXCEPT ![c].pc = "commit", ![c].streak = k, ![c].sequence = sequence]
    <3>0. k.disposition = "AWAIT_APPROVAL" /\ sequence > k.lastSequence /\ sequence \in Nat /\ sequence <= Len(log')
      BY <1>3, <1>4, <2>2 DEF RejectError, Streaks, Blank
    <3> HIDE DEF k, sequence
    <3>1. [call[c] EXCEPT !.pc = "commit", !.streak = k, !.sequence = sequence] \in CallRecords(setting)
      BY <1>4, <3>0, CallDecides DEF CallRecords
    <3>2. /\ call'[c] = [call[c] EXCEPT !.pc = "commit", !.streak = k, !.sequence = sequence]
          /\ call' \in [Calls -> CallRecords(setting)]
          /\ \A d \in Calls : d # c => call'[d] = call[d]
      BY <2>2, <3>1, CallDecides
    <3>3. /\ call'[c].pc = "commit" /\ call'[c].answer = call[c].answer /\ call'[c].candidate = call[c].candidate
          /\ call'[c].streak = k /\ call'[c].sequence = sequence
      BY <3>2, CallDecides DEF CallRecords
    <3>4. CallHolds(c)'
      BY <1>1, <3>0, <3>3, CallDecides DEF CallHolds, LoadStreak
    <3> QED
      BY <3>2, <3>4 DEF CallMoved
  <2> QED
    BY <2>1, <2>2 DEF LoadStreak
<1> HIDE DEF k, sequence, error
<1>6. ReviewersSound'
  <2>1. shown' \in [DOMAIN DecisionOf -> Nat] /\ shown' = shown
    BY <1>1 DEF GovernanceSound, ReviewersSound
  <2>2. Len(log) <= Len(log') /\ Len(log') \in Nat
    BY <1>3
  <2> QED
    BY <1>1, <1>3, <1>5, <2>1, <2>2, ReviewersGoOn DEF GovernanceSound
<1>7. TablesSound(setting, Tables')
  <2>1. Tables' \in AllTables(setting)
    BY <1>1, <1>3, TableTypes DEF AllTables, Tables
  <2>2. /\ Tables'.log = Append(Tables.log, e) /\ Tables'.streaks = Tables.streaks
        /\ Tables'.effects = Tables.effects /\ Tables'.candidates = Tables.candidates /\ Tables'.node = Tables.node
    BY <1>1 DEF Tables
  <2> QED
    BY <1>2, <2>1, <2>2, RejectionLogged DEF GovernanceSound
<1>8. WorkersSound'
  BY <1>1, WorkersSame DEF GovernanceSound, evidence
<1>9. Stand
  BY <1>1 DEF Stand, Advances
<1> QED
  BY <1>1, <1>6, <1>7, <1>8, <1>9, SettingStays DEF GovernanceSound

\* Somebody edits the element target (PublishByHand).
LEMMA HandSound ==
  ASSUME GovernanceSound, UNCHANGED setting, PublishByHand
  PROVE  GovernanceSound' /\ Stand
<1> DEFINE v == Version("manual", Current, Blank)
<1>1. /\ node' = [revision |-> node.revision + 1, versions |-> Append(node.versions, v)]
      /\ UNCHANGED <<evidence, log, streaks, effects, candidates, shown, call, reviews>>
  BY DEF PublishByHand
<1>2. v \in VersionRecords
  BY TableTypes DEF Version, VersionRecords, Named, Current
<1>3. node'.versions = Append(node.versions, v) /\ node'.revision = node.revision + 1
  BY <1>1
<1>4. Len(node.versions) < MaxVersions
  BY DEF PublishByHand, Current
<1>5. node'.versions \in Seq(VersionRecords) /\ Len(node'.versions) = Len(node.versions) + 1
  BY <1>2, <1>3, TableTypes
<1>6. TablesSound(setting, Tables')
  <2>1. Tables' \in AllTables(setting)
    <3>1. node' \in [revision : Nat, versions : Seq(VersionRecords)]
      BY <1>1, <1>3, <1>5, TableTypes
    <3> QED
      BY <1>1, <3>1, TableTypes DEF AllTables, Tables
  <2>2. /\ Tables'.log = Tables.log /\ Tables'.streaks = Tables.streaks
        /\ Tables'.effects = Tables.effects /\ Tables'.candidates = Tables.candidates
        /\ Tables'.node = node' /\ Tables.node = node
    BY <1>1 DEF Tables
  <2>3. v = Version("manual", Len(Tables.node.versions), Blank)
    BY <2>2 DEF Current
  <2> HIDE DEF v
  <2>4. /\ Tables'.node.revision = Tables.node.revision + 1
        /\ Tables'.node.versions = Append(Tables.node.versions, v)
    BY <1>3, <2>2
  <2> QED
    BY <2>1, <2>2, <2>3, <2>4, EditedTables DEF GovernanceSound
<1>7. WorkersSound'
  BY <1>1, WorkersSame DEF GovernanceSound, evidence
<1>8. ReviewersSound'
  <2>1. Len(log) \in Nat /\ Len(log') = Len(log) /\ Asks(candidates[Reviewed], candidates'[Reviewed])
    BY <1>1, TableTypes DEF Asks
  <2> QED
    BY <1>1, <2>1, ReviewersKept DEF GovernanceSound
<1>9. Stand
  BY <1>1 DEF Stand, Advances
<1>10. Len(node'.versions) <= MaxVersions'
  <2>1. MaxVersions \in Nat /\ Len(node.versions) \in Nat
    BY TableTypes DEF MaxVersions
  <2> QED
    BY <1>4, <1>5, <2>1, SettingStays
<1> QED
  BY <1>6, <1>7, <1>8, <1>9, <1>10 DEF GovernanceSound

\* A review that is stored answers for its command alone.
LEMMA StoredReview ==
  ASSUME GovernanceSound, NEW c \in Calls, candidates[Reviewed].status = "AWAITING_APPROVAL", NEW result,
         reviews' = Noted(reviews, CommandOf[c], result)
  PROVE  DOMAIN reviews = {} /\ DOMAIN reviews' = {CommandOf[c]} /\ reviews'[CommandOf[c]] = result
<1>1. \A k \in DOMAIN reviews : ReviewHolds(k)
  BY DEF GovernanceSound, ReviewersSound
<1>2. \A k \in DOMAIN reviews : FALSE
  BY <1>1, DecisionAssumption DEF ReviewHolds, Status
<1> QED
  BY <1>2 DEF Noted

\* What the reviewers hold once the review of a call is stored.
LEMMA ReviewersTold ==
  ASSUME GovernanceSound, NEW c \in Calls, UNCHANGED <<setting, log, shown>>, DOMAIN reviews = {},
         DOMAIN reviews' = {CommandOf[c]}, ReviewHolds(CommandOf[c])',
         Ends(c, "applied") \/ call' = [call EXCEPT ![c].pc = "lost"]
  PROVE  ReviewersSound'
<1>1. CallMoved(c)
  <2>1. CASE Ends(c, "applied")
    BY <2>1, CallEnds DEF ReviewAnswers, GovernanceSound
  <2>2. CASE call' = [call EXCEPT ![c].pc = "lost"]
    <3>1. [call[c] EXCEPT !.pc = "lost"] \in CallRecords(setting)
      BY CallDecides DEF CallRecords
    <3>2. /\ call'[c] = [call[c] EXCEPT !.pc = "lost"]
          /\ call' \in [Calls -> CallRecords(setting)]
          /\ \A d \in Calls : d # c => call'[d] = call[d]
      BY <2>2, <3>1, CallDecides
    <3>3. call'[c].pc = "lost" /\ call'[c].answer = call[c].answer
      BY <3>2, CallDecides DEF CallRecords
    <3>4. CallHolds(c)'
      BY <3>3, CallDecides DEF CallHolds
    <3> QED
      BY <3>2, <3>4 DEF CallMoved
  <2> QED
    BY <2>1, <2>2
<1>2. (call \in [Calls -> CallRecords(setting)])' /\ (\A d \in Calls : CallHolds(d))'
  <2>1. DOMAIN reviews \subseteq DOMAIN reviews' /\ Len(log) \in Nat /\ Len(log') \in Nat /\ Len(log) <= Len(log')
    BY TableTypes
  <2> QED
    BY <1>1, <2>1, CallsHold DEF GovernanceSound
<1>3. (shown \in [DOMAIN DecisionOf -> Nat])'
  BY DEF GovernanceSound, ReviewersSound
<1>4. /\ \A k \in DOMAIN reviews' : ReviewHolds(k)'
      /\ \A j, k \in DOMAIN reviews' : j = k
      /\ DOMAIN reviews' # {}
  BY Zenon
<1> QED
  BY <1>2, <1>3, <1>4 DEF ReviewersSound

\* A reviewed candidate is a candidate.
LEMMA ReviewedRecord ==
  ASSUME NEW x \in CandidateRecords, NEW a \in {"PROMOTED", "REJECTED"}
  PROVE  Review(x, a) \in CandidateRecords
<1> DEFINE n == x.revision + 1
<1>1. n \in Nat /\ a \in {Blank, "AWAITING_APPROVAL", "PROMOTED", "REJECTED"}
  BY DEF CandidateRecords
<1>2. Review(x, a) = [x EXCEPT !.status = a, !.revision = n]
  BY DEF Review, CandidateRecords
<1> HIDE DEF n
<1> QED
  BY <1>1, <1>2 DEF CandidateRecords

\* A rejected streak is a streak.
LEMMA RejectedRecord ==
  ASSUME NEW s, NEW x \in Streaks(s), NEW sequence \in Nat
  PROVE  Reject(x, sequence) \in Streaks(s)
BY DEF Reject, Streaks, Dispositions

\* An approval is stored (Store, Approved).
LEMMA ApprovalSound ==
  ASSUME GovernanceSound, UNCHANGED <<setting, evidence, log, effects, shown>>, NEW c \in Calls, call[c].pc = "commit",
         AuthorityHolds(c), Current < MaxVersions, DecisionOf[CommandOf[c]] = "APPROVE", Store(c, Approved(c)),
         Ends(c, "applied") \/ call' = [call EXCEPT ![c].pc = "lost"]
  PROVE  GovernanceSound' /\ Stand
<1> DEFINE d == candidates[Reviewed]
           n == [revision |-> node.revision + 1,
                 versions |-> Append(node.versions, Version("review", Reviewed, d.hash))]
           result == [decision |-> "APPROVE", candidate |-> Review(d, "PROMOTED"), streak |-> EmptyStreak, node |-> n]
<1>1. /\ d.status = "AWAITING_APPROVAL" /\ call[c].candidate = d
      /\ Len(node.versions) = Reviewed /\ node.revision = shown[CommandOf[c]]
  BY CallDecides DEF CallHolds, AuthorityHolds, Current
<1>2. Approved(c) = result
  BY <1>1 DEF Approved
<1>3. /\ node' = n /\ streaks' = streaks /\ candidates' = [candidates EXCEPT ![Reviewed] = Review(d, "PROMOTED")]
      /\ reviews' = Noted(reviews, CommandOf[c], result)
  BY <1>2 DEF Store
<1>4. /\ node'.revision = node.revision + 1
      /\ node'.versions = Append(node.versions, Version("review", Reviewed, d.hash))
  BY <1>3
<1>5. d \in CandidateRecords /\ Review(d, "PROMOTED") \in CandidateRecords
  BY TableTypes, ReviewedRecord
<1>6. Version("review", Reviewed, d.hash) \in VersionRecords
  BY <1>5 DEF Version, VersionRecords, CandidateRecords, Reviewed
<1> HIDE DEF d
<1>7. /\ node'.versions \in Seq(VersionRecords) /\ Len(node'.versions) = Reviewed + 1
      /\ node'.versions[Reviewed + 1] = Version("review", Reviewed, d.hash)
  BY <1>1, <1>4, <1>6, TableTypes
<1> HIDE DEF n
<1>8. Tables' \in AllTables(setting)
  <2>1. node' \in [revision : Nat, versions : Seq(VersionRecords)]
    BY <1>3, <1>4, <1>7, TableTypes DEF n
  <2>2. candidates' \in [BasesOf(setting) -> CandidateRecords]
    BY <1>3, <1>5, TableTypes
  <2> QED
    BY <1>3, <2>1, <2>2, TableTypes DEF AllTables, Tables
<1>9. TablesSound(setting, Tables') /\ candidates'[Reviewed].status = "PROMOTED"
      /\ candidates'[Reviewed].revision = 2 /\ candidates'[Reviewed].hash = d.hash
  <2>1. /\ Tables'.log = Tables.log /\ Tables'.streaks = Tables.streaks /\ Tables'.effects = Tables.effects
        /\ Tables'.candidates = candidates' /\ Tables.candidates = candidates
        /\ Tables'.node = node' /\ Tables.node = node
    BY <1>3 DEF Tables
  <2>2. /\ Tables'.candidates = [Tables.candidates EXCEPT ![Reviewed] = Review(Tables.candidates[Reviewed], "PROMOTED")]
        /\ Tables'.node.revision = Tables.node.revision + 1
        /\ Tables'.node.versions = Append(Tables.node.versions, Version("review", Reviewed, Tables.candidates[Reviewed].hash))
        /\ Len(Tables.node.versions) = Reviewed /\ Tables.candidates[Reviewed].status = "AWAITING_APPROVAL"
    BY <1>1, <1>3, <1>4, <2>1 DEF d
  <2>3. TablesSound(setting, Tables) /\ setting.versions \in Nat \ {0}
    BY TableTypes DEF GovernanceSound
  <2>4. Approves(setting, Tables, Tables')
    BY <1>8, <2>1, <2>2, <2>3 DEF Approves
  <2>5. /\ TablesSound(setting, Tables') /\ Tables'.candidates[Reviewed].status = "PROMOTED"
        /\ Tables'.candidates[Reviewed].revision = 2
        /\ Tables'.candidates[Reviewed].hash = Tables.candidates[Reviewed].hash
    BY <2>4, ApprovedTables
  <2> QED
    BY <2>1, <2>5 DEF d
<1>10. candidates'[Reviewed] = Review(d, "PROMOTED")
  BY <1>3, TableTypes
<1>11. /\ DOMAIN reviews = {} /\ DOMAIN reviews' = {CommandOf[c]} /\ reviews'[CommandOf[c]] = result
  BY <1>1, <1>3, StoredReview DEF d
<1>12. ReviewHolds(CommandOf[c])'
  <2>1. /\ result.decision = "APPROVE" /\ result.candidate = candidates'[Reviewed] /\ result.node = node'
    BY <1>3, <1>10
  <2>2. shown[CommandOf[c]] # 0
    BY <1>1, TableTypes
  <2> HIDE DEF result
  <2>3. validateHealReviewReplay(CommandOf[c], reviews[CommandOf[c]])'
    <3>1. Len(node'.versions) = 2 /\ Reviewed = 1
      BY <1>7 DEF Reviewed
    <3>2. node'.revision = shown'[CommandOf[c]] + 1
      BY <1>1, <1>4
    <3>3. node'.versions[Len(node'.versions)] = Version("review", Reviewed, candidates'[Reviewed].hash)
      BY <1>7, <1>9
    <3> QED
      BY <1>9, <1>11, <2>1, <3>1, <3>2, <3>3 DEF validateHealReviewReplay
  <2> QED
    BY <1>9, <1>11, <2>2, <2>3, CallDecides DEF ReviewHolds, Status
<1>13. ReviewersSound'
  BY <1>11, <1>12, ReviewersTold
<1>14. WorkersSound'
  BY WorkersSame DEF GovernanceSound, evidence
<1>15. Stand
  BY <1>3 DEF Stand, Advances
<1>16. Len(node'.versions) <= MaxVersions'
  <2>1. MaxVersions \in Nat /\ Reviewed \in Nat
    BY TableTypes DEF MaxVersions, Reviewed
  <2> QED
    BY <1>1, <1>7, <2>1, SettingStays DEF Current
<1> QED
  BY <1>9, <1>13, <1>14, <1>15, <1>16 DEF GovernanceSound

\* A rejection is stored (Store, Rejected).
LEMMA RefusalSound ==
  ASSUME GovernanceSound, UNCHANGED <<setting, evidence, log, effects, shown>>, NEW c \in Calls, call[c].pc = "commit",
         AuthorityHolds(c), DecisionOf[CommandOf[c]] = "REJECT", Store(c, Rejected(c)),
         Ends(c, "applied") \/ call' = [call EXCEPT ![c].pc = "lost"]
  PROVE  GovernanceSound' /\ Stand
<1> DEFINE d == candidates[Reviewed]
           k == streaks[Reviewed]
           sequence == call[c].sequence
           result == [decision |-> "REJECT", candidate |-> Review(d, "REJECTED"), streak |-> Reject(k, sequence), node |-> node]
<1>1. /\ d.status = "AWAITING_APPROVAL" /\ call[c].candidate = d /\ call[c].streak = k
      /\ node.revision = shown[CommandOf[c]]
      /\ sequence \in Nat /\ sequence > k.lastSequence /\ sequence <= Len(log)
  BY CallDecides DEF CallHolds, AuthorityHolds, CallRecords
<1>2. Rejected(c) = result
  BY <1>1 DEF Rejected
<1>3. /\ node' = node /\ streaks' = [streaks EXCEPT ![Reviewed] = Reject(k, sequence)]
      /\ candidates' = [candidates EXCEPT ![Reviewed] = Review(d, "REJECTED")]
      /\ reviews' = Noted(reviews, CommandOf[c], result)
  BY <1>2 DEF Store
<1>5. d \in CandidateRecords /\ Review(d, "REJECTED") \in CandidateRecords
  BY TableTypes, ReviewedRecord
<1>6. k \in Streaks(setting) /\ Reject(k, sequence) \in Streaks(setting)
  BY <1>1, TableTypes, RejectedRecord
<1> HIDE DEF d, k, sequence
<1>8. Tables' \in AllTables(setting)
  BY <1>3, <1>5, <1>6, TableTypes DEF AllTables, Tables
<1>9. /\ TablesSound(setting, Tables') /\ candidates'[Reviewed].status = "REJECTED"
      /\ candidates'[Reviewed].revision = 2 /\ StreakValid(streaks'[Reviewed])
      /\ streaks'[Reviewed].disposition = "REJECTED" /\ streaks'[Reviewed].candidate = candidates'[Reviewed].hash
      /\ streaks[Reviewed].disposition = "AWAIT_APPROVAL"
      /\ \A b \in BasesOf(setting) : b # Reviewed => streaks'[b] = streaks[b]
  <2>1. /\ Tables'.log = Tables.log /\ Tables'.effects = Tables.effects /\ Tables'.node = Tables.node
        /\ Tables'.candidates = candidates' /\ Tables.candidates = candidates
        /\ Tables'.streaks = streaks' /\ Tables.streaks = streaks /\ Tables.log = log
    BY <1>3 DEF Tables
  <2>2. /\ Tables'.candidates = [Tables.candidates EXCEPT ![Reviewed] = Review(Tables.candidates[Reviewed], "REJECTED")]
        /\ Tables'.streaks = [Tables.streaks EXCEPT ![Reviewed] = Reject(Tables.streaks[Reviewed], sequence)]
        /\ Tables.candidates[Reviewed].status = "AWAITING_APPROVAL"
        /\ sequence > Tables.streaks[Reviewed].lastSequence /\ sequence <= Len(Tables.log)
    BY <1>1, <1>3, <2>1 DEF d, k
  <2>3. TablesSound(setting, Tables) /\ setting.versions \in Nat \ {0}
    BY TableTypes DEF GovernanceSound
  <2>4. /\ TablesSound(setting, Tables') /\ Tables'.candidates[Reviewed].status = "REJECTED"
        /\ Tables'.candidates[Reviewed].revision = 2
        /\ StreakValid(Tables'.streaks[Reviewed]) /\ Tables'.streaks[Reviewed].disposition = "REJECTED"
        /\ Tables'.streaks[Reviewed].candidate = Tables'.candidates[Reviewed].hash
        /\ Tables.streaks[Reviewed].disposition = "AWAIT_APPROVAL"
        /\ \A b \in BasesOf(setting) : b # Reviewed => Tables'.streaks[b] = Tables.streaks[b]
    <3>1. sequence \in Nat
      BY <1>1
    <3>2. /\ Tables'.log = Tables.log /\ Tables'.effects = Tables.effects /\ Tables'.node = Tables.node
      BY <2>1
    <3>3. Rejects(setting, Tables, sequence, Tables')
      BY <1>8, <2>2, <2>3, <3>1, <3>2 DEF Rejects
    <3> QED
      BY <3>3, RejectedTables
  <2> QED
    BY <2>1, <2>4
<1>10. candidates'[Reviewed] = Review(d, "REJECTED") /\ streaks'[Reviewed] = Reject(k, sequence)
  BY <1>3, TableTypes
<1>11. /\ DOMAIN reviews = {} /\ DOMAIN reviews' = {CommandOf[c]} /\ reviews'[CommandOf[c]] = result
  BY <1>1, <1>3, StoredReview DEF d
<1>12. ReviewHolds(CommandOf[c])'
  <2>1. /\ result.decision = "REJECT" /\ result.candidate = candidates'[Reviewed] /\ result.streak = streaks'[Reviewed]
    BY <1>10
  <2>2. shown[CommandOf[c]] # 0
    BY <1>1, TableTypes
  <2> HIDE DEF result
  <2>3. validateHealReviewReplay(CommandOf[c], reviews[CommandOf[c]])'
    BY <1>9, <1>11, <2>1 DEF validateHealReviewReplay
  <2> QED
    BY <1>9, <1>11, <2>2, <2>3, CallDecides DEF ReviewHolds, Status
<1>13. ReviewersSound'
  BY <1>11, <1>12, ReviewersTold
<1>14. WorkersSound'
  BY WorkersSame DEF GovernanceSound, evidence
<1>15. Stand
  BY <1>9, TableTypes DEF Stand, Advances
<1>16. Len(node'.versions) <= MaxVersions'
  BY <1>3, SettingStays DEF GovernanceSound
<1> QED
  BY <1>9, <1>13, <1>14, <1>15, <1>16 DEF GovernanceSound

\* A call commits its review, or is answered (CommitReview).
LEMMA CommitReviewSound ==
  ASSUME GovernanceSound, UNCHANGED setting, NEW c \in Calls, CommitReview(c)
  PROVE  GovernanceSound' /\ Stand
<1>1. call[c].pc = "commit" /\ UNCHANGED <<evidence, log, effects, shown>>
  BY DEF CommitReview
<1>2. ASSUME CallMoved(c), UNCHANGED <<streaks, candidates, node, reviews>> PROVE GovernanceSound' /\ Stand
  <2>1. shown' \in [DOMAIN DecisionOf -> Nat] /\ shown' = shown
    BY <1>1 DEF GovernanceSound, ReviewersSound
  <2> QED
    BY <1>1, <1>2, <2>1, CallStep DEF tables
<1>3. CASE CommandOf[c] \in DOMAIN reviews
  BY <1>2, <1>3, ReviewReplayed DEF CommitReview
<1>4. CASE CommandOf[c] \notin DOMAIN reviews /\ ~AuthorityHolds(c)
  <2>1. Ends(c, "authorityConflict") /\ UNCHANGED <<streaks, candidates, node, reviews>>
    BY <1>4 DEF CommitReview
  <2>2. "authorityConflict" \in ReviewAnswers \ {"contractViolation"} /\ "authorityConflict" \notin {"applied", "replayed"}
    BY DEF ReviewAnswers
  <2>3. CallMoved(c)
    BY <2>1, <2>2, CallEnds DEF GovernanceSound
  <2> QED
    BY <1>2, <2>1, <2>3
<1>5. CASE CommandOf[c] \notin DOMAIN reviews /\ AuthorityHolds(c)
  <2>1. /\ Current < MaxVersions
        /\ Store(c, IF DecisionOf[CommandOf[c]] = "APPROVE" THEN Approved(c) ELSE Rejected(c))
        /\ Ends(c, "applied") \/ call' = [call EXCEPT ![c].pc = "lost"]
    BY <1>5 DEF CommitReview
  <2>2. CASE DecisionOf[CommandOf[c]] = "APPROVE"
    BY <1>1, <1>5, <2>1, <2>2, ApprovalSound
  <2>3. CASE DecisionOf[CommandOf[c]] = "REJECT"
    BY <1>1, <1>5, <2>1, <2>3, RefusalSound
  <2> QED
    BY <2>2, <2>3, CallDecides
<1> QED
  BY <1>3, <1>4, <1>5

-----------------------------------------------------------------------------
(* The invariant, and what follows from it.                                *)

\* The invariant holds at the start.
LEMMA GovernanceStarts == GovernanceInit => GovernanceSound
<1> SUFFICES ASSUME GovernanceInit PROVE GovernanceSound
  OBVIOUS
<1>1. /\ setting \in Settings /\ setting.versions \in Nat \ {0} /\ setting.commits \in Nat
  BY SettingsAssumption DEF GovernanceInit
<1>2. node = [revision |-> 1, versions |-> <<Version("manual", 0, Blank)>>]
  BY DEF GovernanceInit
<1>3. /\ node.revision = 1 /\ node.versions \in Seq(VersionRecords) /\ Len(node.versions) = 1
  BY <1>2 DEF Version, VersionRecords, Named
<1>4. VersionsInOrder(node)
  BY <1>3 DEF VersionsInOrder
<1>5. EmptyStreak \in Streaks(setting) /\ NoEffect \in Effects(setting) /\ NoCandidate \in CandidateRecords
  <2>1. <<>> \in Seq(Contributions(setting))
    OBVIOUS
  <2> HIDE DEF Contributions
  <2> QED
    BY <2>1 DEF EmptyStreak, Streaks, NoEffect, Effects, NoCandidate, CandidateRecords, NoBase, Dispositions, Named
<1>6. Tables \in AllTables(setting)
  <2>1. /\ streaks \in [BasesOf(setting) -> Streaks(setting)]
        /\ effects \in [BasesOf(setting) -> Effects(setting)]
        /\ candidates \in [BasesOf(setting) -> CandidateRecords]
    BY <1>5 DEF GovernanceInit, Bases, MaxVersions, BasesOf
  <2>2. node \in [revision : Nat, versions : Seq(VersionRecords)] /\ log \in Seq(Entries(setting))
    BY <1>2, <1>3 DEF GovernanceInit
  <2> QED
    BY <2>1, <2>2 DEF AllTables, Tables
<1>7. ASSUME NEW b \in BasesOf(setting) PROVE BaseSound(Tables, b)
  <2>1. /\ Tables.streaks[b] = EmptyStreak /\ Tables.candidates[b] = NoCandidate /\ Tables.log = <<>>
        /\ Tables.node = node
    BY DEF Tables, GovernanceInit, Bases, MaxVersions, BasesOf
  <2>2. b >= 1 /\ b \in Nat
    BY <1>1 DEF BasesOf
  <2>3. Readable(EmptyStreak, b)
    BY DEF Readable, EmptyStreak, Unstarted, NoBase
  <2>4. Evident(EmptyStreak, <<>>) /\ Quiet(EmptyStreak, b, <<>>)
    BY DEF Evident, Quiet, EmptyStreak, Earning
  <2>5. validateExistingHealEffect(Tables.effects[b], EmptyStreak)
    BY DEF validateExistingHealEffect, EmptyStreak, Terminal
  <2>6. CandidateFits(NoCandidate, EmptyStreak)
    BY DEF CandidateFits, NoCandidate, EmptyStreak, Blank
  <2>7. VersionsFit(node.versions, b, EmptyStreak, NoCandidate)
    BY <1>3, <2>2 DEF VersionsFit, Follower, NoCandidate, EmptyStreak, Blank
  <2> QED
    BY <2>1, <2>3, <2>4, <2>5, <2>6, <2>7 DEF BaseSound
<1>8. TablesSound(setting, Tables)
  <2>1. Tables.node = node
    BY DEF Tables
  <2> QED
    BY <1>4, <1>6, <1>7, <2>1 DEF TablesSound
<1>9. WorkersSound
  <2>1. step \in [Instances -> [revision : Nat, live : BOOLEAN]]
    BY DEF GovernanceInit
  <2>2. worker \in [Instances -> WorkerRecords(setting)]
    <3>1. [n |-> 0, sent |-> NothingSent, known |-> 1, answer |-> Blank] \in WorkerRecords(setting)
      BY <1>1 DEF WorkerRecords, Sents, Answers, Blank
    <3> HIDE DEF WorkerRecords
    <3> QED
      BY <3>1 DEF GovernanceInit
  <2>3. ASSUME NEW w \in Instances PROVE WorkerHolds(w)
    <3>1. DOMAIN replays = {} /\ step[w].revision = 1
      BY DEF GovernanceInit
    <3>2. CommitsOf(w) = {}
      BY <3>1 DEF CommitsOf
    <3> QED
      BY <3>1, <3>2, FS_EmptySet DEF WorkerHolds
  <2> QED
    BY <2>1, <2>2, <2>3 DEF WorkersSound
<1>10. ReviewersSound
  <2>1. call \in [Calls -> CallRecords(setting)]
    <3>1. [pc |-> "idle", candidate |-> NoCandidate, streak |-> EmptyStreak, sequence |-> 0, answer |-> Blank]
             \in CallRecords(setting)
      BY <1>5 DEF CallRecords, ReviewAnswers
    <3> HIDE DEF CallRecords
    <3> QED
      BY <3>1 DEF GovernanceInit
  <2>2. /\ shown \in [DOMAIN DecisionOf -> Nat] /\ DOMAIN reviews = {}
        /\ \A c \in Calls : call[c].pc = "idle" /\ call[c].answer = Blank
    BY DEF GovernanceInit
  <2>3. candidates[Reviewed].status = Blank
    BY <1>1 DEF GovernanceInit, Bases, MaxVersions, Reviewed, NoCandidate
  <2> QED
    BY <2>1, <2>2, <2>3 DEF ReviewersSound, CallHolds, Blank
<1>11. Len(node.versions) <= MaxVersions
  BY <1>1, <1>3 DEF MaxVersions
<1> QED
  BY <1>1, <1>8, <1>9, <1>10, <1>11 DEF GovernanceSound

\* Every step keeps the invariant, and no decision is taken back.
LEMMA GovernanceGoesOn ==
  ASSUME GovernanceSound, [GovernanceNext]_governanceVars
  PROVE  GovernanceSound' /\ Stand
<1>1. CASE UNCHANGED governanceVars
  <2>1. UNCHANGED <<setting, step, worker, replays, shown, call, reviews, tables>>
    BY <1>1 DEF governanceVars, tables
  <2>2. WorkersSound'
    BY <2>1, WorkersSame DEF GovernanceSound
  <2> QED
    BY <2>1, <2>2, WorkerMoves
<1>2. CASE UNCHANGED setting /\ \E w \in Instances : Send(w) \/ Transact(w) \/ Rollback(w) \/ Lapse(w)
  BY <1>2, SendSound, TransactSound, RollbackSound, LapseSound
<1>3. CASE UNCHANGED setting /\ \E c \in Calls : Lookup(c) \/ LoadCandidate(c) \/ LoadNode(c) \/ LoadStreak(c) \/ CommitReview(c)
  BY <1>3, LookupSound, LoadCandidateSound, LoadNodeSound, LoadStreakSound, CommitReviewSound
<1>4. CASE UNCHANGED setting /\ PublishByHand
  BY <1>4, HandSound
<1> QED
  BY <1>1, <1>2, <1>3, <1>4 DEF GovernanceNext

\* The invariant of heal governance.
LEMMA GovernanceHolds == GovernanceSpec => []GovernanceSound
<1>1. GovernanceSound /\ [GovernanceNext]_governanceVars => GovernanceSound'
  BY GovernanceGoesOn
<1> QED
  BY <1>1, GovernanceStarts, PTL DEF GovernanceSpec

\* What the invariant says of one base.
LEMMA BaseFacts ==
  ASSUME GovernanceSound, NEW b \in Bases
  PROVE  /\ Readable(streaks[b], b) /\ Evident(streaks[b], log) /\ Quiet(streaks[b], b, log)
         /\ CandidateFits(candidates[b], streaks[b]) /\ VersionsFit(node.versions, b, streaks[b], candidates[b])
         /\ streaks[b] \in Streaks(setting) /\ candidates[b] \in CandidateRecords /\ b \in Nat /\ b >= 1
<1>1. BaseSound(Tables, b) /\ b \in Nat /\ b >= 1
  <2>1. b \in BasesOf(setting) /\ setting.versions \in Nat
    BY TableTypes
  <2> QED
    BY <2>1 DEF GovernanceSound, TablesSound, BasesOf
<1> QED
  BY <1>1, TableTypes DEF BaseSound, Tables

\* Commits are answered truly: the part of the invariant that is about workers.
LEMMA SoundCommits == GovernanceSound => CommitsAreAnswered
<1> SUFFICES ASSUME GovernanceSound PROVE CommitsAreAnswered
  OBVIOUS
<1>1. MaxCommits \in Nat
  BY SettingsAssumption DEF GovernanceSound, MaxCommits
<1>2. ASSUME NEW w \in Instances
      PROVE  /\ step[w].revision \in 1..(MaxCommits + 1) /\ step[w].live \in BOOLEAN
             /\ worker[w].n \in 0..MaxCommits
             /\ worker[w].answer \in Answers \ {"sequenceConflict", "effectConflict", "identityConflict"}
             /\ WorkerHolds(w)
  <2>1. WorkerHolds(w) /\ worker[w] \in WorkerRecords(setting) /\ step[w] \in [revision : Nat, live : BOOLEAN]
    BY DEF GovernanceSound, WorkersSound
  <2>2. IsFiniteSet(1..MaxCommits) /\ Cardinality(1..MaxCommits) = MaxCommits
    BY <1>1, FS_Interval
  <2>3. CommitsOf(w) \subseteq 1..MaxCommits
    BY DEF CommitsOf
  <2>4. Cardinality(CommitsOf(w)) \in Nat /\ Cardinality(CommitsOf(w)) <= MaxCommits
    BY <2>2, <2>3, FS_Subset, FS_CardinalityType
  <2> QED
    BY <1>1, <2>1, <2>4 DEF WorkerHolds, WorkerRecords, MaxCommits
<1>3. TablesOK
  <2>1. \A b \in Bases : streaks[b].disposition \in Dispositions
    BY BaseFacts DEF Streaks
  <2>2. \A b \in Bases : candidates[b].status \in {Blank, "AWAITING_APPROVAL", "PROMOTED", "REJECTED"}
    BY BaseFacts DEF CandidateRecords
  <2>3. Current \in 1..MaxVersions /\ node.revision = Current
    <3>1. MaxVersions \in Nat /\ Len(node.versions) \in Nat
      BY TableTypes DEF MaxVersions
    <3> QED
      BY <3>1, TableTypes DEF GovernanceSound, Current
  <2>4. \A c \in Calls : call[c].pc \in {"idle", "lost", "load", "node", "streak", "commit", "done"}
    BY CallDecides DEF CallRecords
  <2> QED
    BY <1>2, <2>1, <2>2, <2>3, <2>4 DEF TablesOK
<1>4. LostReplyIsHarmless
  BY <1>2 DEF LostReplyIsHarmless, WorkerHolds, CommitsOf, Settled
<1>5. HostIsNeverBlamed
  BY <1>2 DEF HostIsNeverBlamed
<1> QED
  BY <1>3, <1>4, <1>5 DEF CommitsAreAnswered

\* Three different things are three.
LEMMA ThreeDistinct ==
  ASSUME NEW x, NEW y, NEW z, x # y, x # z, y # z
  PROVE  Cardinality({x, y, z}) = 3
<1>1. IsFiniteSet({x}) /\ Cardinality({x}) = 1
  BY FS_Singleton
<1>2. IsFiniteSet({x} \union {y}) /\ Cardinality({x} \union {y}) = 2
  BY <1>1, FS_AddElement
<1>3. Cardinality(({x} \union {y}) \union {z}) = 3
  BY <1>2, FS_AddElement
<1>4. {x, y, z} = ({x} \union {y}) \union {z}
  OBVIOUS
<1> QED
  BY <1>3, <1>4

\* Three contributions of three instances, all of them in the log.
LEMMA SoundStreaks == GovernanceSound => StreaksAreSound
<1> SUFFICES ASSUME GovernanceSound PROVE StreaksAreSound
  OBVIOUS
<1>1. UnreadableOnlyFromNothing
  BY BaseFacts DEF UnreadableOnlyFromNothing, Readable
<1>2. ASSUME NEW b \in Bases, streaks[b].disposition \in {"AUTO_PUBLISH", "AWAIT_APPROVAL", "REJECTED"}
      PROVE  /\ Cardinality({f.fact[1] : f \in Counted(b)}) = 3
             /\ \A f \in Counted(b) :
                  /\ f.outcome = "SUCCEEDED" /\ f.baseIsCurrent
                  /\ f.candidate = streaks[b].candidate /\ f.band = streaks[b].band
             /\ \A f \in Between(b) :
                  f.outcome # "ORIGINAL_RECOVERED" /\ f.candidate \in {Blank, streaks[b].candidate}
  <2> DEFINE k == streaks[b]
             cs == k.contributions
  <2>1. /\ StreakValid(k) /\ Evident(k, log) /\ Quiet(k, b, log) /\ Readable(k, b)
        /\ k \in Streaks(setting) /\ k.disposition \in Earning /\ k.disposition # "OBSERVING"
    BY <1>2, BaseFacts DEF Readable, Unstarted, Earning
  <2> HIDE DEF k
  <2>2. Len(cs) = 3 /\ ContributionsValid(cs) /\ DOMAIN cs = 1..3
    <3>1. DispositionValid(k)
      BY <1>2, <2>1 DEF StreakValid, Unstarted, k
    <3>2. cs \in Seq(Contributions(setting))
      BY <2>1 DEF Streaks
    <3> QED
      BY <1>2, <2>1, <3>1, <3>2 DEF DispositionValid, Readable, Required, k
  <2>3. \A j \in 1..3 :
          /\ cs[j].sequence \in 1..Len(log) /\ log[cs[j].sequence].fact[1] = cs[j].instance
          /\ log[cs[j].sequence].outcome = "SUCCEEDED" /\ log[cs[j].sequence].baseIsCurrent
          /\ log[cs[j].sequence].candidate = k.candidate /\ log[cs[j].sequence].band = k.band
    BY <2>1, <2>2 DEF Evident
  <2>4. cs[1].instance # cs[2].instance /\ cs[1].instance # cs[3].instance /\ cs[2].instance # cs[3].instance
    BY <2>2 DEF ContributionsValid, Clash
  <2>5. Counted(b) = {log[cs[j].sequence] : j \in 1..3}
    BY <2>2 DEF Counted, k
  <2>6. {f.fact[1] : f \in Counted(b)} = {cs[1].instance, cs[2].instance, cs[3].instance}
    <3>1. \A f \in Counted(b) : \E j \in 1..3 : f = log[cs[j].sequence]
      BY <2>5
    <3>2. \A f \in Counted(b) : f.fact[1] \in {cs[1].instance, cs[2].instance, cs[3].instance}
      BY <2>3, <3>1
    <3>3. /\ log[cs[1].sequence] \in Counted(b) /\ log[cs[2].sequence] \in Counted(b)
          /\ log[cs[3].sequence] \in Counted(b)
      BY <2>5
    <3>4. /\ cs[1].instance \in {f.fact[1] : f \in Counted(b)}
          /\ cs[2].instance \in {f.fact[1] : f \in Counted(b)}
          /\ cs[3].instance \in {f.fact[1] : f \in Counted(b)}
      BY <2>3, <3>3
    <3> QED
      BY <3>2, <3>4
  <2>7. Cardinality({f.fact[1] : f \in Counted(b)}) = 3
    <3>1. Cardinality({cs[1].instance, cs[2].instance, cs[3].instance}) = 3
      BY <2>4, ThreeDistinct
    <3> QED
      BY <2>6, <3>1, Zenon
  <2>8. ASSUME NEW f \in Between(b)
        PROVE  f.outcome # "ORIGINAL_RECOVERED" /\ f.candidate \in {Blank, k.candidate}
    <3>1. PICK m \in cs[1].sequence..cs[Len(cs)].sequence : log[m].base = b /\ f = log[m]
      BY DEF Between, k
    <3>2. m \in cs[1].sequence..Horizon(k, log)
      BY <2>1, <3>1 DEF Horizon
    <3> QED
      BY <2>1, <3>1, <3>2 DEF Quiet
  <2> QED
    BY <2>3, <2>5, <2>7, <2>8 DEF k
<1> QED
  BY <1>1, <1>2 DEF StreaksAreSound, PublicationIsEarned

\* The versions that were made of a base by one source.
LEMMA MadeOnce ==
  ASSUME GovernanceSound, NEW b \in Bases, NEW source, NEW candidate, NEW x \in BOOLEAN,
         Follower(node.versions, b, source) <=> x,
         x => node.versions[b + 1] = Version(source, b, candidate)
  PROVE  Cardinality({k \in 2..Current : node.versions[k] = Version(source, b, candidate)}) = IF x THEN 1 ELSE 0
<1> DEFINE S == {k \in 2..Current : node.versions[k] = Version(source, b, candidate)}
<1>1. /\ Current \in Nat /\ b \in Nat /\ b >= 1 /\ Len(node.versions) = Current
      /\ \A k \in 2..Current : node.versions[k].base = k - 1
  BY TableTypes, BaseFacts DEF Current, VersionsInOrder
<1>2. \A k \in S : k = b + 1 /\ node.versions[k].source = source
  <2>1. Version(source, b, candidate).base = b /\ Version(source, b, candidate).source = source
    BY DEF Version
  <2> QED
    BY <1>1, <2>1
<1>3. CASE x
  <2>1. b + 1 \in 2..Current
    BY <1>1, <1>3 DEF Follower
  <2>2. S = {b + 1}
    BY <1>2, <1>3, <2>1
  <2> QED
    BY <1>3, <2>2, FS_Singleton
<1>4. CASE ~x
  <2>1. \A k \in S : FALSE
    BY <1>1, <1>2, <1>4 DEF Follower
  <2>2. S = {}
    BY <2>1
  <2> QED
    BY <1>4, <2>2, FS_EmptySet
<1> QED
  BY <1>3, <1>4

\* One review, and one version for each decision.
LEMMA SoundReviews == GovernanceSound => ReviewsAreSound
<1> SUFFICES ASSUME GovernanceSound PROVE ReviewsAreSound
  OBVIOUS
<1>1. ReviewersAgree
  <2>1. Cardinality(DOMAIN reviews) <= 1
    <3>1. CASE DOMAIN reviews = {}
      BY <3>1, FS_EmptySet
    <3>2. CASE DOMAIN reviews # {}
      <4>1. PICK k \in DOMAIN reviews : TRUE
        BY <3>2
      <4>2. DOMAIN reviews = {k}
        BY <4>1 DEF GovernanceSound, ReviewersSound
      <4> QED
        BY <4>2, FS_Singleton
    <3> QED
      BY <3>1, <3>2
  <2>2. \A c \in Calls : call[c].answer # "contractViolation"
    BY CallDecides DEF CallHolds
  <2>3. ASSUME NEW c \in Calls, call[c].answer \in {"applied", "replayed"}
        PROVE  /\ CommandOf[c] \in DOMAIN reviews
               /\ candidates[Reviewed].status = IF DecisionOf[CommandOf[c]] = "APPROVE" THEN "PROMOTED" ELSE "REJECTED"
               /\ candidates[Reviewed].revision = 2
    <3>1. CommandOf[c] \in DOMAIN reviews
      BY <2>3, CallDecides DEF CallHolds
    <3>2. candidates[Reviewed].status = Status(DecisionOf[CommandOf[c]])
      BY <3>1 DEF GovernanceSound, ReviewersSound, ReviewHolds
    <3>3. CandidateFits(candidates[Reviewed], streaks[Reviewed])
      BY TableTypes, BaseFacts
    <3> QED
      BY <3>1, <3>2, <3>3 DEF Status, CandidateFits
  <2> QED
    BY <2>1, <2>2, <2>3 DEF ReviewersAgree
<1>2. VersionsFollowTheirBase
  BY TableTypes DEF VersionsFollowTheirBase, VersionsInOrder, Current
<1>3. ASSUME NEW b \in Bases
      PROVE  /\ Cardinality({k \in 2..Current : node.versions[k] = Version("auto", b, streaks[b].candidate)})
                  = IF streaks[b].disposition = "AUTO_PUBLISH" THEN 1 ELSE 0
             /\ Cardinality({k \in 2..Current : node.versions[k] = Version("review", b, candidates[b].hash)})
                  = IF candidates[b].status = "PROMOTED" THEN 1 ELSE 0
             /\ candidates[b].status = "REJECTED" <=> streaks[b].disposition = "REJECTED"
  <2> DEFINE x == streaks[b].disposition = "AUTO_PUBLISH"
             y == candidates[b].status = "PROMOTED"
  <2>1. VersionsFit(node.versions, b, streaks[b], candidates[b]) /\ CandidateFits(candidates[b], streaks[b])
    BY BaseFacts
  <2>2. /\ x \in BOOLEAN /\ (Follower(node.versions, b, "auto") <=> x)
        /\ x => node.versions[b + 1] = Version("auto", b, streaks[b].candidate)
    BY <2>1 DEF VersionsFit
  <2>3. /\ y \in BOOLEAN /\ (Follower(node.versions, b, "review") <=> y)
        /\ y => node.versions[b + 1] = Version("review", b, candidates[b].hash)
    BY <2>1 DEF VersionsFit
  <2>4. Cardinality({k \in 2..Current : node.versions[k] = Version("auto", b, streaks[b].candidate)})
          = IF x THEN 1 ELSE 0
    <3> HIDE DEF x
    <3> QED
      BY <2>2, MadeOnce
  <2>5. Cardinality({k \in 2..Current : node.versions[k] = Version("review", b, candidates[b].hash)})
          = IF y THEN 1 ELSE 0
    <3> HIDE DEF y
    <3> QED
      BY <2>3, MadeOnce
  <2> QED
    BY <2>1, <2>4, <2>5 DEF CandidateFits
<1> QED
  BY <1>1, <1>2, <1>3, Zenon DEF ReviewsAreSound, VersionsAnswerToDecisions

\* No applied commit is reported as a failure, a repeated one is answered from the
\* record, and the host is never told that its own sequences, effects or identities
\* conflict (LostReplyIsHarmless, HostIsNeverBlamed).
THEOREM CommitsTheorem == GovernanceSpec => []CommitsAreAnswered
BY GovernanceHolds, SoundCommits, PTL

\* A decision rests on three runs of three instances that healed alike, with nothing
\* against it in between (PublicationIsEarned), and only a streak that counted
\* nothing is unreadable (UnreadableOnlyFromNothing).
THEOREM StreaksTheorem == GovernanceSpec => []StreaksAreSound
BY GovernanceHolds, SoundStreaks, PTL

\* Reviewers are told one truth, every version answers to one decision, and every
\* version is made of the one before it (ReviewersAgree, VersionsAnswerToDecisions,
\* VersionsFollowTheirBase).
THEOREM ReviewsTheorem == GovernanceSpec => []ReviewsAreSound
BY GovernanceHolds, SoundReviews, PTL

\* A decision stands, except that a candidate that waits may be rejected (DecisionsStand).
THEOREM DecisionsTheorem == GovernanceSpec => DecisionsStand
<1>1. GovernanceSound /\ [GovernanceNext]_governanceVars =>
        [\A b \in Bases :
           /\ streaks[b].disposition \in {"AUTO_PUBLISH", "STALE", "REJECTED"} =>
                streaks'[b].disposition = streaks[b].disposition
           /\ streaks[b].disposition = "AWAIT_APPROVAL" =>
                streaks'[b].disposition \in {"AWAIT_APPROVAL", "REJECTED"}]_governanceVars
  BY GovernanceGoesOn DEF Stand, Advances
<1> QED
  BY <1>1, GovernanceHolds, PTL DEF GovernanceSpec, DecisionsStand
===============================================================================
