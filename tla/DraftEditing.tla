----------------------------- MODULE DraftEditing -----------------------------
(* The step tree of a sampling draft (domain/sampling: draft.go, workspace.go,  *)
(* rewrite.go), what its functions compute from it, and its editing: each       *)
(* command takes a draft and returns a new one or an error, and the host keeps  *)
(* the last one. A step has an id, the element target it names (None: none) and *)
(* containers: the children of a REPEAT under the branch None, the branches of  *)
(* a GROUP under their ids.                                                     *)
EXTENDS Naturals, Sequences, FiniteSets, SequencesExt

CONSTANT None
Blank == ""

Rejected(code) == [ok |-> FALSE, code |-> code, value |-> <<>>]
Done(value) == [ok |-> TRUE, code |-> "OK", value |-> value]

RECURSIVE walkSamplingSteps(_)
\* Every step of the tree, parents first, branches in order.
walkSamplingSteps(steps) ==
  FlattenSeq([i \in DOMAIN steps |->
    <<steps[i]>> \o FlattenSeq([b \in DOMAIN steps[i].kids |-> walkSamplingSteps(steps[i].kids[b].steps)])])

StepIDs(steps) == LET all == walkSamplingSteps(steps) IN [i \in DOMAIN all |-> all[i].id]
StepsOf(steps) == Range(walkSamplingSteps(steps))

\* A container is the id of its parent step and of its branch.
Root == <<None, None>>
RECURSIVE Within(_, _, _, _)
\* The tree, of which "steps" are in container "here", with "new" in another.
Within(steps, here, where, new) ==
  IF here = where THEN new
  ELSE [i \in DOMAIN steps |->
         [steps[i] EXCEPT !.kids = [b \in DOMAIN @ |->
           [@[b] EXCEPT !.steps = Within(@, <<steps[i].id, steps[i].kids[b].branch>>, where, new)]]]]
Refill(steps, where, new) == Within(steps, Root, where, new)

RECURSIVE Pruned(_, _)
\* The tree without the step and everything it holds.
Pruned(steps, id) ==
  LET kept == SelectSeq(steps, LAMBDA s : s.id # id)
  IN [i \in DOMAIN kept |->
       [kept[i] EXCEPT !.kids = [b \in DOMAIN @ |-> [@[b] EXCEPT !.steps = Pruned(@, id)]]]]

RECURSIVE Replaced(_, _)
\* The tree with the step in the place of the one with its id.
Replaced(steps, step) ==
  [i \in DOMAIN steps |->
    IF steps[i].id = step.id THEN step
    ELSE [steps[i] EXCEPT !.kids = [b \in DOMAIN @ |-> [@[b] EXCEPT !.steps = Replaced(@, step)]]]]

\* The steps that the container holds, or why it has none.
locateFlowFragmentStepContainer(steps, container) ==
  LET parents == {s \in StepsOf(steps) : s.id = container[1]}
      held == {k.steps : k \in UNION {{x \in Range(s.kids) : x.branch = container[2]} : s \in parents}}
  IN IF container = Root THEN Done(steps)
     ELSE IF container[1] = None THEN Rejected("DRAFT_INVALID")
     ELSE IF parents = {} THEN Rejected("STEP_NOT_FOUND")
     ELSE IF held = {} THEN Rejected("DRAFT_INVALID")
     ELSE Done(CHOOSE h \in held : TRUE)

--------------------------------------------------------------------------------
(* The checks every edit ends with. A draft is its steps, the ids of its        *)
(* element targets in order, the steps that name each, and the captured ids.    *)
validateUnpublishedFlowFragmentIdentity(d) ==
  /\ IsInjective(d.nodes)
  /\ IsInjective(StepIDs(d.steps))
  /\ Blank \notin Range(StepIDs(d.steps))

References(d, n) ==
  LET named == SelectSeq(walkSamplingSteps(d.steps), LAMBDA s : s.target = n)
  IN [i \in DOMAIN named |-> named[i].id]

\* Mutant: only the steps at the root are visited.
RebuildAtRoot(d) ==
  LET At(n) == SelectSeq(d.steps, LAMBDA s : s.target = n) IN
  IF \E s \in StepsOf(d.steps) : s.target \notin Range(d.nodes) \union {None} THEN Rejected("WORKSPACE_INVALID")
  ELSE Done([d EXCEPT !.refs = [n \in Range(d.nodes) |-> [i \in DOMAIN At(n) |-> At(n)[i].id]]])
\* The references are written only when every step names a target of the draft.
RebuildUnpublishedElementTargetReferences(d) ==
  IF \E s \in StepsOf(d.steps) : s.target \notin Range(d.nodes) \union {None} THEN Rejected("WORKSPACE_INVALID")
  ELSE Done([d EXCEPT !.refs = [n \in Range(d.nodes) |-> References(d, n)]])

finalizeUnpublishedFlowFragment(d) ==
  IF ~validateUnpublishedFlowFragmentIdentity(d) THEN Rejected("DRAFT_INVALID")
  ELSE RebuildUnpublishedElementTargetReferences(d)

--------------------------------------------------------------------------------
(* The rewriting of temporary targets to formal ones. A mapping has the fields  *)
(* temporary, target and version (None: blank).                                 *)
RECURSIVE rewriteSamplingSteps(_, _)
rewriteSamplingSteps(steps, formal) ==
  [i \in DOMAIN steps |->
    [id |-> steps[i].id,
     target |-> IF steps[i].target = None THEN <<None, None>> ELSE formal[steps[i].target],
     kids |-> [b \in DOMAIN steps[i].kids |->
                [branch |-> steps[i].kids[b].branch,
                 steps |-> rewriteSamplingSteps(steps[i].kids[b].steps, formal)]]]]

ReferencedTargets(steps) == {s.target : s \in StepsOf(steps)} \ {None}
RewriteUnpublishedElementTargetReferences(steps, mappings) ==
  LET of == [i \in DOMAIN mappings |-> mappings[i].temporary]
      formal == [t \in Range(of) |->
                  LET m == mappings[CHOOSE i \in DOMAIN of : of[i] = t] IN <<m.target, m.version>>]
  IN IF \/ ~IsInjective(of)
        \/ \E m \in Range(mappings) : None \in {m.temporary, m.target, m.version}
        \/ Range(of) # ReferencedTargets(steps)
     THEN Rejected("PUBLICATION_MAPPING_INVALID")
     ELSE Done(rewriteSamplingSteps(steps, formal))

--------------------------------------------------------------------------------
(* Editing.                                                                     *)
CONSTANTS
  Drafts,          \* the drafts a host starts from
  NewSteps,        \* steps that are inserted or replace others
  IDs, Targets,
  Mappings,        \* sequences of mappings from temporary to formal targets
  Containers,      \* containers that a host names, those that are not there too
  MaxSteps         \* bound: the steps of a draft that grows

VARIABLES draft, answer
vars == <<draft, answer>>

Init == draft \in Drafts /\ answer = "NONE"

\* The host stores what a command returns, unless it returns an error.
Keep(op, r) ==
  /\ draft' = IF r.ok THEN r.value ELSE draft
  /\ answer' = IF r.ok THEN op ELSE r.code

InsertIn(d, container, index, step) ==
  LET at == locateFlowFragmentStepContainer(d.steps, container) IN
  IF ~at.ok THEN at
  ELSE IF index \notin 0..Len(at.value) THEN Rejected("INDEX_OUT_OF_RANGE")
  ELSE finalizeUnpublishedFlowFragment(
         [d EXCEPT !.steps = Refill(@, container, InsertAt(at.value, index + 1, step))])

\* Only the id that is asked for leaves the captured ones, not those it holds.
DeleteIn(d, id) ==
  IF id \notin Range(StepIDs(d.steps)) THEN Rejected("STEP_NOT_FOUND")
  ELSE finalizeUnpublishedFlowFragment(
         [d EXCEPT !.steps = Pruned(@, id), !.captured = SelectSeq(@, LAMBDA x : x # id)])

\* Environment: how many steps the host lets a draft have.
Room(n) == Len(walkSamplingSteps(draft.steps)) + n <= MaxSteps

InsertUnpublishedFlowFragmentStep ==
  \E step \in NewSteps, container \in Containers, index \in 0..2 :
    Room(Len(walkSamplingSteps(<<step>>))) /\ Keep("INSERT", InsertIn(draft, container, index, step))

\* The replacement is visited too: one that holds a step with its own id is
\* replaced inside itself without end.
NeverReturns == [ok |-> FALSE, code |-> "NEVER_RETURNS", value |-> <<>>]
UpdateIn(d, step) ==
  IF step.id = Blank THEN Rejected("DRAFT_INVALID")
  ELSE IF step.id \notin Range(StepIDs(d.steps)) THEN Rejected("STEP_NOT_FOUND")
  ELSE IF step.id \in Range(Tail(StepIDs(<<step>>))) THEN NeverReturns
  ELSE finalizeUnpublishedFlowFragment([d EXCEPT !.steps = Replaced(@, step)])

UpdateUnpublishedFlowFragmentStep ==
  \E step \in NewSteps :
    Room(Len(walkSamplingSteps(<<step>>))) /\ Keep("UPDATE", UpdateIn(draft, step))

DeleteUnpublishedFlowFragmentStep == \E id \in IDs : Keep("DELETE", DeleteIn(draft, id))

\* Deleting comes first, so a step is never put into what it holds itself.
MoveIn(d, id, container, index) ==
  LET moved == CHOOSE s \in StepsOf(d.steps) : s.id = id
      without == DeleteIn(d, id)
  IN IF ~without.ok THEN without ELSE InsertIn(without.value, container, index, moved)

MoveUnpublishedFlowFragmentStep ==
  \E id \in IDs, container \in Containers, index \in 0..2 :
    Keep("MOVE", MoveIn(draft, id, container, index))

\* Mutant: the ids that are given are enough, those that are missing are dropped.
ReorderGiven(d, container, ordered) ==
  LET at == locateFlowFragmentStepContainer(d.steps, container)
      of(id) == CHOOSE s \in Range(at.value) : s.id = id
  IN IF ~at.ok THEN at
     ELSE IF \E i \in DOMAIN ordered : ordered[i] \notin {s.id : s \in Range(at.value)}
     THEN Rejected("DRAFT_INVALID")
     ELSE finalizeUnpublishedFlowFragment(
            [d EXCEPT !.steps = Refill(@, container, [i \in DOMAIN ordered |-> of(ordered[i])])])
ReorderIn(d, container, ordered) ==
  LET at == locateFlowFragmentStepContainer(d.steps, container)
      byID == {s.id : s \in Range(at.value)}
      of(id) == CHOOSE s \in Range(at.value) : s.id = id
  IN IF ~at.ok THEN at
     ELSE IF Len(ordered) # Cardinality(byID) \/ Range(ordered) # byID THEN Rejected("DRAFT_INVALID")
     ELSE finalizeUnpublishedFlowFragment(
            [d EXCEPT !.steps = Refill(@, container, [i \in DOMAIN ordered |-> of(ordered[i])])])

ReorderUnpublishedFlowFragmentSteps ==
  \E container \in Containers, n \in 0..2 : \E ordered \in [1..n -> IDs] :
    Keep("REORDER", ReorderIn(draft, container, ordered))

DeleteTargetIn(d, n) ==
  IF n \notin Range(d.nodes) THEN Rejected("TARGET_NOT_FOUND")
  ELSE IF d.refs[n] # <<>> THEN Rejected("TARGET_IN_USE")
  ELSE finalizeUnpublishedFlowFragment([d EXCEPT !.nodes = SelectSeq(@, LAMBDA x : x # n)])

DeleteUnpublishedElementTarget == \E n \in Targets : Keep("DELETE_TARGET", DeleteTargetIn(draft, n))

Next ==
  \/ InsertUnpublishedFlowFragmentStep \/ UpdateUnpublishedFlowFragmentStep
  \/ DeleteUnpublishedFlowFragmentStep \/ MoveUnpublishedFlowFragmentStep
  \/ ReorderUnpublishedFlowFragmentSteps \/ DeleteUnpublishedElementTarget

Spec == Init /\ [][Next]_vars

--------------------------------------------------------------------------------
\* Every step with the container that it stands in.
Holders(d) ==
  {<<s.id, Root>> : s \in Range(d.steps)} \union
    UNION {UNION {{<<c.id, <<s.id, k.branch>>>> : c \in Range(k.steps)} : k \in Range(s.kids)}
           : s \in StepsOf(d.steps)}

TypeOK ==
  /\ Range(StepIDs(draft.steps)) \subseteq IDs
  /\ Range(draft.nodes) \subseteq Targets
  /\ DOMAIN draft.refs = Range(draft.nodes)

\* Whatever the host edits, no two steps of its draft share an id at any depth:
\* every command finds by id the step it is meant to find
\* (draft.go, the identity check that every command ends with).
StepsAreFoundByID == IsInjective(StepIDs(draft.steps))

\* The list of steps that a target keeps is exactly who names it, in the order of
\* the tree, and nobody names a target that is gone: the list decides whether the
\* target may be deleted (workspace.go, DeleteUnpublishedElementTarget).
ReferencesAreTheTree ==
  /\ \A n \in Range(draft.nodes) : draft.refs[n] = References(draft, n)
  /\ ReferencedTargets(draft.steps) \subseteq Range(draft.nodes)

\* The mappings that a publication made for a draft are accepted exactly when they
\* are for the targets that its steps name now, and then every step, at any depth,
\* names the formal target of the one it named, and no other
\* (rewrite.go; an edit between the mapping and the rewriting makes it stale).
StaleMappingsAreRefused ==
  \A mappings \in Mappings :
    LET r == RewriteUnpublishedElementTargetReferences(draft.steps, mappings)
        named == {n \in Range(draft.nodes) : draft.refs[n] # <<>>}
        before == walkSamplingSteps(draft.steps)
    IN /\ r.ok <=> {m.temporary : m \in Range(mappings)} = named /\ Len(mappings) = Cardinality(named)
       /\ r.ok => LET after == walkSamplingSteps(r.value) IN
            /\ Len(after) = Len(before)
            /\ \A i \in DOMAIN after : \A m \in Range(mappings) :
                 /\ after[i].id = before[i].id
                 /\ before[i].target = m.temporary <=> after[i].target = <<m.target, m.version>>

\* Moving a step, into a container it holds itself too, and reordering a container
\* lose no step and double none, and a reordering leaves every step where it
\* stands (MoveUnpublishedFlowFragmentStep is a deletion and an insertion).
MovesKeepEveryStep ==
  [][/\ answer' \in {"MOVE", "REORDER"} => Range(StepIDs(draft'.steps)) = Range(StepIDs(draft.steps))
     /\ answer' = "REORDER" => Holders(draft') = Holders(draft)]_vars

\* Deleting a step takes what it holds with it and nothing else: every other step
\* stays in its container.
DeletionTakesTheSubtree ==
  [][answer' = "DELETE" /\ draft' # draft =>
       /\ Holders(draft') \subseteq Holders(draft)
       /\ \E s \in StepsOf(draft.steps) :
            Range(StepIDs(draft'.steps)) = Range(StepIDs(draft.steps)) \ Range(StepIDs(<<s>>))]_vars

\* A draft is found, referenced and rewritten by what its tree is (draft.go).
DraftsAreSound == TypeOK /\ StepsAreFoundByID /\ ReferencesAreTheTree /\ StaleMappingsAreRefused
================================================================================
