------------------------------- MODULE StepShape -------------------------------
(* What a step of a flow may carry. A step is one record for six kinds          *)
(* (domain/automation/assets.go), so that an editor who changes the kind leaves  *)
(* fields behind. It is judged twice: when it is published (assets.go,           *)
(* workflow_validation.go) and when an instance freezes it (domain/execution/    *)
(* step_shape.go), and then compiled (application/engine/compiler.go). Here an   *)
(* editor fills in the fields of one step, and both judgements are compared.     *)
EXTENDS Naturals, Integers, Sequences, FiniteSets, Functions

CONSTANTS
  Empty,            \* an empty text, or no payload
  Spaces,           \* a text of spaces alone
  MaxWaitMS,        \* longest wait an instance may freeze
  MaxRepeatCount,   \* highest count an instance may freeze
  MaxForeign,       \* how many fields of other kinds the editor leaves behind
  MaxComparisons    \* how many fields of an assertion the editor fills in
ASSUME LimitsAssumption == MaxWaitMS \in Nat /\ MaxRepeatCount \in Nat
ASSUME EmptyAssumption ==
  Empty \notin {"element", "element_visible", "element_invisible", "navigate", "input", "select", "press"}

StepKinds == {"ACTION", "WAIT", "REPEAT", "WORKFLOW_REF", "VALIDATION", "VALIDATION_GROUP", "OTHER"}
Roles == {"root", "nested", "member"}   \* of the flow, of a repeat, of a branch of a group
\* One assertion for all that are treated alike.
AssertionKinds == {"visible", "text_equals", "text_matches", "selected_set_equals", "attribute_equals", "odd"}

Blank ==
  [action |-> Empty, target |-> Empty, version |-> Empty, value |-> Empty, values |-> <<>>,
   waitKind |-> Empty, waitMS |-> 0, repeatCount |-> 0, optional |-> FALSE, children |-> <<>>,
   reference |-> Empty, validation |-> Empty, group |-> Empty]
StepFields == DOMAIN Blank

NoWait == [max |-> 0, stability |-> 0]
Waits == {NoWait, [max |-> 1000, stability |-> 200], [max |-> 1000, stability |-> 1000], [max |-> 60001, stability |-> 200]}

VARIABLES kind, role, step
shapeVars == <<kind, role, step>>

Given == {f \in StepFields : step[f] # Blank[f]}
IsBlank(text) == text \in {Empty, Spaces}

--------------------------------------------------------------------------------
(* Publication.                                                                 *)
Comparison(v) ==
  {f \in {"expected", "attribute"} : v[f] # Empty} \union
  {f \in {"expectedValues"} : v[f] # <<>>} \union {f \in {"ignoreCase"} : v[f]}

\* What its kind compares; of an unknown kind, what it has.
Compared(v) ==
  CASE v.kind = "visible" -> {}
    [] v.kind = "text_matches" -> {"expected"}
    [] v.kind = "selected_set_equals" -> {"expectedValues"}
    [] v.kind = "attribute_equals" -> {"expected", "attribute", "ignoreCase"}
    [] v.kind = "text_equals" -> {"expected", "ignoreCase"}
    [] OTHER -> Comparison(v)
Normalized(v) ==
  LET none == [expected |-> Empty, expectedValues |-> <<>>, attribute |-> Empty, ignoreCase |-> FALSE]
  IN [f \in DOMAIN v |-> IF f \in DOMAIN none \ Compared(v) THEN none[f] ELSE v[f]]

\* An expected text is plain, not a regular expression, a template, or a template that does not end.
AssertionValid(v) ==
  CASE v.kind = "visible" -> Comparison(v) = {}
    [] v.kind = "text_equals" -> Comparison(v) \subseteq {"expected", "ignoreCase"}
    [] v.kind = "text_matches" -> Comparison(v) \subseteq {"expected"} /\ v.expected # "broken"
    [] v.kind = "selected_set_equals" -> Comparison(v) \subseteq {"expectedValues"}
    [] v.kind = "attribute_equals" -> v.expectedValues = <<>> /\ v.attribute = "name"
    [] OTHER -> FALSE

WaitValid(w) ==
  w.max >= 1000 /\ w.max <= 60000 /\ w.stability >= 200 /\ w.stability <= 5000 /\ w.stability < w.max

isElementWaitKind(k) == k \in {"element", "element_visible", "element_invisible"}
TargetRequired == ~IsBlank(step.target) /\ ~IsBlank(step.version)

\* Mutant: a press without a key is published.
ActionValidUnpressed ==
  /\ Given \subseteq {"action", "target", "version", "value", "values", "optional"}
  /\ step.action \in {"click", "input", "select", "hover", "navigate", "press", "noop", "extract"}
  /\ step.action \in {"navigate", "press"} \/ ~IsBlank(step.target)
  /\ IsBlank(step.target) <=> IsBlank(step.version)
  /\ step.action \in {"navigate", "extract"} => ~IsBlank(step.value)
  /\ step.action = "select" => ~IsBlank(step.value) \/ step.values # <<>>
ActionValid ==
  /\ Given \subseteq {"action", "target", "version", "value", "values", "optional"}
  /\ step.action \in {"click", "input", "select", "hover", "navigate", "press", "noop", "extract"}
  /\ step.action \in {"navigate", "press"} \/ ~IsBlank(step.target)
  /\ IsBlank(step.target) <=> IsBlank(step.version)
  /\ step.action \in {"navigate", "press", "extract"} => ~IsBlank(step.value)
  /\ step.action = "select" => ~IsBlank(step.value) \/ step.values # <<>>

WaitStepValid ==
  /\ Given \subseteq {"waitKind", "waitMS"} \union
                    IF isElementWaitKind(step.waitKind) THEN {"target", "version"} ELSE {}
  /\ \/ step.waitKind \in {Empty, "sleep"} /\ step.waitMS > 0
     \/ isElementWaitKind(step.waitKind) /\ TargetRequired /\ step.waitMS >= 0
     \/ step.waitKind = "network_idle" /\ step.waitMS >= 0

RepeatValid == Given \subseteq {"repeatCount", "children"} /\ step.repeatCount >= 1 /\ step.children # <<>>

ReferenceValid ==
  /\ Given = {"reference"}
  /\ ~IsBlank(step.reference.fragment)
  /\ step.reference.latest <=> IsBlank(step.reference.version)

validateStandaloneValidationStep ==
  /\ step.validation # Empty /\ Given \subseteq {"target", "version", "validation"}
  /\ TargetRequired /\ AssertionValid(step.validation)
  /\ IF role = "member" THEN step.validation.wait = NoWait ELSE WaitValid(step.validation.wait)

validateValidationGroupStep ==
  LET sizes == step.group.sizes IN
  /\ step.group # Empty /\ Given = {"group"}
  /\ WaitValid(step.group.wait)
  /\ Len(sizes) \in 1..5 /\ \A b \in DOMAIN sizes : sizes[b] \in 1..10
  /\ SumFunction(sizes) <= 20

Publishable ==
  IF role = "member" THEN kind = "VALIDATION" /\ validateStandaloneValidationStep
  ELSE CASE kind = "ACTION" -> ActionValid
         [] kind = "WAIT" -> WaitStepValid
         [] kind = "REPEAT" -> RepeatValid
         [] kind = "WORKFLOW_REF" -> ReferenceValid
         [] kind = "VALIDATION" -> role = "root" /\ validateStandaloneValidationStep
         [] kind = "VALIDATION_GROUP" -> role = "root" /\ validateValidationGroupStep
         [] OTHER -> FALSE

--------------------------------------------------------------------------------
(* The frozen plan. mapSteps copies every field; a reference gets the version it *)
(* was resolved to.                                                             *)
\* The variables of a text can be named (interpolation.Names).
Interpolates(text) == text # "unclosed"
InterpolatedActions == {"navigate", "input", "select", "press"}
\* An absolute HTTP(S) URL without credentials or control characters, and with variables
\* after its authority alone (validateSealedNavigationURL).
Navigable(text) == text = "url"

FrozenAssertion(v) ==
  /\ Interpolates(v.expected) /\ \A i \in DOMAIN v.expectedValues : Interpolates(v.expectedValues[i])
  /\ CASE v.kind = "visible" -> Comparison(v) = {}
       [] v.kind = "text_equals" -> v.expectedValues = <<>> /\ v.attribute = Empty
       [] v.kind = "text_matches" ->
            v.expectedValues = <<>> /\ v.attribute = Empty /\ ~v.ignoreCase /\ v.expected # "broken"
       [] v.kind = "selected_set_equals" -> v.expected = Empty /\ v.attribute = Empty /\ ~v.ignoreCase
       [] v.kind = "attribute_equals" -> v.attribute = "name" /\ v.expectedValues = <<>>
       [] OTHER -> FALSE

validateValidationWait(maxWait, stability) ==
  maxWait >= 1000 /\ maxWait <= 60000 /\ stability >= 200 /\ stability <= 5000 /\ stability < maxWait

validateActionInto ==
  /\ Given \intersect {"validation", "group", "reference", "waitKind", "waitMS", "repeatCount", "children"} = {}
  /\ step.action \in {"click", "input", "select", "hover", "navigate", "press", "noop", "extract"}
  /\ step.action \notin {"navigate", "press"} => ~IsBlank(step.target)
  /\ ~IsBlank(step.target) => ~IsBlank(step.version)
  /\ step.action \in {"navigate", "press", "extract"} => ~IsBlank(step.value)
  /\ step.action = "navigate" => Navigable(step.value)
  /\ step.action \in InterpolatedActions =>
       Interpolates(step.value) /\ \A i \in DOMAIN step.values : Interpolates(step.values[i])
  /\ step.action = "select" => ~IsBlank(step.value) \/ step.values # <<>>

validateWaitInto ==
  /\ Given \intersect {"validation", "group", "action", "value", "values", "repeatCount", "reference",
                       "children", "optional"} = {}
  /\ isElementWaitKind(step.waitKind) \/ (step.target = Empty /\ step.version = Empty)
  /\ step.waitMS <= MaxWaitMS
  /\ \/ step.waitKind \in {Empty, "sleep"} /\ step.waitMS > 0
     \/ isElementWaitKind(step.waitKind) /\ TargetRequired /\ step.waitMS >= 0
     \/ step.waitKind = "network_idle" /\ step.waitMS >= 0

validateRepeatInto ==
  /\ Given \subseteq {"repeatCount", "children"} /\ step.children # <<>>
  /\ step.repeatCount \in 1..MaxRepeatCount

\* A parent's value is not there yet: only the form of what does not resolve is judged.
BindingFits(b) == ~IsBlank(b.name) /\ b.kind \in {"literal", "parent"}
validateReferenceInto ==
  /\ Given = {"reference"} /\ ~IsBlank(step.reference.fragment)
  /\ \A b \in step.reference.bindings : BindingFits(b)

validateValidationStepInto ==
  /\ step.validation # Empty /\ Given \subseteq {"target", "version", "validation"}
  /\ TargetRequired /\ FrozenAssertion(step.validation)
  /\ LET w == step.validation.wait
     IN IF role = "member" THEN w = NoWait ELSE validateValidationWait(w.max, w.stability)

validateValidationGroupInto ==
  /\ Given = {"group"} /\ validateValidationWait(step.group.wait.max, step.group.wait.stability)
  /\ Len(step.group.sizes) \in 1..5
  /\ \A b \in DOMAIN step.group.sizes : step.group.sizes[b] \in 1..10
  /\ SumFunction(step.group.sizes) <= 20

Frozen ==
  IF role = "member" THEN kind = "VALIDATION" /\ validateValidationStepInto
  ELSE CASE kind = "ACTION" -> validateActionInto
         [] kind = "WAIT" -> validateWaitInto
         [] kind = "REPEAT" -> validateRepeatInto
         [] kind = "WORKFLOW_REF" -> validateReferenceInto
         [] kind = "VALIDATION" -> role = "root" /\ validateValidationStepInto
         [] kind = "VALIDATION_GROUP" -> role = "root" /\ validateValidationGroupInto
         [] OTHER -> FALSE

--------------------------------------------------------------------------------
(* The compiler. The plan holds the nodes its steps name, by real identities.   *)
DependencyHeld == step.target # Empty => ~IsBlank(step.target) /\ ~IsBlank(step.version)
spec == ~IsBlank(step.target) /\ ~IsBlank(step.version)
Compiles ==
  CASE kind = "ACTION" -> step.target # Empty => spec
    [] kind = "WAIT" ->
         /\ step.waitMS >= 0
         /\ step.waitKind \in {Empty, "sleep", "network_idle"} \/ isElementWaitKind(step.waitKind)
         /\ isElementWaitKind(step.waitKind) => spec
    [] kind = "VALIDATION" -> step.validation # Empty /\ spec
    [] kind = "VALIDATION_GROUP" -> step.group # Empty
    [] kind = "WORKFLOW_REF" -> step.reference # Empty
    [] kind = "REPEAT" -> TRUE
    [] OTHER -> FALSE

--------------------------------------------------------------------------------
(* The editor.                                                                  *)
Texts == {Spaces, "plain", "unclosed", "url"}
GoodWait == [max |-> 1000, stability |-> 200]
Assertions ==
  [kind : AssertionKinds, expected : {Empty}, expectedValues : {<<>>}, attribute : {Empty}, ignoreCase : {FALSE},
   wait : {NoWait, GoodWait}] \union
  [kind : {"visible"}, expected : {Empty}, expectedValues : {<<>>}, attribute : {Empty}, ignoreCase : {FALSE}, wait : Waits]
Groups ==
  [wait : {GoodWait}, sizes : {<<>>, <<1>>, <<0>>, <<11>>, <<10, 10>>, <<10, 10, 1>>, <<1, 1, 1, 1, 1, 1>>}] \union
  [wait : Waits, sizes : {<<1>>}]
Bindings == [name : {Spaces, "parameter"}, kind : {"literal", "parent", "malformed"}]
BoundReferences ==
  [fragment : {Empty, Spaces, "flow"}, latest : BOOLEAN, version : {Empty, Spaces, "version"}, bindings : {{}}] \union
  [fragment : {"flow"}, latest : {TRUE}, version : {Empty}, bindings : {{b} : b \in Bindings}]
Offered(f) ==
  CASE f = "action" -> {"click", "select", "navigate", "press", "odd"}
    [] f \in {"target", "version"} -> {Spaces, f}
    [] f = "value" -> Texts
    [] f = "values" -> {<<"plain">>, <<"unclosed">>}
    [] f = "waitKind" -> {"sleep", "element", "element_visible", "network_idle", "odd"}
    [] f = "waitMS" -> {-1, 1, MaxWaitMS, MaxWaitMS + 1}
    [] f = "repeatCount" -> {-1, 1, MaxRepeatCount, MaxRepeatCount + 1}
    [] f = "optional" -> {TRUE}
    [] f = "children" -> {<<"child">>}
    [] f = "reference" -> BoundReferences
    [] f = "validation" -> Assertions
    [] f = "group" -> Groups
Comparisons(f) ==
  CASE f = "expected" -> {"plain", "broken", "template", "unclosed"}
    [] f = "expectedValues" -> {<<"plain">>, <<"unclosed">>}
    [] f = "attribute" -> {Spaces, "name", "template"}
    [] f = "ignoreCase" -> {TRUE}

Own ==
  CASE kind = "ACTION" -> {"action", "target", "version", "value", "values", "optional"}
    [] kind = "WAIT" -> {"waitKind", "waitMS", "target", "version"}
    [] kind = "REPEAT" -> {"repeatCount", "children"}
    [] kind = "WORKFLOW_REF" -> {"reference"}
    [] kind = "VALIDATION" -> {"validation", "target", "version"}
    [] kind = "VALIDATION_GROUP" -> {"group"}
    [] OTHER -> {}

ShapeInit == kind \in StepKinds /\ role \in Roles /\ step = Blank
FillIn ==
  /\ \E f \in StepFields \ Given :
       /\ f \in Own \/ Cardinality(Given \ Own) < MaxForeign
       /\ \E v \in Offered(f) : step' = [step EXCEPT ![f] = v]
  /\ UNCHANGED <<kind, role>>
Compare ==
  /\ kind = "VALIDATION" /\ step.validation # Empty /\ Cardinality(Comparison(step.validation)) < MaxComparisons
  /\ \E f \in {"expected", "expectedValues", "attribute", "ignoreCase"} : \E v \in Comparisons(f) :
       f \notin Comparison(step.validation) /\ step' = [step EXCEPT !.validation[f] = v]
  /\ UNCHANGED <<kind, role>>
SwitchAssertion ==
  /\ kind = "VALIDATION" /\ step.validation # Empty
  /\ \E k \in AssertionKinds :
       step' = [step EXCEPT !.validation = Normalized([step.validation EXCEPT !.kind = k])]
  /\ UNCHANGED <<kind, role>>
ShapeNext == FillIn \/ Compare \/ SwitchAssertion
ShapeSpec == ShapeInit /\ [][ShapeNext]_shapeVars

--------------------------------------------------------------------------------
\* What publication leaves to the plan: the longest wait, the highest count, the texts
\* whose variables are read when the step runs, the address of a page and the bindings
\* of a reference.
LeftToThePlan ==
  \/ step.waitMS > MaxWaitMS
  \/ step.repeatCount > MaxRepeatCount
  \/ step.action \in InterpolatedActions /\ (~Interpolates(step.value) \/ <<"unclosed">> = step.values)
  \/ step.action = "navigate" /\ ~Navigable(step.value)
  \/ step.reference # Empty /\ \E b \in step.reference.bindings : ~BindingFits(b)
  \/ step.validation # Empty /\ (~Interpolates(step.validation.expected) \/ <<"unclosed">> = step.validation.expectedValues)

\* A published step is refused when an instance is created exactly for what publication
\* leaves to the plan, and for nothing else: the two judgements of a step, written twice,
\* differ in these and agree in the rest (FlowFragmentAggregate.Validate,
\* WorkflowSnapshot.Validate).
PublishedRuns == Publishable => (Frozen <=> ~LeftToThePlan)

\* A published step carries nothing of another kind: what an editor leaves behind
\* after a change of kind is found (docs/domains/automation.md, line 34).
NothingLeftBehind == Publishable => Given \subseteq Own

\* What the plan holds can be compiled: the compiler never meets a step of a kind, of
\* a wait or without a target that it has no case for (executionCompiler.compileSteps).
FrozenCompiles == Frozen /\ DependencyHeld => Compiles

\* An assertion that was switched to a kind and normalised compares only what the kind
\* compares; it is refused for its own texts alone (ValidationAssertion.Normalized).
NormalizedFits ==
  step.validation # Empty =>
    LET v == Normalized(step.validation)
    IN /\ Normalized(v) = v
       /\ \/ AssertionValid(v)
          \/ v.kind = "odd"
          \/ v.kind = "attribute_equals" /\ v.attribute # "name"
          \/ v.kind = "text_matches" /\ v.expected = "broken"

\* The three judgements of one step agree: what is published is clean and can be frozen
\* unless it breaks a rule that the plan alone has, what is frozen can be compiled, what
\* is normalised fits (assets.go, step_shape.go, compiler.go).
ShapesAgree == NothingLeftBehind /\ PublishedRuns /\ FrozenCompiles /\ NormalizedFits
================================================================================
