------------------------------ MODULE MCElements -------------------------------
(* Small instances of the life of an element of a page: it is recorded             *)
(* (SamplingSession) and matched with what is known (SamplingMatch), the draft     *)
(* that names it is edited (DraftEditing), its steps are published and frozen      *)
(* (StepShape), and when it is lost another takes its place (HealDecision,         *)
(* HealDistance). They are checked side by side and share nothing: `part` says     *)
(* which of them moves, the others rest in one of their first states.              *)
EXTENDS SamplingMatch, SamplingSession, StepShape, TLC

\* Every two lists of selectors, every agreement of two signals.
MCLists == UNION {[1..n -> Selectors] : n \in 0..3}
MCSignals ==
  {[s \in Signals |-> CASE s = "tag" -> "x" [] s = "role" -> r [] s = "name" -> n [] OTHER -> "x"] :
     r \in Values \union {NoSignal}, n \in {"x", NoSignal}}
MCProfiles == [selectors : MCLists, signals : MCSignals]
MatchAtRest == sampled = baseline /\ sampled = [selectors |-> <<>>, signals |-> [s \in Signals |-> "x"]]

--------------------------------------------------------------------------------
(* Healing: a button that was lost, with the default policy. Every similarity of  *)
(* these fingerprints is an exact share of 12.                                    *)
CONSTANT None   \* what a page or a draft does not tell

Weights ==
  [tag |-> 15, id |-> 20, roleName |-> 20, class |-> 10, attrs |-> 10, text |-> 10,
   index |-> 5, neighbor |-> 10, labelText |-> 15, container |-> 10, framework |-> 0]

Button ==
  [tag |-> "button", id |-> "ok", classes |-> {"big", "blue"}, attrs |-> {<<"name", "go">>, <<"type", "submit">>},
   role |-> "button", name |-> "Go", text |-> <<"g", "o">>, path |-> <<"html", "form">>, index |-> 1,
   prev |-> "input", next |-> None, parent |-> "form", label |-> <<"g">>, form |-> "login", frameworks |-> {}]
\* It lost its identity, in one of two ways, and moved.
Renamed == [Button EXCEPT !.id = "new"]
Renumbered == [Button EXCEPT !.id = "old"]
Moved == [Button EXCEPT !.id = "new", !.index = 2, !.classes = {"big"}, !.text = <<"g">>, !.prev = "label"]
\* Others look like it, in another form, with another role, elsewhere.
Twin == [Button EXCEPT !.form = "search"]
Link == [Moved EXCEPT !.tag = "a", !.role = "link", !.attrs = {}]
Footer == [Button EXCEPT !.path = <<"html">>]
\* One that tells hardly anything of itself.
Bare ==
  [tag |-> "div", id |-> None, classes |-> {}, attrs |-> {}, role |-> None, name |-> None, text |-> <<>>,
   path |-> <<>>, index |-> 0, prev |-> None, next |-> None, parent |-> None, label |-> <<>>, form |-> None,
   frameworks |-> {}]
KeyOrder == <<Button, Renamed, Renumbered, Moved, Twin, Link, Footer, Bare>>

Candidate(selector, fp) == [selector |-> selector, fp |-> fp]
Pool ==
  {Candidate(1, Button), Candidate(1, Renamed), Candidate(1, Renumbered), Candidate(2, Renamed),
   Candidate(2, Moved), Candidate(3, Twin), Candidate(3, Link), Candidate(4, Footer), Candidate(5, Bare)}

Spec1(fp, of, page, origin) == [fp |-> fp, role |-> of, page |-> page, origin |-> origin]
Targets ==
  {Spec1(Button, "button", "p#a", "o"), Spec1(Renamed, None, None, "o"), Spec1(Bare, None, "p", None)}
Contexts ==
  {[page |-> "p", origin |-> "o"], [page |-> "q", origin |-> "o"], [page |-> None, origin |-> "o"],
   [page |-> "q", origin |-> "other"], [page |-> "p", origin |-> None]}
Normal == ("p" :> "p") @@ ("p#a" :> "p") @@ ("q" :> "q")

VARIABLES at, target, context, snapshot, decision, assessment, samples
healVars == <<at, target, context, snapshot, decision, assessment, samples>>
Healing == INSTANCE HealDecision WITH
  AppliedCap <- 85, ReviewCap <- 60, MinimumMargin <- 5, Scale <- 12,
  Repeats <- FALSE, MaxCandidates <- 3
HealAtRest == target = (CHOOSE t \in Targets : TRUE) /\ context = (CHOOSE c \in Contexts : TRUE)

VARIABLES text, texts
distanceVars == <<text, texts>>
Distance == INSTANCE MCHealDistance WITH
  Letters <- {"x", "y"}, MaxLength <- 3, MaxPaths <- 2, target <- text, paths <- texts

--------------------------------------------------------------------------------
(* The steps of a flow.                                                           *)
ShapeAtRest == kind = "OTHER" /\ role = "root"

--------------------------------------------------------------------------------
(* Recordings.                                                                    *)
\* Capture ids are alike, and so are keys: nothing in a session compares two.
Alike == Permutations(CaptureIDs) \union Permutations(Keys)

--------------------------------------------------------------------------------
(* Drafts: one with a validation group, and steps that fit it or not.             *)
VARIABLES draft, edited
draftVars == <<draft, edited>>

Leaf(id, on) == [id |-> id, target |-> on, kids |-> <<>>]
Loop(id, steps) == [id |-> id, target |-> None, kids |-> <<[branch |-> None, steps |-> steps]>>]
Group(id, one, two) ==
  [id |-> id, target |-> None,
   kids |-> <<[branch |-> "b1", steps |-> one], [branch |-> "b2", steps |-> two]>>]
FirstDraft ==
  [steps |-> <<Leaf("a", "t1"), Group("g", <<Leaf("c", "t2")>>, <<>>)>>, nodes |-> <<"t1", "t2">>,
   refs |-> ("t1" :> <<"a">>) @@ ("t2" :> <<"c">>), captured |-> <<"c">>]

SomeContainers ==
  {<<None, None>>, <<None, "b1">>, <<"d", None>>, <<"g", "b1">>, <<"g", "b2">>, <<"a", None>>}
Mapping(t) == [temporary |-> t, target |-> IF t = "t1" THEN "n1" ELSE "n2", version |-> "v1"]
SomeMappings ==
  {<<>>, <<Mapping("t1")>>, <<Mapping("t2"), Mapping("t1")>>, <<Mapping("t1"), Mapping("t2"), Mapping("t1")>>}
SomeSteps ==
  {Leaf("d", "t1"), Leaf("a", "t2"), Leaf("d", "t9"), Leaf("", "t1"), Loop("d", <<Leaf("c", "t1")>>)}

Drafting == INSTANCE DraftEditing WITH
  answer <- edited, Drafts <- {FirstDraft}, NewSteps <- SomeSteps, IDs <- {"a", "c", "g", "d"},
  Targets <- {"t1", "t2"}, Mappings <- SomeMappings, Containers <- SomeContainers, MaxSteps <- 3


--------------------------------------------------------------------------------
VARIABLE part
allVars == <<part, matchVars, healVars, distanceVars, shapeVars, sessionVars, draftVars>>
PartInit ==
  /\ part \in {"match", "heal", "distance", "shape", "record", "draft"}
  /\ MatchInit /\ (part # "match" => MatchAtRest)
  /\ Healing!Init /\ (part # "heal" => HealAtRest)
  /\ Distance!Init /\ (part # "distance" => text = <<>>)
  /\ ShapeInit /\ (part # "shape" => ShapeAtRest)
  /\ SessionInit /\ Drafting!Init
PartNext ==
  \/ part = "match" /\ MatchNext
       /\ UNCHANGED <<part, healVars, distanceVars, shapeVars, sessionVars, draftVars>>
  \/ part = "heal" /\ Healing!Next
       /\ UNCHANGED <<part, matchVars, distanceVars, shapeVars, sessionVars, draftVars>>
  \/ part = "distance" /\ Distance!Next
       /\ UNCHANGED <<part, matchVars, healVars, shapeVars, sessionVars, draftVars>>
  \/ part = "shape" /\ ShapeNext
       /\ UNCHANGED <<part, matchVars, healVars, distanceVars, sessionVars, draftVars>>
  \/ part = "record" /\ SessionNext
       /\ UNCHANGED <<part, matchVars, healVars, distanceVars, shapeVars, draftVars>>
  \/ part = "draft" /\ Drafting!Next
       /\ UNCHANGED <<part, matchVars, healVars, distanceVars, shapeVars, sessionVars>>
PartSpec == PartInit /\ [][PartNext]_allVars

--------------------------------------------------------------------------------
(* What a part promises is asked while it moves.                                  *)
\* Whatever the page holds and in whatever order, the healed element is the one the
\* distances call nearest, and only a safe one is applied (HealDecision, HealDistance:
\* scorer.go, lcs.go, healer.go).
HealingIsSound ==
  /\ part = "heal" => Healing!HealingIsSound
  /\ part = "distance" => Distance!DistancesAreTrue
\* However a draft is edited (DraftEditing: draft.go, workspace.go, rewrite.go).
DraftsAreSound == part = "draft" => Drafting!DraftsAreSound
\* No command takes away or doubles a step that it was not asked for: what was recorded
\* stays, moved steps stay, and deleting takes what the step holds (session.go, draft.go).
StepsAreKept == RecordedStays /\ Drafting!MovesKeepEveryStep /\ Drafting!DeletionTakesTheSubtree
================================================================================
