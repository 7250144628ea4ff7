---------------------------- MODULE SamplingSession ----------------------------
(* A recording session of domain/sampling/session.go: its life cycle, the      *)
(* captures a browser sends it (each possibly sent again, late, or malformed)   *)
(* and the three indexes that give a captured element one identity.             *)
(* A UUID is the millisecond it was minted in and a part no other UUID has;     *)
(* action UUIDs, page URLs, values and hints are left out, and so is a failing  *)
(* entropy source, which ends the process in the Go release of go.mod.          *)
EXTENDS Naturals, Sequences, FiniteSets

CONSTANTS
  CaptureIDs,    \* idempotency keys of captures; NoKey is no key
  Keys,          \* identity keys of elements; NoKey is no key
  NoKey,
  Specs,         \* contents of a target specification; BadSpec fails Validate
  BadSpec,
  MaxClock       \* bound: the milliseconds the clock shows

ASSUME ClockAssumption == MaxClock \in Nat

VARIABLES
  status, nodes, actions, byIdentity, byUUID, byCaptureID,
  clock,
  answer,        \* of the last call
  told           \* history: what each capture id was ever answered
session == <<status, nodes, actions, byIdentity, byUUID, byCaptureID>>
sessionVars == <<session, clock, answer, told>>

ElementKinds == {"CLICK", "VALIDATE"}    \* input and select are as click is
Kinds == ElementKinds \union {"PRESS", "NAVIGATE"}

\* What a capture carries; "hint" is the node UUID the browser remembers for it,
\* "detail" the value of a press or the validation of a validate capture.
\* (Fields that its kind ignores have one value.)
NoUUID == <<>>
Capture(hints) ==
  {c \in [id : CaptureIDs \union {NoKey}, key : Keys \union {NoKey}, kind : Kinds,
          hint : hints, spec : Specs, detail : BOOLEAN] :
     /\ c.kind = "CLICK" => ~c.detail
     /\ c.kind \notin ElementKinds => c.key = NoKey /\ c.hint = NoUUID /\ c.spec = BadSpec}

Result(c, node, target, seq, created) ==
  [capture |-> c.id, node |-> node, target |-> target, sequence |-> seq, created |-> created]
NoResult == [capture |-> NoKey, node |-> NoUUID, target |-> 0, sequence |-> 0, created |-> FALSE]
Refused(code) == [code |-> code, result |-> NoResult]
Accepted(result) == [code |-> "OK", result |-> result]

SessionInit ==
  /\ status = "CREATED"
  /\ nodes = <<>> /\ actions = <<>>
  /\ byIdentity = <<>> /\ byUUID = <<>> /\ byCaptureID = <<>>
  /\ clock = 0
  /\ answer = Refused("NONE")
  /\ told = [i \in CaptureIDs |-> {}]

--------------------------------------------------------------------------------
(* The life cycle.                                                              *)
Move(from, to) ==
  /\ IF status \in from
     THEN status' = to /\ answer' = Accepted(NoResult)
     ELSE status' = status /\ answer' = Refused("STATE_INVALID")
  /\ UNCHANGED <<nodes, byIdentity, byUUID, byCaptureID, clock, told>>

Navigate == [sequence |-> 1, kind |-> "NAVIGATE", node |-> NoUUID, target |-> 0]
Start ==
  /\ Move({"CREATED"}, "RECORDING")
  /\ actions' = IF status = "CREATED" THEN Append(actions, Navigate) ELSE actions
Pause  == Move({"RECORDING"}, "PAUSED") /\ UNCHANGED actions
Resume == Move({"PAUSED"}, "RECORDING") /\ UNCHANGED actions
End == Move({"RECORDING", "PAUSED"}, "ENDED") /\ UNCHANGED actions
\* A call that returns nothing.
Interrupt ==
  /\ status \in {"CREATED", "RECORDING", "PAUSED"}
  /\ status' = "INTERRUPTED"
  /\ UNCHANGED <<nodes, actions, byIdentity, byUUID, byCaptureID, clock, answer, told>>

--------------------------------------------------------------------------------
(* One capture.                                                                 *)
shapeViolations(c) ==
  {f \in {"captureId", "identityKey", "validation", "value", "kind"} :
     \/ f = "captureId" /\ c.id = NoKey
     \/ f = "identityKey" /\ c.kind \in ElementKinds /\ c.key = NoKey
     \/ f = "validation" /\ c.kind = "VALIDATE" /\ ~c.detail
     \/ f = "value" /\ c.kind = "PRESS" /\ ~c.detail
     \/ f = "kind" /\ c.kind = "NAVIGATE"}

Known(f, x) == x \in DOMAIN f
Put(f, x, y) == [z \in DOMAIN f \union {x} |-> IF z = x THEN y ELSE f[z]]

\* The node a capture is about: the one its UUID names, else the one of its key,
\* else a new one at the end.
NodeIndex(c) ==
  IF Known(byUUID, c.hint) THEN byUUID[c.hint]
  ELSE IF Known(byIdentity, c.key) THEN byIdentity[c.key]
  ELSE Len(nodes) + 1
\* A new node's short id is cut from the digits of its UUID that hold the time.
NewUUID == <<clock, Len(nodes) + 1>>
ShortID(uuid) == uuid[1]

\* Mutant: the action is appended, its answer is not kept.
ActUnkept(c, node, target, created) ==
  LET seq == Len(actions) + 1
      result == Result(c, node, target, seq, created)
  IN /\ actions' = Append(actions, [sequence |-> seq, kind |-> c.kind, node |-> node, target |-> target])
     /\ byCaptureID' = IF c.kind = "PRESS" THEN byCaptureID ELSE Put(byCaptureID, c.id, result)
     /\ answer' = Accepted(result)
     /\ told' = [told EXCEPT ![c.id] = @ \union {result}]

Act(c, node, target, created) ==
  LET seq == Len(actions) + 1
      result == Result(c, node, target, seq, created)
  IN /\ actions' = Append(actions, [sequence |-> seq, kind |-> c.kind, node |-> node, target |-> target])
     /\ byCaptureID' = Put(byCaptureID, c.id, result)
     /\ answer' = Accepted(result)
     /\ told' = [told EXCEPT ![c.id] = @ \union {result}]

RefuseCapture(code) == answer' = Refused(code) /\ UNCHANGED <<nodes, actions, byUUID, byCaptureID, told>>

RecordPress(c) ==
  /\ Act(c, NoUUID, 0, FALSE)
  /\ UNCHANGED <<nodes, byIdentity, byUUID>>

\* An element not seen before.
RecordNew(c) ==
  LET uuid == NewUUID IN
  IF c.spec = BadSpec THEN RefuseCapture("SPEC_INVALID") /\ UNCHANGED byIdentity
  ELSE /\ nodes' = Append(nodes, [uuid |-> uuid, id |-> ShortID(uuid), spec |-> c.spec])
       /\ byIdentity' = Put(byIdentity, c.key, Len(nodes) + 1)
       /\ byUUID' = Put(byUUID, uuid, Len(nodes) + 1)
       /\ Act(c, uuid, ShortID(uuid), TRUE)

\* An element seen before: its key is bound before the new content is validated.
RecordSeen(c, i) ==
  /\ byIdentity' = Put(byIdentity, c.key, i)
  /\ IF c.spec = BadSpec THEN RefuseCapture("SPEC_INVALID")
     ELSE /\ nodes' = [nodes EXCEPT ![i].spec = c.spec]
          /\ UNCHANGED byUUID
          /\ Act(c, nodes[i].uuid, nodes[i].id, FALSE)

\* The known capture ids are asked before the shape of the capture is looked at.
Replayed(c) == c.id # NoKey /\ Known(byCaptureID, c.id)
Recording == status = "RECORDING"

Record(c) ==
  /\ UNCHANGED <<status, clock>>
  /\ IF ~Recording THEN RefuseCapture("STATE_INVALID") /\ UNCHANGED byIdentity
     ELSE IF Replayed(c)
     THEN /\ answer' = Accepted(byCaptureID[c.id])
          /\ told' = [told EXCEPT ![c.id] = @ \union {byCaptureID[c.id]}]
          /\ UNCHANGED <<nodes, actions, byIdentity, byUUID, byCaptureID>>
     ELSE IF shapeViolations(c) # {} THEN RefuseCapture("CAPTURE_INVALID") /\ UNCHANGED byIdentity
     ELSE IF c.kind = "PRESS" THEN RecordPress(c)
     ELSE IF NodeIndex(c) > Len(nodes) THEN RecordNew(c)
     ELSE RecordSeen(c, NodeIndex(c))

\* Environment: time passes.
Tick == clock < MaxClock /\ clock' = clock + 1 /\ UNCHANGED <<session, answer, told>>

SessionNext ==
  \/ Start \/ Pause \/ Resume \/ End \/ Interrupt \/ Tick
  \/ \E c \in Capture({NoUUID} \union DOMAIN byUUID) : Record(c)

SessionSpec == SessionInit /\ [][SessionNext]_sessionVars

--------------------------------------------------------------------------------
SessionTypeOK ==
  /\ status \in {"CREATED", "RECORDING", "PAUSED", "ENDED", "INTERRUPTED"}
  /\ \A i \in DOMAIN nodes : nodes[i].uuid[1] \in 0..MaxClock /\ nodes[i].spec \in Specs \ {BadSpec}
  /\ \A i \in DOMAIN actions : actions[i].kind \in Kinds
  /\ DOMAIN byIdentity \subseteq Keys
  /\ DOMAIN byCaptureID \subseteq CaptureIDs
  /\ clock \in 0..MaxClock

\* A capture id is answered with one result for ever, whatever else the retries
\* carry and however often the session was paused between them
\* (session.go, the byCaptureID lookup of Record).
RetriesAgree == \A i \in CaptureIDs : Cardinality(told[i]) <= 1

\* After the opening navigation there is exactly one action for every capture id
\* the session accepted, at the position its answer names: no capture is counted
\* twice and none is acknowledged without its action (Record, both append sites).
OneActionPerCapture ==
  LET places == {byCaptureID[i].sequence : i \in DOMAIN byCaptureID}
  IN /\ Cardinality(places) = Cardinality(DOMAIN byCaptureID)
     /\ places = 2..Len(actions)

\* Every action about an element names a node the session still holds, by both of
\* the node's identities, however often the node was captured anew after it
\* (the update branch of Record).
ActionsNameTheirNode ==
  \A i \in DOMAIN actions : actions[i].node # NoUUID =>
    \E n \in DOMAIN nodes : nodes[n].uuid = actions[i].node /\ nodes[n].id = actions[i].target

\* A remembered UUID finds its node and no other: two nodes never share a UUID,
\* and the browser's memory of an element never makes a second node of it.
UUIDsFindTheirNode ==
  /\ \A i \in DOMAIN nodes : Known(byUUID, nodes[i].uuid) /\ byUUID[nodes[i].uuid] = i
  /\ Cardinality(DOMAIN byUUID) = Len(nodes)

\* What was recorded stays recorded in its order, and only a recording session
\* records: a paused, ended or interrupted one keeps every action and node as it
\* was and, once ended or interrupted, its status too.
RecordedStays ==
  [][/\ SubSeq(actions', 1, Len(actions)) = actions
     /\ <<nodes, byCaptureID>> # <<nodes', byCaptureID'>> => status = "RECORDING"
     /\ status \in {"ENDED", "INTERRUPTED"} => session' = session]_sessionVars

\* Capturing an element again, by its key or by the UUID the browser remembers,
\* makes no second node of it: there are never more nodes than keys were seen.
OneNodePerKey == Len(nodes) <= Cardinality(DOMAIN byIdentity)

\* A capture is answered once and acted on once, and what its action names is one
\* node, found by its UUID and made once for its key (session.go, Record).
CapturesAreSound ==
  /\ SessionTypeOK /\ RetriesAgree /\ OneActionPerCapture
  /\ ActionsNameTheirNode /\ UUIDsFindTheirNode /\ OneNodePerKey
================================================================================
