------------------------------ MODULE HealStreak ------------------------------
(***************************************************************************)
(* The streak of consistent heals that decides whether a healed selector   *)
(* is published (domain/automation/healing.go), as pure operators.         *)
(*                                                                         *)
(* A streak belongs to one element target and names its base version; an   *)
(* observation and a contribution keep the identities that the code        *)
(* compares: fact, commit, instance and sequence.  Identities are never    *)
(* blank here, as the planner refuses those before a streak sees them.     *)
(***************************************************************************)
EXTENDS Integers, Sequences

Blank == "blank"   \* an identity or band that is not there
NoBase == 0       \* versions are numbered from 1
Dispositions == {"", "OBSERVING", "AUTO_PUBLISH", "AWAIT_APPROVAL", "RESET", "STALE", "REJECTED"}
Required == 3   \* runs that agree before a decision

EmptyStreak == [base |-> NoBase, candidate |-> Blank, band |-> Blank, contributions |-> <<>>,
                consumed |-> <<>>, lastSequence |-> 0, observing |-> FALSE, disposition |-> ""]

-----------------------------------------------------------------------------
(* Validation.                                                             *)

Clash(a, b) ==
  a.fact = b.fact \/ a.commit = b.commit \/ a.instance = b.instance \/ a.sequence = b.sequence

ContributionsValid(cs) ==
  \A i \in 1..Len(cs), j \in 1..Len(cs) :
    i < j => cs[i].sequence < cs[j].sequence /\ ~Clash(cs[i], cs[j])

consumedProvenance(s) == IF s.consumed # <<>> THEN s.consumed ELSE s.contributions

Unstarted(s) == ~s.observing /\ s.disposition = "" /\ s.contributions = <<>>

DispositionValid(s) ==
  IF s.disposition \in {"RESET", "STALE"} THEN
       ~s.observing /\ s.base # NoBase /\ s.lastSequence # 0
  ELSE IF s.disposition = "REJECTED" THEN
       /\ ~s.observing /\ s.base # NoBase /\ s.candidate # Blank /\ s.lastSequence # 0
       /\ ContributionsValid(s.contributions)
  ELSE /\ s.base # NoBase /\ s.candidate # Blank /\ s.band \in {"APPLIED", "BELOW_CAP"}
       /\ s.lastSequence # 0 /\ ContributionsValid(s.contributions)
       /\ IF s.observing THEN s.disposition = "OBSERVING" /\ Len(s.contributions) < Required
          ELSE /\ Len(s.contributions) = Required
               /\ \/ s.disposition = "AUTO_PUBLISH" /\ s.band = "APPLIED"
                  \/ s.disposition = "AWAIT_APPROVAL" /\ s.band = "BELOW_CAP"

StreakValid(s) ==
  LET p == consumedProvenance(s)
  IN /\ ContributionsValid(p)
     /\ p # <<>> => p[Len(p)].sequence <= s.lastSequence
     /\ IF Unstarted(s) THEN s = EmptyStreak ELSE DispositionValid(s)

ValidateHealDecisionBand(candidate, band) == (candidate = Blank) <=> (band = "UNKNOWN")
ObservationValid(o) ==
  IF o.outcome = "SUCCEEDED" THEN ValidateHealDecisionBand(o.candidate, o.band)
  ELSE o.candidate = Blank /\ o.band = "UNKNOWN"

-----------------------------------------------------------------------------
(* Transitions.                                                            *)

newHealStreak(o) ==
  [base |-> o.base, candidate |-> o.candidate, band |-> o.band,
   contributions |-> <<o.contribution>>, consumed |-> <<o.contribution>>,
   lastSequence |-> o.contribution.sequence, observing |-> TRUE, disposition |-> "OBSERVING"]

newHealTerminal(o, disposition) ==
  [EmptyStreak EXCEPT !.base = o.base, !.lastSequence = o.contribution.sequence,
                      !.disposition = disposition, !.consumed = <<o.contribution>>]

withObservation(s, c) ==
  [s EXCEPT !.consumed = Append(consumedProvenance(s), c), !.lastSequence = c.sequence]

withDisposition(s, disposition) == [s EXCEPT !.observing = FALSE, !.disposition = disposition]

matches(s, o) == s.base = o.base /\ s.candidate = o.candidate /\ s.band = o.band

\* A success with a candidate against the current version: what opens a streak.
Opens(o) == o.outcome = "SUCCEEDED" /\ o.band # "UNKNOWN" /\ o.baseIsCurrent

Matured(s) ==
  IF Len(s.contributions) < Required THEN s
  ELSE withDisposition(s, IF s.band = "APPLIED" THEN "AUTO_PUBLISH" ELSE "AWAIT_APPROVAL")

Agreed(s, c) ==
  Matured([withObservation(s, c) EXCEPT !.contributions = Append(s.contributions, c)])

\* Mutant: a success with another candidate does not end the streak.
AdvancedByAnyCandidate(s, o) ==
  IF s.observing /\ Opens(o) THEN Agreed(s, o.contribution)
  ELSE IF Opens(o) THEN newHealStreak(o) ELSE withObservation(s, o.contribution)

\* A streak that still observes, or that nothing has been told to yet.
Advanced(s, o) ==
  LET next == withObservation(s, o.contribution)
  IN IF s.observing /\ s.base # o.base THEN next
     ELSE IF ~o.baseIsCurrent
          THEN IF s.observing THEN withDisposition(next, "STALE") ELSE newHealTerminal(o, "STALE")
     ELSE IF o.outcome = "FAILED" THEN next
     ELSE IF o.outcome = "ORIGINAL_RECOVERED" THEN newHealTerminal(o, "RESET")
     ELSE IF o.band = "UNKNOWN" THEN next
     ELSE IF ~s.observing \/ ~matches(s, o) THEN newHealStreak(o)
     ELSE Agreed(s, o.contribution)

\* Mutant: a decided streak starts over with the next success.
ToldAgain(s, o) ==
  IF s.disposition # "OBSERVING" /\ Opens(o) THEN newHealStreak(o) ELSE Advanced(s, o)

Told(s, o) ==
  IF s.disposition \in {"AUTO_PUBLISH", "AWAIT_APPROVAL"} THEN withObservation(s, o.contribution)
  ELSE IF s.disposition \in {"STALE", "REJECTED"}
       THEN IF Opens(o) /\ o.base # s.base THEN newHealStreak(o)
            ELSE withObservation(s, o.contribution)
  ELSE IF s.disposition = "RESET"
       THEN IF Opens(o) THEN newHealStreak(o) ELSE withObservation(s, o.contribution)
  ELSE Advanced(s, o)

\* The error of Observe, Blank when it answers with a next streak.
ObserveError(s, o) ==
  LET c == o.contribution
      p == consumedProvenance(s)
      known == {i \in 1..Len(p) : p[i] = c}
      clashing == {i \in 1..Len(p) : p[i] # c /\ Clash(p[i], c)}
  IN IF ~StreakValid(s) THEN "stateInvalid"
     ELSE IF ~ObservationValid(o) THEN "observationInvalid"
     ELSE IF \E i \in clashing : \A j \in known : i < j THEN "provenanceConflict"
     ELSE IF known # {} THEN Blank
     ELSE IF c.sequence <= s.lastSequence THEN "sequenceConflict" ELSE Blank

Observe(s, o) ==
  IF \E i \in 1..Len(consumedProvenance(s)) : consumedProvenance(s)[i] = o.contribution
  THEN s ELSE Told(s, o)

RejectError(s, sequence) ==
  IF ~StreakValid(s) THEN "stateInvalid"
  ELSE IF s.disposition # "AWAIT_APPROVAL" THEN "rejectionInvalid"
  ELSE IF sequence <= s.lastSequence THEN "sequenceConflict" ELSE Blank

Reject(s, sequence) ==
  [s EXCEPT !.lastSequence = sequence, !.observing = FALSE, !.disposition = "REJECTED"]
=============================================================================
