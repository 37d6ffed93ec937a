------------------------------ MODULE Anchors ------------------------------
(***************************************************************************)
(* agent/anchors.py: the wake-up, briefing and wrap-up times of each date  *)
(* (day_state) and the proposals waiting for Lin's answer, oldest first (a *)
(* kind of hanging_questions).  Every reader sweeps the rows older than an *)
(* hour before it looks, so an expired row is a row that is gone.          *)
(***************************************************************************)
EXTENDS Notify, Sequences

CONSTANTS
  MaxDate,       \* bound: the last date that is lived through
  Defaults       \* WAKE_TIME, WORK_START and WRAPUP_TIME, as slots

AnchorKeys == {"wake", "briefing", "wrapup"}
Times  == [AnchorKeys -> 0..Slots-1]
Days   == 1..MaxDate
Dates  == 1..MaxDate+1                 \* the last one is only ever proposed
NotSet == Slots                        \* NULL, a time no slot reaches

ASSUME AnchorsAssumption == MaxDate \in Nat /\ Defaults \in Times

AnchorTable == [Dates -> [AnchorKeys -> 0..NotSet]]
Proposal == [date : Dates, times : Times]

Unset == [k \in AnchorKeys |-> NotSet]
NoAnchors == [d \in Dates |-> Unset]

\* times with the gaps filled from others
Filled(times, others) ==
  [k \in AnchorKeys |-> IF times[k] = NotSet THEN others[k] ELSE times[k]]

YesterdayOrDefault(table, d) ==
  IF d - 1 \in Dates THEN Filled(table[d-1], Defaults) ELSE Defaults

\* mutant: the fallback is written over what is there
EnsureOverwrites(table, d) ==
  [table EXCEPT ![d] = YesterdayOrDefault(table, d)]

EnsureResolved(table, d) ==
  [table EXCEPT ![d] = Filled(@, YesterdayOrDefault(table, d))]

\* mutant: what the date itself has so far
ProposeUnfilled(rows, table, d) ==
  Append(rows, [date |-> d, times |-> table[d]])

Propose(rows, table, d) ==
  Append(rows, [date |-> d, times |-> YesterdayOrDefault(table, d)])

\* the newest row is the one an answer is about
AskedLast(rows) == rows[Len(rows)]
Answered(rows)  == SubSeq(rows, 1, Len(rows) - 1)

\* the i oldest rows have expired
Swept(rows, i) == SubSeq(rows, i + 1, Len(rows))

\* a correction touches only what it names; any other text confirms
Corrected(times, correction) ==
  [k \in AnchorKeys |-> IF k \in DOMAIN correction THEN correction[k] ELSE times[k]]
=============================================================================
