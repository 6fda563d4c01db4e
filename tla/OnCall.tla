------------------------------- MODULE OnCall -------------------------------
(***************************************************************************)
(* On-call schedules: a rotation of people handed over every period at a   *)
(* local time, overrides, and who is on call now (packages/monitoring/src/ *)
(* oncall/resolve.ts, apps/api/src/services/oncall.service.ts).            *)
(*                                                                         *)
(* Time is counted in instants, some of them to a period.  A schedule has  *)
(* a rotation type and a handoff minute, and a time zone: of that, how far *)
(* its wall clock is ahead of UTC, which changes with daylight saving.     *)
(***************************************************************************)
EXTENDS Integers, FiniteSets, SequencesExt

CONSTANTS Users,         \* the users the organization may have as members
          Nobody,        \* null
          Periods,       \* rotation types: instants between two handoffs
          Handoffs,      \* handoff minutes: instants from local midnight
          LastInstant,   \* bound: time runs to here
          MaxChanges,    \* bound: changes made to the schedule
          Editors,       \* requests that replace the schedule
          Offsets        \* the UTC offsets of the time zones

ASSUME OnCallAssumption ==
  /\ Nobody \notin Users
  /\ Periods \subseteq Nat \ {0} /\ Handoffs \subseteq Nat
  /\ {LastInstant, MaxChanges} \subseteq Nat
  /\ Offsets \subseteq Int
  /\ IsFiniteSet(Users)

VARIABLES now,
          schedule,    \* when it hands over, and its offset from UTC now
          members,     \* the users who are members now
          rotation,    \* the participant rows: user, position and the edit that made them
          overrides,   \* the override rows
          deleted,     \* deletedAt is set
          edit,        \* what each request is doing
          changes

ocvars == <<now, schedule, members, rotation, overrides, deleted, edit, changes>>

\* An editor that does nothing; one under way has its list and the rows it deletes.
NoEdit == [step |-> "none", list |-> <<>>, seen |-> {}]
\* The lists a client may send: each person once, a unique index refuses more.
Lists == SetToAllKPermutations(Users)
Schedules == [period : Periods, handoff : Handoffs, offset : Offsets]
Rows(list, of) == {[user |-> list[i], position |-> i - 1, of |-> of] : i \in 1 .. Len(list)}

OnCallInit ==
  /\ now = 0
  /\ schedule \in Schedules
  /\ members = Users
  /\ \E list \in Lists : rotation = Rows(list, 0)
  /\ overrides = {}
  /\ deleted = FALSE
  /\ edit = [e \in Editors |-> NoEdit]
  /\ changes = 0

-----------------------------------------------------------------------------
(* Who is on call. *)

\* The participants by position; rows with the same position come in any order.
Orders(rows) ==
  {s \in SetToSeqs(rows) : \A i, j \in 1 .. Len(s) : i < j => s[i].position <= s[j].position}

\* rotationIndex: whole periods since the epoch on the local clock, modulo the people.
RotationIndex(n, at, s) == ((at + s.offset - s.handoff) \div s.period) % n

Primary(order, at, s) ==
  IF order = <<>> THEN Nobody ELSE order[RotationIndex(Len(order), at, s) + 1].user
\* Mutant: the one who just came off is the backup.
PreviousOne(order, at, s) ==
  IF Len(order) < 2 THEN Nobody
  ELSE order[((RotationIndex(Len(order), at, s) + Len(order) - 1) % Len(order)) + 1].user
Secondary(order, at, s) ==
  IF Len(order) < 2 THEN Nobody
  ELSE order[((RotationIndex(Len(order), at, s) + 1) % Len(order)) + 1].user

\* Both ends of an override belong to it.
Active(at) == {o \in overrides : o.startsAt <= at /\ at <= o.endsAt}

UnderOverride(user, first, second) ==
  [primary |-> user,
   secondary |-> IF first # Nobody /\ first # user THEN first ELSE second,
   source |-> "override"]

\* resolveOnCall: everything it may answer, as the rows may come in any order.
Answers(at) ==
  {LET first == Primary(order, at, schedule)
       second == Secondary(order, at, schedule)
   IN  IF o # Nobody THEN UnderOverride(o.user, first, second)
       ELSE [primary |-> first, secondary |-> second,
             source |-> IF order = <<>> THEN "empty" ELSE "rotation"]
   : order \in Orders(rotation), o \in IF Active(at) = {} THEN {Nobody} ELSE Active(at)}

\* whoIsOnCall: nobody answers for a deleted schedule.
WhoIsOnCall == IF deleted THEN {} ELSE Answers(now)

-----------------------------------------------------------------------------
(* The requests.  Each change is counted, for the bound. *)

Changes == changes < MaxChanges /\ changes' = changes + 1

\* update: the schedule is there and everybody named is a member.
UpdateBegins(e, list) ==
  /\ edit[e] = NoEdit /\ Changes
  /\ ~deleted
  /\ \A i \in 1 .. Len(list) : list[i] \in members
  /\ edit' = [edit EXCEPT ![e] = [step |-> "checked", list |-> list, seen |-> {}]]
  /\ UNCHANGED <<now, schedule, members, rotation, overrides, deleted>>

\* The transaction deletes the rows it sees ..
UpdateDeletes(e) ==
  /\ edit[e].step = "checked"
  /\ edit' = [edit EXCEPT ![e].step = "deleting", ![e].seen = rotation]
  /\ UNCHANGED <<now, schedule, members, rotation, overrides, deleted, changes>>

\* .. writes the type, the time zone and the handoff minute of the request, and
\* creates the new rows.  One another transaction has created meanwhile is not among
\* those it saw: it stays, and a person on both lists is refused, with all the rest.
UpdateCommits(e) ==
  /\ edit[e].step = "deleting"
  /\ edit' = [edit EXCEPT ![e] = NoEdit]
  /\ LET kept == rotation \ edit[e].seen
         new == Rows(edit[e].list, changes)
     IN  IF \E x \in kept, y \in new : x.user = y.user
           THEN UNCHANGED <<rotation, schedule>>
           ELSE rotation' = kept \cup new /\ schedule' \in Schedules
  /\ UNCHANGED <<now, members, overrides, deleted, changes>>

\* remove
Delete ==
  /\ ~deleted /\ Changes
  /\ deleted' = TRUE
  /\ UNCHANGED <<now, schedule, members, rotation, overrides, edit>>

\* addOverride: a member's, and it ends after it starts.
AddOverride(user, startsAt, endsAt) ==
  /\ ~deleted /\ Changes
  /\ user \in members
  /\ endsAt > startsAt
  /\ overrides' = overrides \cup {[user |-> user, startsAt |-> startsAt, endsAt |-> endsAt]}
  /\ UNCHANGED <<now, schedule, members, rotation, deleted, edit>>

RemoveOverride(o) ==
  /\ ~deleted /\ Changes
  /\ o \in overrides
  /\ overrides' = overrides \ {o}
  /\ UNCHANGED <<now, schedule, members, rotation, deleted, edit>>

\* Somebody leaves the organization: no schedule is looked at.
MemberLeaves(user) ==
  /\ user \in members /\ Changes
  /\ members' = members \ {user}
  /\ UNCHANGED <<now, schedule, rotation, overrides, deleted, edit>>

Tick ==
  /\ now < LastInstant
  /\ now' = now + 1
  /\ UNCHANGED <<schedule, members, rotation, overrides, deleted, edit, changes>>

\* The local clock is put forward or back.
ClockChanges ==
  /\ Changes
  /\ \E o \in Offsets \ {schedule.offset} : schedule' = [schedule EXCEPT !.offset = o]
  /\ UNCHANGED <<now, members, rotation, overrides, deleted, edit>>

OnCallNext ==
  \/ \E e \in Editors : (\E list \in Lists : UpdateBegins(e, list))
                        \/ UpdateDeletes(e) \/ UpdateCommits(e)
  \/ Delete
  \/ \E u \in Users, s, t \in 0 .. LastInstant : AddOverride(u, s, t)
  \/ \E o \in overrides : RemoveOverride(o)
  \/ \E u \in Users : MemberLeaves(u)
  \/ Tick \/ ClockChanges

OnCallSpec == OnCallInit /\ [][OnCallNext]_ocvars

-----------------------------------------------------------------------------
(* While nobody edits the schedule, who is on call next is the one who was   *)
(* the backup: a handoff skips nobody, unless the clock is put back over it  *)
(* (resolve.ts:61-69, 87-90).                                                *)
Unedited ==
  /\ rotation' = rotation
  /\ \E o \in Offsets : o >= schedule.offset /\ schedule' = [schedule EXCEPT !.offset = o]

HandoffGoesToBackup ==
  [][rotation # {} /\ Unedited /\ Cardinality(Answers(now)) = 1 =>
       \A before \in Answers(now), after \in Answers(now)' :
         before.source = "rotation" /\ after.source = "rotation" =>
           after.primary \in {before.primary, before.secondary}]_ocvars
=============================================================================
