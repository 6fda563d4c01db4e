----------------------------- MODULE PlanLimits -----------------------------
(***************************************************************************)
(* What the plan of an organization lets it create, as                     *)
(* services/plan-limits.service.ts and packages/auth/src/seat-limits.ts    *)
(* enforce it: a request reads the limit of the plan in force, counts what *)
(* there is, and goes on to insert if the count is below the limit.  No    *)
(* lock or transaction spans the three, so requests overlap, and the plan  *)
(* may change between any two of them.                                     *)
(*                                                                         *)
(* Members are one of the limited resources: a seat is inserted when an    *)
(* invitation is accepted.  An invitation has a gate of its own, which     *)
(* counts members and pending invitations by two queries at once.          *)
(***************************************************************************)
EXTENDS Integers, FiniteSets

CONSTANTS
  Plans,      \* the tiers of the catalog
  FirstTier,  \* the one an organization starts with
  Resource,   \* what assertWithinLimit counts; "seat" is one of them
  Limit,      \* Limit[tier][resource], Unlimited where the catalog has null
  Unlimited,
  Creator,    \* requests that create a resource, or accept an invitation
  Inviter,    \* requests that send an invitation
  MaxUsed     \* bound: rows of each kind

LimitValue == Nat \cup {Unlimited}

ASSUME LimitsAssumption ==
  /\ FirstTier \in Plans
  /\ "seat" \in Resource
  /\ Unlimited \notin Int
  /\ Limit \in [Plans -> [Resource -> LimitValue]]
  /\ \A t \in Plans : Limit[t]["seat"] # 0
  /\ IsFiniteSet(Creator) /\ IsFiniteSet(Inviter) /\ Creator # {} /\ Inviter # {}
  /\ MaxUsed \in Nat \ {0}

VARIABLES
  tier,      \* the plan in force (subscription.billingPlan ?? plan)
  used,      \* rows of each resource; used["seat"] are the members
  pending,   \* invitations that are pending and not expired
  creator,   \* the requests
  inviter,
  peak       \* the highest limit that was in force so far

countVars  == <<used, pending>>
limitsVars == <<tier, used, pending, creator, inviter, peak>>

Waiting == [stage |-> "idle"]
Request == [stage : {"count", "insert"}, resource : Resource, limit : LimitValue]
Invite  == [stage : {"count", "insert"}, limit : LimitValue,
            members : Nat \cup {-1}, pending : Nat \cup {-1}]

LimitsInit ==
  /\ tier = FirstTier
  /\ used = [r \in Resource |-> IF r = "seat" THEN 1 ELSE 0]
  /\ pending = 0
  /\ creator = [c \in Creator |-> Waiting]
  /\ inviter = [i \in Inviter |-> Waiting]
  /\ peak = Limit[FirstTier]

Higher(a, b) ==
  CASE a = Unlimited \/ b = Unlimited -> Unlimited
    [] OTHER -> IF a >= b THEN a ELSE b

\* The plan changes, by whichever event of Stripe; nothing that exists is removed.
PlanChangesTo(t) ==
  /\ tier' = t
  /\ peak' = [r \in Resource |-> Higher(peak[r], Limit[t][r])]
  /\ UNCHANGED <<countVars, creator, inviter>>

-----------------------------------------------------------------------------
(* assertWithinLimit in front of the routes that create, and of accepting *)

AnswerCreator(c) == creator' = [creator EXCEPT ![c] = Waiting]

\* getEffectiveLimits; without a limit nothing is counted.
ReadLimit(c, r) ==
  LET limit == Limit[tier][r]
  IN  /\ creator[c].stage = "idle"
      /\ r = "seat" => pending > 0
      /\ creator' = [creator EXCEPT ![c] =
           [stage |-> IF limit = Unlimited THEN "insert" ELSE "count",
            resource |-> r, limit |-> limit]]
      /\ UNCHANGED <<tier, countVars, inviter, peak>>

\* Mutant of CountUsage: one too many is let in.
CountUsageOffByOne(c) ==
  /\ creator[c].stage = "count"
  /\ IF used[creator[c].resource] > creator[c].limit
       THEN AnswerCreator(c)
       ELSE creator' = [creator EXCEPT ![c].stage = "insert"]
  /\ UNCHANGED <<tier, countVars, inviter, peak>>

\* countUsage: payment_required at the limit.
CountUsage(c) ==
  /\ creator[c].stage = "count"
  /\ IF used[creator[c].resource] >= creator[c].limit
       THEN AnswerCreator(c)
       ELSE creator' = [creator EXCEPT ![c].stage = "insert"]
  /\ UNCHANGED <<tier, countVars, inviter, peak>>

\* The row is made; a seat is made of an invitation, if it still stands.
Insert(c) ==
  LET r == creator[c].resource
  IN  /\ creator[c].stage = "insert"
      /\ used[r] < MaxUsed
      /\ IF r = "seat" /\ pending = 0
           THEN UNCHANGED countVars
           ELSE /\ used' = [used EXCEPT ![r] = @ + 1]
                /\ pending' = IF r = "seat" THEN pending - 1 ELSE pending
      /\ AnswerCreator(c)
      /\ UNCHANGED <<tier, inviter, peak>>

\* A soft delete, or a member who leaves or is removed; the owner stays.
RemoveRow(r) ==
  /\ used[r] > IF r = "seat" THEN 1 ELSE 0
  /\ used' = [used EXCEPT ![r] = @ - 1]
  /\ UNCHANGED <<tier, pending, creator, inviter, peak>>

-----------------------------------------------------------------------------
(* assertSeatAvailableForInvite in front of an invitation *)

AnswerInviter(i) == inviter' = [inviter EXCEPT ![i] = Waiting]

ReadSeatLimit(i) ==
  LET limit == Limit[tier]["seat"]
  IN  /\ inviter[i].stage = "idle"
      /\ inviter' = [inviter EXCEPT ![i] =
           [stage |-> IF limit = Unlimited THEN "insert" ELSE "count",
            limit |-> limit, members |-> -1, pending |-> -1]]
      /\ UNCHANGED <<tier, countVars, creator, peak>>

\* Promise.all: the two counts are queries of their own, in either order.
CountMembers(i) ==
  /\ inviter[i].stage = "count" /\ inviter[i].members = -1
  /\ inviter' = [inviter EXCEPT ![i].members = used["seat"]]
  /\ UNCHANGED <<tier, countVars, creator, peak>>

CountPending(i) ==
  /\ inviter[i].stage = "count" /\ inviter[i].pending = -1
  /\ inviter' = [inviter EXCEPT ![i].pending = pending]
  /\ UNCHANGED <<tier, countVars, creator, peak>>

Decide(i) ==
  /\ inviter[i].stage = "count" /\ inviter[i].members # -1 /\ inviter[i].pending # -1
  /\ IF inviter[i].members + inviter[i].pending >= inviter[i].limit
       THEN AnswerInviter(i)
       ELSE inviter' = [inviter EXCEPT ![i].stage = "insert"]
  /\ UNCHANGED <<tier, countVars, creator, peak>>

SendInvitation(i) ==
  /\ inviter[i].stage = "insert"
  /\ pending < MaxUsed
  /\ pending' = pending + 1
  /\ AnswerInviter(i)
  /\ UNCHANGED <<tier, used, creator, peak>>

\* An invitation is withdrawn or refused, or expires after a week.
InvitationEnds ==
  /\ pending > 0
  /\ pending' = pending - 1
  /\ UNCHANGED <<tier, used, creator, inviter, peak>>

-----------------------------------------------------------------------------
LimitsStep ==
  \/ \E c \in Creator : (\E r \in Resource : ReadLimit(c, r)) \/ CountUsage(c) \/ Insert(c)
  \/ \E r \in Resource : RemoveRow(r)
  \/ \E i \in Inviter : \/ ReadSeatLimit(i) \/ CountMembers(i) \/ CountPending(i)
                        \/ Decide(i) \/ SendInvitation(i)
  \/ InvitationEnds

LimitsNext == LimitsStep \/ \E t \in Plans : PlanChangesTo(t)

LimitsSpec == LimitsInit /\ [][LimitsNext]_limitsVars

-----------------------------------------------------------------------------
(* What it is checked for *)

LimitsTypeOK ==
  /\ tier \in Plans
  /\ used \in [Resource -> Nat] /\ used["seat"] > 0
  /\ pending \in Nat
  /\ creator \in [Creator -> Request \cup {Waiting}]
  /\ inviter \in [Inviter -> Invite \cup {Waiting}]
  /\ peak \in [Resource -> LimitValue]

\* However requests and plan changes interleave, there are never more rows than the
\* highest limit so far and one for each other request that was under way: the
\* check and the insert are apart, but a request inserts once per check.
NearLimit(n, limit, requests) == limit = Unlimited \/ n <= limit + Cardinality(requests) - 1

UsageIsBounded == \A r \in Resource : NearLimit(used[r], peak[r], Creator)

\* The same for invitations: outstanding ones never exceed the seats by more than
\* the other invitations that were being sent.
InvitesAreBounded == NearLimit(pending, peak["seat"], Inviter)

LimitsHold == UsageIsBounded /\ InvitesAreBounded

=============================================================================
