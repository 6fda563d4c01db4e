------------------------- MODULE OrganizationProofs -------------------------
(***************************************************************************)
(* That the limits of a plan hold, for every catalog and every number of   *)
(* requests; that the row of a subscription comes to say what Stripe says, *)
(* for every number of checkouts, of events and of deliveries; that a      *)
(* handoff of an on-call rotation skips nobody; and that the dashboard     *)
(* offers nothing the API refuses, and comes to show what its member was   *)
(* told, for every set of queries and every number of changes.             *)
(***************************************************************************)
EXTENDS Billing, PlanLimits, OnCall, WebClient, FiniteSetTheorems, SequenceTheorems, TLAPS

-----------------------------------------------------------------------------
(* The limits.  The bound on the rows is not inductive: it says nothing of *)
(* the requests that have passed the check and not inserted yet.  What is: *)
(* the rows and those requests together stay below the limit and the       *)
(* number of all requests.  A request joins them only when the rows it     *)
(* counted are fewer than its limit, which is at most the highest limit so *)
(* far (Remembered).                                                       *)


\* The requests that will insert a row of r.
Inserting(r) == {c \in Creator : creator[c].stage = "insert" /\ creator[c].resource = r}

\* The invitations that will be sent, unless the members are too many.
Sending ==
  {i \in Inviter : \/ inviter[i].stage = "insert"
                   \/ /\ inviter[i].stage = "count" /\ inviter[i].pending # -1
                      /\ inviter[i].pending < inviter[i].limit}

AtMost(a, b) == b = Unlimited \/ (a # Unlimited /\ a <= b)

\* Every limit somebody goes by is below the highest so far.
Remembered ==
  /\ \A r \in Resource : AtMost(Limit[tier][r], peak[r])
  /\ \A c \in Creator :
       creator[c].stage # "idle" => AtMost(creator[c].limit, peak[creator[c].resource])
  /\ \A i \in Inviter : inviter[i].stage # "idle" => AtMost(inviter[i].limit, peak["seat"])

\* Only limits are counted against.
Counting ==
  /\ \A c \in Creator : creator[c].stage = "count" => creator[c].limit # Unlimited
  /\ \A i \in Inviter : inviter[i].stage = "count" => inviter[i].limit # Unlimited

RowsFit ==
  \A r \in Resource :
    peak[r] # Unlimited =>
      used[r] + Cardinality(Inserting(r)) <= peak[r] + Cardinality(Creator) - 1

InvitesFit ==
  peak["seat"] # Unlimited =>
    pending + Cardinality(Sending) <= peak["seat"] + Cardinality(Inviter) - 1

LimitsInv == LimitsTypeOK /\ Remembered /\ Counting /\ RowsFit /\ InvitesFit

-----------------------------------------------------------------------------
(* Counting requests *)

\* A set of requests that loses a member, gains one or shrinks.
LEMMA SubsetCounts ==
  ASSUME NEW S, NEW T, IsFiniteSet(T), S \subseteq T
  PROVE  IsFiniteSet(S) /\ Cardinality(S) \in Nat /\ Cardinality(T) \in Nat
         /\ Cardinality(S) <= Cardinality(T)
  BY FS_Subset, FS_CardinalityType

LEMMA Loses ==
  ASSUME NEW S, IsFiniteSet(S), NEW x \in S
  PROVE  Cardinality(S \ {x}) = Cardinality(S) - 1
  BY FS_RemoveElement

\* There is a creator and an inviter.
LEMMA Requests ==
  /\ IsFiniteSet(Creator) /\ Cardinality(Creator) \in Nat /\ Cardinality(Creator) >= 1
  /\ IsFiniteSet(Inviter) /\ Cardinality(Inviter) \in Nat /\ Cardinality(Inviter) >= 1
<1>1. ASSUME NEW S, IsFiniteSet(S), S # {} PROVE Cardinality(S) \in Nat /\ Cardinality(S) >= 1
  <2>1. Cardinality(S) \in Nat BY <1>1, FS_CardinalityType
  <2>2. Cardinality(S) # 0 BY <1>1, FS_EmptySet
  <2>3. QED BY <2>1, <2>2
<1>2. QED BY <1>1, LimitsAssumption

LEMMA InsertingCounts ==
  \A r \in Resource : /\ Cardinality(Inserting(r)) \in Nat
                      /\ Cardinality(Inserting(r)) <= Cardinality(Creator)
                      /\ IsFiniteSet(Inserting(r))
BY SubsetCounts, Requests DEF Inserting

LEMMA SendingCounts ==
  Cardinality(Sending) \in Nat /\ Cardinality(Sending) <= Cardinality(Inviter)
  /\ IsFiniteSet(Sending)
<1>1. Sending \subseteq Inviter BY DEF Sending
<1>2. QED BY <1>1, SubsetCounts, Requests

-----------------------------------------------------------------------------
(* The highest limit so far *)

\* A higher limit is a limit, and at least both.
LEMMA HigherIsHigher ==
  ASSUME NEW a \in LimitValue, NEW b \in LimitValue
  PROVE  /\ Higher(a, b) \in LimitValue
         /\ AtMost(a, Higher(a, b)) /\ AtMost(b, Higher(a, b))
         /\ Higher(a, b) # Unlimited => a # Unlimited /\ b # Unlimited /\ Higher(a, b) >= a
BY LimitsAssumption DEF Higher, AtMost, LimitValue

LEMMA AtMostTransitive ==
  ASSUME NEW a \in LimitValue, NEW b \in LimitValue, NEW d \in LimitValue,
         AtMost(a, b), AtMost(b, d)
  PROVE  AtMost(a, d)
BY LimitsAssumption DEF AtMost, LimitValue

-----------------------------------------------------------------------------
\* At first one member is there, nobody asks, and the limit of a seat is not zero.
LEMMA InvInit == ASSUME LimitsInit PROVE LimitsInv
<1>1. LimitsTypeOK
  BY LimitsAssumption DEF LimitsInit, LimitsTypeOK, Waiting, Request, Invite, LimitValue
<1>2. Remembered
  BY LimitsAssumption DEF LimitsInit, Remembered, AtMost, Waiting, LimitValue
<1>3. Counting
  BY DEF LimitsInit, Counting, Waiting
<1>4. \A r \in Resource : Cardinality(Inserting(r)) = 0
  <2>1. \A r \in Resource : Inserting(r) = {} BY DEF LimitsInit, Inserting, Waiting
  <2>2. QED BY <2>1, FS_EmptySet
<1>5. Cardinality(Sending) = 0
  <2>1. Sending = {} BY DEF LimitsInit, Sending, Waiting
  <2>2. QED BY <2>1, FS_EmptySet
<1>6. RowsFit
  <2>1. SUFFICES ASSUME NEW r \in Resource, peak[r] # Unlimited
                 PROVE  used[r] + 0 <= peak[r] + Cardinality(Creator) - 1
    BY <1>4 DEF RowsFit
  <2>2. peak[r] = Limit[FirstTier][r] /\ peak[r] \in Nat
    BY <2>1, LimitsAssumption DEF LimitsInit, LimitValue
  <2>3. used[r] = IF r = "seat" THEN 1 ELSE 0 BY DEF LimitsInit
  <2>4. r = "seat" => peak[r] # 0 BY <2>2, LimitsAssumption
  <2>5. QED BY <2>2, <2>3, <2>4, Requests
<1>7. InvitesFit
  <2>1. SUFFICES ASSUME peak["seat"] # Unlimited
                 PROVE  0 + 0 <= peak["seat"] + Cardinality(Inviter) - 1
    BY <1>5 DEF InvitesFit, LimitsInit
  <2>2. peak["seat"] \in Nat BY <2>1, LimitsAssumption DEF LimitsInit, LimitValue
  <2>3. QED BY <2>2, Requests
<1>8. QED BY <1>1, <1>2, <1>3, <1>6, <1>7 DEF LimitsInv

\* A change of plan only raises the highest limit so far.
LEMMA PlanKeeps ==
  ASSUME LimitsInv, NEW t \in Plans, PlanChangesTo(t)
  PROVE  LimitsInv'
<1> DEFINE next(r) == Higher(peak[r], Limit[t][r])
<1>1. \A r \in Resource : peak[r] \in LimitValue /\ Limit[t][r] \in LimitValue
  BY LimitsAssumption DEF LimitsInv, LimitsTypeOK
<1>2. /\ tier' = t /\ peak' = [r \in Resource |-> next(r)]
      /\ used' = used /\ pending' = pending /\ creator' = creator /\ inviter' = inviter
  BY DEF PlanChangesTo, countVars
<1>3. \A r \in Resource :
        /\ next(r) \in LimitValue /\ AtMost(peak[r], next(r)) /\ AtMost(Limit[t][r], next(r))
        /\ next(r) # Unlimited => peak[r] # Unlimited /\ next(r) >= peak[r]
  BY <1>1, HigherIsHigher
<1> HIDE DEF next
<1>4. LimitsTypeOK'
  BY <1>2, <1>3 DEF LimitsInv, LimitsTypeOK
<1>5. Remembered'
  <2>1. \A r \in Resource : AtMost(Limit[tier][r], peak[r])' BY <1>2, <1>3 DEF AtMost
  <2>2. ASSUME NEW c \in Creator, creator[c].stage # "idle"
        PROVE  AtMost(creator[c].limit, peak'[creator[c].resource])
    <3>1. creator[c].limit \in LimitValue /\ creator[c].resource \in Resource
      BY <2>2 DEF LimitsInv, LimitsTypeOK, Request, Waiting
    <3>2. AtMost(creator[c].limit, peak[creator[c].resource])
      BY <2>2 DEF LimitsInv, Remembered
    <3>3. AtMost(creator[c].limit, next(creator[c].resource))
      BY <1>1, <1>3, <3>1, <3>2, AtMostTransitive
    <3>4. QED BY <1>2, <3>1, <3>3
  <2>3. ASSUME NEW i \in Inviter, inviter[i].stage # "idle"
        PROVE  AtMost(inviter[i].limit, peak'["seat"])
    <3>1. inviter[i].limit \in LimitValue /\ "seat" \in Resource
      BY <2>3, LimitsAssumption DEF LimitsInv, LimitsTypeOK, Invite, Waiting
    <3>2. AtMost(inviter[i].limit, peak["seat"])
      BY <2>3 DEF LimitsInv, Remembered
    <3>3. AtMost(inviter[i].limit, next("seat"))
      BY <1>1, <1>3, <3>1, <3>2, AtMostTransitive
    <3>4. QED BY <1>2, <3>1, <3>3
  <2>4. QED BY <1>2, <2>1, <2>2, <2>3 DEF Remembered, AtMost
<1>6. Counting' BY <1>2 DEF LimitsInv, Counting
<1>7. RowsFit'
  <2>1. SUFFICES ASSUME NEW r \in Resource, peak'[r] # Unlimited
                 PROVE  used[r] + Cardinality(Inserting(r)) <= peak'[r] + Cardinality(Creator) - 1
    BY <1>2 DEF RowsFit, Inserting
  <2>2. used[r] + Cardinality(Inserting(r)) <= peak[r] + Cardinality(Creator) - 1
        /\ peak[r] \in Nat /\ peak'[r] \in Nat /\ peak'[r] >= peak[r]
    BY <1>1, <1>2, <1>3, <2>1, LimitsAssumption DEF LimitsInv, RowsFit, LimitValue
  <2>3. used[r] \in Nat BY DEF LimitsInv, LimitsTypeOK
  <2>4. QED BY <2>2, <2>3, InsertingCounts, Requests
<1>8. InvitesFit'
  <2>0. "seat" \in Resource BY LimitsAssumption
  <2>1. SUFFICES ASSUME peak'["seat"] # Unlimited
                 PROVE  pending + Cardinality(Sending) <= peak'["seat"] + Cardinality(Inviter) - 1
    BY <1>2 DEF InvitesFit, Sending
  <2>2. pending + Cardinality(Sending) <= peak["seat"] + Cardinality(Inviter) - 1
        /\ peak["seat"] \in Nat /\ peak'["seat"] \in Nat /\ peak'["seat"] >= peak["seat"]
    BY <1>1, <1>2, <1>3, <2>0, <2>1, LimitsAssumption DEF LimitsInv, InvitesFit, LimitValue
  <2>3. pending \in Nat BY DEF LimitsInv, LimitsTypeOK
  <2>4. QED BY <2>2, <2>3, SendingCounts, Requests
<1>9. QED BY <1>4, <1>5, <1>6, <1>7, <1>8 DEF LimitsInv

-----------------------------------------------------------------------------
(* A step of one request *)

\* What is asked of the new state of a creator, when rows and limits are left alone.
LEMMA CreatorMoves ==
  ASSUME LimitsInv, NEW c \in Creator, NEW v \in Request \cup {Waiting},
         creator' = [creator EXCEPT ![c] = v],
         UNCHANGED <<tier, inviter, peak>>,
         v.stage # "idle" => AtMost(v.limit, peak[v.resource]),
         v.stage = "count" => v.limit # Unlimited
  PROVE  /\ creator' \in [Creator -> Request \cup {Waiting}]
         /\ Remembered' /\ Counting'
<1>1. creator' \in [Creator -> Request \cup {Waiting}] BY DEF LimitsInv, LimitsTypeOK
<1>2. \A d \in Creator : creator'[d] = IF d = c THEN v ELSE creator[d]
  BY DEF LimitsInv, LimitsTypeOK
<1>3. Remembered' BY <1>2 DEF LimitsInv, Remembered, AtMost
<1>4. Counting' BY <1>2 DEF LimitsInv, Counting
<1>5. QED BY <1>1, <1>3, <1>4

\* The same of an inviter.
LEMMA InviterMoves ==
  ASSUME LimitsInv, NEW i \in Inviter, NEW v \in Invite \cup {Waiting},
         inviter' = [inviter EXCEPT ![i] = v],
         UNCHANGED <<tier, creator, peak>>,
         v.stage # "idle" => AtMost(v.limit, peak["seat"]),
         v.stage = "count" => v.limit # Unlimited
  PROVE  /\ inviter' \in [Inviter -> Invite \cup {Waiting}]
         /\ Remembered' /\ Counting'
<1>1. inviter' \in [Inviter -> Invite \cup {Waiting}] BY DEF LimitsInv, LimitsTypeOK
<1>2. \A j \in Inviter : inviter'[j] = IF j = i THEN v ELSE inviter[j]
  BY DEF LimitsInv, LimitsTypeOK
<1>3. Remembered' BY <1>2 DEF LimitsInv, Remembered, AtMost
<1>4. Counting' BY <1>2 DEF LimitsInv, Counting
<1>5. QED BY <1>1, <1>3, <1>4

\* Rows that do not grow by more than the requests about to insert shrink still fit.
LEMMA RowsStay ==
  ASSUME LimitsInv, UNCHANGED peak, used' \in [Resource -> Nat],
         \A r \in Resource : /\ Cardinality(Inserting(r)') \in Nat
                             /\ used'[r] + Cardinality(Inserting(r)')
                                  <= used[r] + Cardinality(Inserting(r))
  PROVE  RowsFit'
<1>1. SUFFICES ASSUME NEW r \in Resource, peak[r] # Unlimited
               PROVE  used'[r] + Cardinality(Inserting(r)')
                        <= peak[r] + Cardinality(Creator) - 1
  BY DEF RowsFit
<1>2. used[r] + Cardinality(Inserting(r)) <= peak[r] + Cardinality(Creator) - 1
  BY <1>1 DEF LimitsInv, RowsFit
<1>3. peak[r] \in Nat /\ used[r] \in Nat /\ used'[r] \in Nat
  BY <1>1, LimitsAssumption DEF LimitsInv, LimitsTypeOK, LimitValue
<1>4. QED BY <1>2, <1>3, InsertingCounts, Requests

\* The same of invitations.
LEMMA InvitesStay ==
  ASSUME LimitsInv, UNCHANGED peak, pending' \in Nat, Cardinality(Sending') \in Nat,
         pending' + Cardinality(Sending') <= pending + Cardinality(Sending)
  PROVE  InvitesFit'
<1>1. SUFFICES ASSUME peak["seat"] # Unlimited
               PROVE  pending' + Cardinality(Sending')
                        <= peak["seat"] + Cardinality(Inviter) - 1
  BY DEF InvitesFit
<1>2. pending + Cardinality(Sending) <= peak["seat"] + Cardinality(Inviter) - 1
  BY <1>1 DEF LimitsInv, InvitesFit
<1>3. peak["seat"] \in Nat /\ pending \in Nat
  BY <1>1, LimitsAssumption DEF LimitsInv, LimitsTypeOK, LimitValue
<1>4. QED BY <1>2, <1>3, SendingCounts, Requests

\* Creators and members do not disturb the invitations' bound, nor inviters the rows'.
LEMMA InvitesUntouched ==
  ASSUME LimitsInv, UNCHANGED <<inviter, peak>>, pending' \in Nat, pending' <= pending
  PROVE  InvitesFit'
<1>1. Sending' = Sending BY DEF Sending
<1>2. pending \in Nat BY DEF LimitsInv, LimitsTypeOK
<1>3. QED BY <1>1, <1>2, SendingCounts, InvitesStay

LEMMA RowsUntouched ==
  ASSUME LimitsInv, UNCHANGED <<used, creator, peak>>
  PROVE  RowsFit'
<1>1. \A r \in Resource : Inserting(r)' = Inserting(r) BY DEF Inserting
<1>2. used \in [Resource -> Nat] BY DEF LimitsInv, LimitsTypeOK
<1>3. QED BY <1>1, <1>2, InsertingCounts, RowsStay

-----------------------------------------------------------------------------
(* Each step keeps the invariant *)

\* A request that is told the limit goes by one that is in force.
LEMMA ReadLimitKeeps ==
  ASSUME LimitsInv, NEW c \in Creator, NEW r \in Resource, ReadLimit(c, r)
  PROVE  LimitsInv'
<1> DEFINE limit == Limit[tier][r]
           v == [stage |-> IF limit = Unlimited THEN "insert" ELSE "count",
                 resource |-> r, limit |-> limit]
<1>1. limit \in LimitValue /\ AtMost(limit, peak[r])
  BY LimitsAssumption DEF LimitsInv, LimitsTypeOK, Remembered
<1>2. /\ creator' = [creator EXCEPT ![c] = v] /\ creator[c].stage = "idle"
      /\ UNCHANGED <<tier, used, pending, inviter, peak>>
  BY DEF ReadLimit, countVars
<1>3. creator' \in [Creator -> Request \cup {Waiting}] /\ Remembered' /\ Counting'
  <2>1. v \in Request BY <1>1 DEF Request
  <2>2. QED BY <1>1, <1>2, <2>1, CreatorMoves
<1>4. LimitsTypeOK' BY <1>2, <1>3 DEF LimitsInv, LimitsTypeOK
<1>5. RowsFit'
  <2>1. SUFFICES ASSUME NEW q \in Resource, peak[q] # Unlimited
                 PROVE  used[q] + Cardinality(Inserting(q)')
                          <= peak[q] + Cardinality(Creator) - 1
    BY <1>2 DEF RowsFit
  <2>2. Inserting(q)' = Inserting(q)
    <3>1. q = r => limit # Unlimited BY <1>1, <2>1 DEF AtMost
    <3>2. \A d \in Creator : creator'[d] = IF d = c THEN v ELSE creator[d]
      BY <1>2 DEF LimitsInv, LimitsTypeOK
    <3>3. QED BY <1>2, <3>1, <3>2 DEF Inserting
  <2>3. QED BY <2>1, <2>2 DEF LimitsInv, RowsFit
<1>6. InvitesFit'
  <2>1. pending \in Nat BY DEF LimitsInv, LimitsTypeOK
  <2>2. QED BY <1>2, <2>1, InvitesUntouched
<1>7. QED BY <1>3, <1>4, <1>5, <1>6 DEF LimitsInv

\* One that is let in saw fewer rows than its limit; whoever inserts besides it is
\* one of the other requests.
LEMMA CountUsageKeeps ==
  ASSUME LimitsInv, NEW c \in Creator, CountUsage(c)
  PROVE  LimitsInv'
<1> DEFINE r == creator[c].resource
           limit == creator[c].limit
           v == IF used[r] >= limit THEN Waiting ELSE [creator[c] EXCEPT !.stage = "insert"]
<1>1. /\ creator[c].stage = "count" /\ creator[c] \in Request
      /\ r \in Resource /\ limit \in Nat /\ AtMost(limit, peak[r])
  BY DEF CountUsage, LimitsInv, LimitsTypeOK, Remembered, Counting, Request, Waiting, LimitValue
<1>2. /\ creator' = [creator EXCEPT ![c] = v]
      /\ UNCHANGED <<tier, used, pending, inviter, peak>>
  BY DEF CountUsage, countVars, AnswerCreator
<1>3. v \in Request \cup {Waiting}
  BY <1>1 DEF Request
<1>4. creator' \in [Creator -> Request \cup {Waiting}] /\ Remembered' /\ Counting'
  <2>1. v.stage # "idle" => AtMost(v.limit, peak[v.resource]) BY <1>1 DEF Waiting, Request
  <2>2. v.stage # "count" BY <1>1 DEF Waiting, Request
  <2>3. QED BY <1>2, <1>3, <2>1, <2>2, CreatorMoves
<1>5. LimitsTypeOK' BY <1>2, <1>4 DEF LimitsInv, LimitsTypeOK
<1>6. \A d \in Creator : creator'[d] = IF d = c THEN v ELSE creator[d]
  BY <1>2 DEF LimitsInv, LimitsTypeOK
<1>7. RowsFit'
  <2>1. SUFFICES ASSUME NEW q \in Resource, peak[q] # Unlimited
                 PROVE  used[q] + Cardinality(Inserting(q)')
                          <= peak[q] + Cardinality(Creator) - 1
    BY <1>2 DEF RowsFit
  <2>2. CASE q = r /\ ~(used[r] >= limit)
    <3>1. used[q] \in Nat /\ peak[q] \in Nat
      BY <2>1, LimitsAssumption DEF LimitsInv, LimitsTypeOK, LimitValue
    <3>2. used[q] + 1 <= peak[q] BY <1>1, <2>1, <2>2, <3>1 DEF AtMost
    <3>3. Cardinality(Inserting(q)') \in Nat /\ Cardinality(Inserting(q)') <= Cardinality(Creator)
      <4>1. Inserting(q)' \subseteq Creator BY DEF Inserting
      <4>2. QED BY <4>1, SubsetCounts, Requests
    <3>4. QED BY <3>1, <3>2, <3>3, Requests
  <2>3. CASE ~(q = r /\ ~(used[r] >= limit))
    <3>1. Inserting(q)' = Inserting(q)
      BY <1>1, <1>6, <2>3 DEF Inserting, Waiting, Request
    <3>2. QED BY <2>1, <3>1 DEF LimitsInv, RowsFit
  <2>4. QED BY <2>2, <2>3
<1>8. InvitesFit'
  <2>1. pending \in Nat BY DEF LimitsInv, LimitsTypeOK
  <2>2. QED BY <1>2, <2>1, InvitesUntouched
<1>9. QED BY <1>4, <1>5, <1>7, <1>8 DEF LimitsInv

\* The row that is made is paid for by the request that made it.
LEMMA InsertKeeps ==
  ASSUME LimitsInv, NEW c \in Creator, Insert(c)
  PROVE  LimitsInv'
<1> DEFINE r == creator[c].resource
<1>1. creator[c].stage = "insert" /\ creator[c] \in Request /\ r \in Resource
  BY DEF Insert, LimitsInv, LimitsTypeOK, Request, Waiting
<1>2. /\ creator' = [creator EXCEPT ![c] = Waiting]
      /\ UNCHANGED <<tier, inviter, peak>>
  BY DEF Insert, AnswerCreator
<1>3. used \in [Resource -> Nat] /\ used["seat"] > 0 /\ pending \in Nat /\ "seat" \in Resource
  BY LimitsAssumption DEF LimitsInv, LimitsTypeOK
<1>4. /\ used' \in [Resource -> Nat] /\ used'["seat"] > 0
      /\ pending' \in Nat /\ pending' <= pending
      /\ \A q \in Resource : used'[q] <= IF q = r THEN used[q] + 1 ELSE used[q]
  <2>1. CASE r = "seat" /\ pending = 0
    BY <1>1, <1>3, <2>1 DEF Insert, countVars
  <2>2. CASE ~(r = "seat" /\ pending = 0)
    <3>1. /\ used' = [used EXCEPT ![r] = @ + 1]
          /\ pending' = IF r = "seat" THEN pending - 1 ELSE pending
      BY <2>2 DEF Insert
    <3>2. QED BY <1>1, <1>3, <2>2, <3>1
  <2>3. QED BY <2>1, <2>2
<1>5. creator' \in [Creator -> Request \cup {Waiting}] /\ Remembered' /\ Counting'
  BY <1>2, CreatorMoves DEF Waiting
<1>6. LimitsTypeOK' BY <1>2, <1>4, <1>5 DEF LimitsInv, LimitsTypeOK
<1>7. ASSUME NEW q \in Resource
      PROVE  /\ Cardinality(Inserting(q)') \in Nat
             /\ used'[q] + Cardinality(Inserting(q)') <= used[q] + Cardinality(Inserting(q))
  <2>1. \A d \in Creator : creator'[d] = IF d = c THEN Waiting ELSE creator[d]
    BY <1>2 DEF LimitsInv, LimitsTypeOK
  <2>2. /\ Cardinality(Inserting(q)) \in Nat /\ IsFiniteSet(Inserting(q))
        /\ used[q] \in Nat /\ used'[q] \in Nat
    BY <1>3, <1>4, InsertingCounts
  <2>3. CASE q = r
    <3>1. c \in Inserting(q) BY <1>1, <2>3 DEF Inserting
    <3>2. Inserting(q)' = Inserting(q) \ {c} BY <2>1 DEF Inserting, Waiting
    <3>3. Cardinality(Inserting(q)') = Cardinality(Inserting(q)) - 1
      BY <2>2, <3>1, <3>2, Loses
    <3>4. Cardinality(Inserting(q)') \in Nat
      BY <2>2, <3>2, SubsetCounts
    <3>5. QED BY <1>4, <2>2, <2>3, <3>3, <3>4
  <2>4. CASE q # r
    <3>1. Inserting(q)' = Inserting(q) BY <1>1, <2>1, <2>4 DEF Inserting, Waiting
    <3>2. QED BY <1>4, <2>2, <2>4, <3>1
  <2>5. QED BY <2>3, <2>4
<1>8. RowsFit' BY <1>2, <1>4, <1>7, RowsStay
<1>9. InvitesFit' BY <1>2, <1>4, InvitesUntouched
<1>10. QED BY <1>5, <1>6, <1>8, <1>9 DEF LimitsInv

\* A row that goes makes room.
LEMMA RemoveRowKeeps ==
  ASSUME LimitsInv, NEW r \in Resource, RemoveRow(r)
  PROVE  LimitsInv'
<1>1. used \in [Resource -> Nat] /\ used["seat"] > 0 /\ pending \in Nat /\ "seat" \in Resource
  BY LimitsAssumption DEF LimitsInv, LimitsTypeOK
<1>2. /\ used' = [used EXCEPT ![r] = @ - 1] /\ used[r] > 0 /\ (r = "seat" => used[r] > 1)
      /\ UNCHANGED <<tier, pending, creator, inviter, peak>>
  BY <1>1 DEF RemoveRow
<1>3. /\ used' \in [Resource -> Nat] /\ used'["seat"] > 0
      /\ \A q \in Resource : used'[q] <= used[q]
  BY <1>1, <1>2
<1>4. LimitsTypeOK' BY <1>2, <1>3 DEF LimitsInv, LimitsTypeOK
<1>5. Remembered' /\ Counting' BY <1>2 DEF LimitsInv, Remembered, AtMost, Counting
<1>6. \A q \in Resource : Inserting(q)' = Inserting(q) BY <1>2 DEF Inserting
<1>7. \A q \in Resource :
        /\ Cardinality(Inserting(q)') \in Nat
        /\ used'[q] + Cardinality(Inserting(q)') <= used[q] + Cardinality(Inserting(q))
  <2>1. \A q \in Resource : used[q] \in Nat /\ used'[q] \in Nat BY <1>1, <1>3
  <2>2. QED BY <1>3, <1>6, <2>1, InsertingCounts
<1>8. RowsFit' BY <1>2, <1>3, <1>7, RowsStay
<1>9. InvitesFit' BY <1>1, <1>2, InvitesUntouched
<1>10. QED BY <1>4, <1>5, <1>8, <1>9 DEF LimitsInv

-----------------------------------------------------------------------------
(* Each step of an invitation keeps it *)

\* Steps of an inviter that leave the rows alone: what is left is the invitations.
LEMMA InviterKeeps ==
  ASSUME LimitsInv, NEW i \in Inviter, NEW v \in Invite \cup {Waiting},
         inviter' = [inviter EXCEPT ![i] = v],
         UNCHANGED <<tier, used, creator, peak>>, pending' \in Nat,
         v.stage # "idle" => AtMost(v.limit, peak["seat"]),
         v.stage = "count" => v.limit # Unlimited,
         InvitesFit'
  PROVE  LimitsInv'
<1>1. inviter' \in [Inviter -> Invite \cup {Waiting}] /\ Remembered' /\ Counting'
  BY InviterMoves
<1>2. LimitsTypeOK' BY <1>1 DEF LimitsInv, LimitsTypeOK
<1>3. RowsFit' BY RowsUntouched
<1>4. QED BY <1>1, <1>2, <1>3 DEF LimitsInv

\* An inviter that joins nothing: the invitations fit as before.
LEMMA SendingShrinks ==
  ASSUME LimitsInv, UNCHANGED <<pending, peak>>, Sending' \subseteq Sending
  PROVE  InvitesFit'
<1>1. Cardinality(Sending') \in Nat /\ Cardinality(Sending') <= Cardinality(Sending)
  BY SendingCounts, SubsetCounts
<1>2. pending \in Nat BY DEF LimitsInv, LimitsTypeOK
<1>3. QED BY <1>1, <1>2, SendingCounts, InvitesStay

LEMMA ReadSeatLimitKeeps ==
  ASSUME LimitsInv, NEW i \in Inviter, ReadSeatLimit(i)
  PROVE  LimitsInv'
<1> DEFINE limit == Limit[tier]["seat"]
           v == [stage |-> IF limit = Unlimited THEN "insert" ELSE "count",
                 limit |-> limit, members |-> -1, pending |-> -1]
<1>1. limit \in LimitValue /\ AtMost(limit, peak["seat"])
  BY LimitsAssumption DEF LimitsInv, LimitsTypeOK, Remembered
<1>2. /\ inviter' = [inviter EXCEPT ![i] = v] /\ inviter[i].stage = "idle"
      /\ UNCHANGED <<tier, used, pending, creator, peak>>
  BY DEF ReadSeatLimit, countVars
<1>3. v \in Invite BY <1>1 DEF Invite
<1>4. pending \in Nat BY DEF LimitsInv, LimitsTypeOK
<1>5. InvitesFit'
  <2>1. CASE peak["seat"] = Unlimited BY <1>2, <2>1 DEF InvitesFit
  <2>2. CASE peak["seat"] # Unlimited
    <3>1. limit # Unlimited BY <1>1, <2>2 DEF AtMost
    <3>2. \A j \in Inviter : inviter'[j] = IF j = i THEN v ELSE inviter[j]
      BY <1>2 DEF LimitsInv, LimitsTypeOK
    <3>3. Sending' \subseteq Sending BY <1>2, <3>1, <3>2 DEF Sending
    <3>4. QED BY <1>2, <3>3, SendingShrinks
  <2>3. QED BY <2>1, <2>2
<1>6. QED BY <1>1, <1>2, <1>3, <1>4, <1>5, InviterKeeps

LEMMA CountMembersKeeps ==
  ASSUME LimitsInv, NEW i \in Inviter, CountMembers(i)
  PROVE  LimitsInv'
<1> DEFINE v == [inviter[i] EXCEPT !.members = used["seat"]]
<1>1. /\ inviter' = [inviter EXCEPT ![i] = v] /\ inviter[i].stage = "count"
      /\ UNCHANGED <<tier, used, pending, creator, peak>>
  BY DEF CountMembers, countVars
<1>2. /\ inviter[i] \in Invite /\ AtMost(inviter[i].limit, peak["seat"])
      /\ inviter[i].limit # Unlimited /\ used["seat"] \in Nat /\ pending \in Nat
  BY <1>1, LimitsAssumption DEF LimitsInv, LimitsTypeOK, Remembered, Counting, Waiting
<1>3. /\ v \in Invite /\ v.stage = "count" /\ v.limit = inviter[i].limit
      /\ v.pending = inviter[i].pending
  BY <1>1, <1>2 DEF Invite
<1>4. \A j \in Inviter : inviter'[j] = IF j = i THEN v ELSE inviter[j]
  BY <1>1 DEF LimitsInv, LimitsTypeOK
<1> HIDE DEF v
<1>5. Sending' \subseteq Sending BY <1>1, <1>3, <1>4 DEF Sending
<1>6. InvitesFit' BY <1>1, <1>5, SendingShrinks
<1>7. QED BY <1>1, <1>2, <1>3, <1>6, InviterKeeps

\* Whoever counts too few invitations counted fewer than the seats.
LEMMA CountPendingKeeps ==
  ASSUME LimitsInv, NEW i \in Inviter, CountPending(i)
  PROVE  LimitsInv'
<1> DEFINE v == [inviter[i] EXCEPT !.pending = pending]
<1>1. /\ inviter' = [inviter EXCEPT ![i] = v] /\ inviter[i].stage = "count"
      /\ UNCHANGED <<tier, used, pending, creator, peak>>
  BY DEF CountPending, countVars
<1>2. /\ inviter[i] \in Invite /\ AtMost(inviter[i].limit, peak["seat"])
      /\ inviter[i].limit \in Nat /\ inviter[i].limit # Unlimited /\ pending \in Nat
  BY <1>1, LimitsAssumption
     DEF LimitsInv, LimitsTypeOK, Remembered, Counting, Waiting, Invite, LimitValue
<1>3. /\ v \in Invite /\ v.stage = "count" /\ v.limit = inviter[i].limit
      /\ v.pending = pending
  BY <1>1, <1>2 DEF Invite
<1>4. \A j \in Inviter : inviter'[j] = IF j = i THEN v ELSE inviter[j]
  BY <1>1 DEF LimitsInv, LimitsTypeOK
<1> HIDE DEF v
<1>5. CASE pending < inviter[i].limit
  <2>1. SUFFICES ASSUME peak["seat"] # Unlimited
                 PROVE  pending + Cardinality(Sending')
                          <= peak["seat"] + Cardinality(Inviter) - 1
    BY <1>1, <1>2, <1>3, InviterKeeps DEF InvitesFit
  <2>2. peak["seat"] \in Nat
    BY <2>1, LimitsAssumption DEF LimitsInv, LimitsTypeOK, LimitValue
  <2>3. pending + 1 <= peak["seat"] BY <1>2, <1>5, <2>1, <2>2 DEF AtMost
  <2>4. Cardinality(Sending') \in Nat /\ Cardinality(Sending') <= Cardinality(Inviter)
    <3>1. Sending' \subseteq Inviter BY DEF Sending
    <3>2. QED BY <3>1, SubsetCounts, Requests
  <2>5. QED BY <1>2, <2>2, <2>3, <2>4, Requests
<1>6. CASE ~(pending < inviter[i].limit)
  <2>1. Sending' \subseteq Sending BY <1>1, <1>3, <1>4, <1>6 DEF Sending
  <2>2. InvitesFit' BY <1>1, <2>1, SendingShrinks
  <2>3. QED BY <1>1, <1>2, <1>3, <2>2, InviterKeeps
<1>7. QED BY <1>5, <1>6

\* Members and invitations below the seats: the invitations alone are.
LEMMA DecideKeeps ==
  ASSUME LimitsInv, NEW i \in Inviter, Decide(i)
  PROVE  LimitsInv'
<1> DEFINE full == inviter[i].members + inviter[i].pending >= inviter[i].limit
           v == IF full THEN Waiting ELSE [inviter[i] EXCEPT !.stage = "insert"]
<1>1. /\ inviter' = [inviter EXCEPT ![i] = v] /\ inviter[i].stage = "count"
      /\ inviter[i].members # -1 /\ inviter[i].pending # -1
      /\ UNCHANGED <<tier, used, pending, creator, peak>>
  BY DEF Decide, countVars, AnswerInviter
<1>2. /\ inviter[i] \in Invite /\ AtMost(inviter[i].limit, peak["seat"])
      /\ inviter[i].limit \in Nat /\ pending \in Nat
      /\ inviter[i].members \in Nat /\ inviter[i].pending \in Nat
  BY <1>1, LimitsAssumption
     DEF LimitsInv, LimitsTypeOK, Remembered, Counting, Waiting, Invite, LimitValue
<1>3. /\ v \in Invite \cup {Waiting} /\ v.stage # "count"
      /\ v.stage # "idle" => AtMost(v.limit, peak["seat"])
      /\ v.stage = "insert" => ~full
  <2>1. CASE full BY <2>1 DEF Waiting
  <2>2. CASE ~full
    <3>1. /\ v \in Invite /\ v.stage = "insert" /\ v.limit = inviter[i].limit
      BY <1>2, <2>2 DEF Invite
    <3>2. QED BY <1>2, <2>2, <3>1
  <2>3. QED BY <2>1, <2>2
<1>4. \A j \in Inviter : inviter'[j] = IF j = i THEN v ELSE inviter[j]
  BY <1>1 DEF LimitsInv, LimitsTypeOK
<1> HIDE DEF v
<1>5. ~full => inviter[i].pending < inviter[i].limit BY <1>2
<1>6. Sending' \subseteq Sending BY <1>1, <1>3, <1>4, <1>5 DEF Sending
<1>7. InvitesFit' BY <1>1, <1>6, SendingShrinks
<1>8. QED BY <1>1, <1>2, <1>3, <1>7, InviterKeeps

\* The invitation is paid for by the request that sent it.
LEMMA SendInvitationKeeps ==
  ASSUME LimitsInv, NEW i \in Inviter, SendInvitation(i)
  PROVE  LimitsInv'
<1>1. /\ inviter' = [inviter EXCEPT ![i] = Waiting] /\ inviter[i].stage = "insert"
      /\ pending' = pending + 1 /\ pending \in Nat
      /\ UNCHANGED <<tier, used, creator, peak>>
  BY DEF SendInvitation, AnswerInviter, LimitsInv, LimitsTypeOK
<1>2. \A j \in Inviter : inviter'[j] = IF j = i THEN Waiting ELSE inviter[j]
  BY <1>1 DEF LimitsInv, LimitsTypeOK
<1>3. i \in Sending /\ Sending' = Sending \ {i}
  BY <1>1, <1>2 DEF Sending, Waiting
<1>4. Cardinality(Sending') = Cardinality(Sending) - 1 /\ Cardinality(Sending') \in Nat
  BY <1>3, SendingCounts, Loses, SubsetCounts
<1>5. InvitesFit' BY <1>1, <1>4, SendingCounts, InvitesStay
<1>6. Waiting.stage = "idle" /\ pending' \in Nat BY <1>1 DEF Waiting
<1>7. QED BY <1>1, <1>5, <1>6, InviterKeeps

LEMMA InvitationEndsKeeps ==
  ASSUME LimitsInv, InvitationEnds
  PROVE  LimitsInv'
<1>1. /\ pending > 0 /\ pending' = pending - 1 /\ pending \in Nat
      /\ UNCHANGED <<tier, used, creator, inviter, peak>>
  BY DEF InvitationEnds, LimitsInv, LimitsTypeOK
<1>2. LimitsTypeOK' BY <1>1 DEF LimitsInv, LimitsTypeOK
<1>3. Remembered' /\ Counting' BY <1>1 DEF LimitsInv, Remembered, AtMost, Counting
<1>4. RowsFit' BY <1>1, RowsUntouched
<1>5. InvitesFit' BY <1>1, InvitesUntouched
<1>6. QED BY <1>2, <1>3, <1>4, <1>5 DEF LimitsInv

-----------------------------------------------------------------------------
(* The theorems *)

LEMMA StepKeeps == ASSUME LimitsInv, LimitsNext PROVE LimitsInv'
<1>1. CASE \E t \in Plans : PlanChangesTo(t) BY <1>1, PlanKeeps
<1>2. CASE LimitsStep
  <2>1. CASE \E c \in Creator, r \in Resource : ReadLimit(c, r) BY <2>1, ReadLimitKeeps
  <2>2. CASE \E c \in Creator : CountUsage(c) BY <2>2, CountUsageKeeps
  <2>3. CASE \E c \in Creator : Insert(c) BY <2>3, InsertKeeps
  <2>4. CASE \E r \in Resource : RemoveRow(r) BY <2>4, RemoveRowKeeps
  <2>5. CASE \E i \in Inviter : ReadSeatLimit(i) BY <2>5, ReadSeatLimitKeeps
  <2>6. CASE \E i \in Inviter : CountMembers(i) BY <2>6, CountMembersKeeps
  <2>7. CASE \E i \in Inviter : CountPending(i) BY <2>7, CountPendingKeeps
  <2>8. CASE \E i \in Inviter : Decide(i) BY <2>8, DecideKeeps
  <2>9. CASE \E i \in Inviter : SendInvitation(i) BY <2>9, SendInvitationKeeps
  <2>10. CASE InvitationEnds BY <2>10, InvitationEndsKeeps
  <2>11. QED
    BY <1>2, <2>1, <2>2, <2>3, <2>4, <2>5, <2>6, <2>7, <2>8, <2>9, <2>10 DEF LimitsStep
<1>3. QED BY <1>1, <1>2 DEF LimitsNext

LEMMA StutterKeeps == ASSUME LimitsInv, UNCHANGED limitsVars PROVE LimitsInv'
<1>1. UNCHANGED <<tier, used, pending, creator, inviter, peak>> BY DEF limitsVars, countVars
<1>2. LimitsTypeOK' BY <1>1 DEF LimitsInv, LimitsTypeOK
<1>3. Remembered' /\ Counting' BY <1>1 DEF LimitsInv, Remembered, AtMost, Counting
<1>4. RowsFit' BY <1>1, RowsUntouched
<1>5. pending \in Nat BY DEF LimitsInv, LimitsTypeOK
<1>6. InvitesFit' BY <1>1, <1>5, InvitesUntouched
<1>7. QED BY <1>2, <1>3, <1>4, <1>6 DEF LimitsInv

LEMMA InvAlways == LimitsSpec => []LimitsInv
<1>1. LimitsInit => LimitsInv BY InvInit
<1>2. LimitsInv /\ [LimitsNext]_limitsVars => LimitsInv' BY StepKeeps, StutterKeeps
<1>3. QED BY <1>1, <1>2, PTL DEF LimitsSpec

\* Requests, rows and limits keep their types: in particular the last member, the
\* owner, is never removed, and nobody accepts an invitation that is not there.
THEOREM LimitsTypeCorrect == LimitsSpec => []LimitsTypeOK
<1>1. LimitsInv => LimitsTypeOK BY DEF LimitsInv
<1>2. QED BY <1>1, InvAlways, PTL

\* For every catalog and every number of overlapping requests, neither the rows nor
\* the invitations exceed the highest limit so far by more than the other requests.
THEOREM LimitsBounded == LimitsSpec => []LimitsHold
<1>1. ASSUME LimitsInv PROVE LimitsHold
  <2>1. ASSUME NEW r \in Resource, peak[r] # Unlimited
        PROVE  used[r] <= peak[r] + Cardinality(Creator) - 1
    <3>1. used[r] \in Nat /\ peak[r] \in Nat
      BY <1>1, <2>1, LimitsAssumption DEF LimitsInv, LimitsTypeOK, LimitValue
    <3>2. used[r] + Cardinality(Inserting(r)) <= peak[r] + Cardinality(Creator) - 1
      BY <1>1, <2>1 DEF LimitsInv, RowsFit
    <3>3. QED BY <3>1, <3>2, InsertingCounts, Requests
  <2>2. ASSUME peak["seat"] # Unlimited
        PROVE  pending <= peak["seat"] + Cardinality(Inviter) - 1
    <3>1. pending \in Nat /\ peak["seat"] \in Nat
      BY <1>1, <2>2, LimitsAssumption DEF LimitsInv, LimitsTypeOK, LimitValue
    <3>2. pending + Cardinality(Sending) <= peak["seat"] + Cardinality(Inviter) - 1
      BY <1>1, <2>2 DEF LimitsInv, InvitesFit
    <3>3. QED BY <3>1, <3>2, SendingCounts, Requests
  <2>3. QED BY <2>1, <2>2 DEF LimitsHold, UsageIsBounded, InvitesAreBounded, NearLimit
<1>2. LimitsInv => LimitsHold BY <1>1
<1>3. QED BY <1>2, InvAlways, PTL


-----------------------------------------------------------------------------
(* The subscription.  When every event is answered and none came late, the *)
(* last thing that was done to the row is what the latest batch of events  *)
(* says, and that is what Stripe did last.                                 *)

Event ==
  [type : EventType, sub : Sub, price : Maybe(Paid),
   status : {"none", "active", "past_due", "canceled"}, customer : Maybe(Checkout), batch : Nat]

\* Nothing here depends on whether a plan is one that is paid for.
SomeRow == [plan : Maybe(Tier), status : Status, sub : Maybe(Sub), customer : Maybe(Checkout)]

BillingTypeOK ==
  /\ row \in SomeRow
  /\ checkout \in [Checkout -> [stage : {"unused", "persist", "open"}, tier : Maybe(Paid),
                                customer : Maybe(Checkout)]]
  /\ stripe \in [Sub -> StripeSub]
  /\ events \in Seq(Event)
  /\ recorded \subseteq answered /\ answered \subseteq DOMAIN events
  /\ late \in BOOLEAN /\ doubled \in BOOLEAN

\* The batch Stripe emitted last.
Latest == IF events = <<>> THEN 0 ELSE events[Len(events)].batch
InLatest(i) == i \in DOMAIN events /\ events[i].batch = Latest

BatchesOK ==
  /\ Latest <= Len(events)
  /\ \A i \in DOMAIN events : events[i].batch <= Latest

Deleted   == "customer.subscription.deleted"
Snapshots == {"customer.subscription.created", "customer.subscription.updated"}

\* What an event of a subscription that is not deleted agrees with.
Tells(e, s) ==
  /\ e.type # Deleted /\ e.sub = s /\ e.price = stripe[s].price /\ e.status = stripe[s].status
  /\ e.type = "invoice.payment_succeeded" => stripe[s].status = "active"
  /\ e.type = "invoice.payment_failed" => stripe[s].status = "past_due"

\* The latest batch says how Stripe stands.
LatestTells ==
  \/ Live = {} /\ \A i \in DOMAIN events : InLatest(i) => events[i].type = Deleted
  \/ \E s \in Sub :
       /\ Live = {s} /\ \A i \in DOMAIN events : InLatest(i) => Tells(events[i], s)
       /\ \E i \in DOMAIN events : InLatest(i) /\ events[i].type \in Snapshots

\* And the row says what of it is recorded.
RowFollows ==
  /\ events = <<>> => AgreesWithStripe
  /\ \A i \in recorded : InLatest(i) /\ events[i].type \in Snapshots \cup {Deleted} => AgreesWithStripe

\* Only the events of invoices are answered without being recorded.
AnsweredAreRecorded ==
  \A i \in answered : events[i].type \in Snapshots \cup {Deleted} => i \in recorded

BillingInv ==
  /\ BillingTypeOK /\ BatchesOK /\ AnsweredAreRecorded
  /\ ~doubled => LatestTells
  /\ ~doubled /\ ~late => RowFollows

LEMMA BillingInvInit == ASSUME BillingInit PROVE BillingInv
<1>1. events = <<>> /\ recorded = {} /\ answered = {} /\ late = FALSE /\ doubled = FALSE
  BY DEF BillingInit
<1>2. row \in SomeRow
  BY DEF BillingInit, NoRow, SomeRow, Tier, Status, Maybe
<1>3. stripe \in [Sub -> StripeSub]
  BY DEF BillingInit, NoSub, StripeSub, Maybe
<1>4. /\ checkout \in [Checkout -> [stage : {"unused", "persist", "open"}, tier : Maybe(Paid),
                                    customer : Maybe(Checkout)]]
      /\ events \in Seq(Event) /\ DOMAIN events = {} /\ Len(events) = 0
  BY <1>1 DEF BillingInit, Maybe
<1>5. BillingTypeOK
  BY <1>1, <1>2, <1>3, <1>4 DEF BillingTypeOK
<1>6. BatchesOK /\ Latest = 0
  BY <1>1, <1>4 DEF BatchesOK, Latest
<1>7. Live = {}
  BY DEF BillingInit, Live, NoSub
<1>8. AgreesWithStripe
  BY <1>7 DEF BillingInit, NoRow, AgreesWithStripe
<1>9. QED
  BY <1>1, <1>4, <1>5, <1>6, <1>7, <1>8
     DEF BillingInv, AnsweredAreRecorded, LatestTells, RowFollows

\* What one emission adds.
LEMMA Emission ==
  ASSUME BillingTypeOK, BatchesOK, NEW s \in Sub, NEW types \in Seq(EventType),
         Len(types) # 0, Emits(s, types), stripe' \in [Sub -> StripeSub]
  PROVE  /\ BillingTypeOK' /\ BatchesOK' /\ events' # <<>>
         /\ \A i \in DOMAIN events : i \in DOMAIN events' /\ events'[i] = events[i] /\ ~InLatest(i)'
         /\ \A i \in DOMAIN events' :
              \/ i \in DOMAIN events
              \/ /\ i \notin DOMAIN events
                 /\ \E j \in DOMAIN types : events'[i].type = types[j]
                 /\ events'[i].sub = s /\ events'[i].price = stripe'[s].price
                 /\ events'[i].status = stripe'[s].status
         /\ \A j \in DOMAIN types : \E i \in DOMAIN events' : InLatest(i)' /\ events'[i].type = types[j]
         /\ doubled' = (doubled \/ Cardinality(Live') > 1)
         /\ UNCHANGED <<appVars, answered, late>>
<1> DEFINE first == Len(events) + 1
           new(i) == [type |-> types[i], sub |-> s, price |-> stripe'[s].price,
                      status |-> stripe'[s].status, customer |-> stripe'[s].customer,
                      batch |-> first]
           batch == [i \in 1 .. Len(types) |-> new(i)]
<1>1. /\ events' = events \o batch
      /\ doubled' = (doubled \/ Cardinality(Live') > 1)
      /\ UNCHANGED <<appVars, answered, late>>
  BY DEF Emits
<1>2. Len(events) \in Nat /\ Len(types) \in Nat \ {0} /\ first \in Nat /\ DOMAIN events = 1..Len(events)
      /\ DOMAIN types = 1..Len(types)
  BY DEF BillingTypeOK
<1>3. \A i \in 1..Len(types) : new(i) \in Event
  <2>1. stripe'[s] \in StripeSub
    OBVIOUS
  <2>2. stripe'[s].price \in Maybe(Paid) /\ stripe'[s].customer \in Maybe(Checkout)
        /\ stripe'[s].status \in {"none", "active", "past_due", "canceled"}
    BY <2>1 DEF StripeSub
  <2> HIDE DEF first
  <2>3. QED
    BY <1>2, <2>2 DEF Event
<1>4. batch \in Seq(Event) /\ Len(batch) = Len(types)
  <2> HIDE DEF new
  <2>1. batch \in [1..Len(types) -> Event]
    BY <1>3
  <2>2. QED
    BY <1>2, <2>1, IsASeq, LenProperties
<1>5. \A i \in 1..Len(types) : /\ new(i).type = types[i] /\ new(i).sub = s
                               /\ new(i).price = stripe'[s].price /\ new(i).status = stripe'[s].status
                               /\ new(i).batch = first
  <2> HIDE DEF first
  <2>1. QED
    OBVIOUS
<1>6. \A i \in 1..Len(types) : batch[i] = new(i)
  <2> HIDE DEF new
  <2>1. QED
    OBVIOUS
<1> HIDE DEF new, batch
<1>7. /\ events' \in Seq(Event) /\ Len(events') = Len(events) + Len(types)
      /\ DOMAIN events' = 1..(Len(events) + Len(types))
      /\ \A i \in 1..(Len(events) + Len(types)) :
            events'[i] = IF i <= Len(events) THEN events[i] ELSE batch[i - Len(events)]
  <2>1. /\ events \o batch \in Seq(Event) /\ Len(events \o batch) = Len(events) + Len(batch)
        /\ \A i \in 1 .. Len(events) + Len(batch) : (events \o batch)[i] =
              IF i <= Len(events) THEN events[i] ELSE batch[i - Len(events)]
    <3>1. events \in Seq(Event) /\ batch \in Seq(Event)
      BY <1>4 DEF BillingTypeOK
    <3>2. QED
      BY ONLY <3>1, ConcatProperties
  <2>2. /\ events' \in Seq(Event) /\ Len(events') = Len(events) + Len(types)
        /\ \A i \in 1 .. Len(events) + Len(types) : events'[i] =
              IF i <= Len(events) THEN events[i] ELSE batch[i - Len(events)]
    BY <1>1, <1>4, <2>1, Zenon
  <2>3. DOMAIN events' = 1..Len(events')
    BY <2>2, LenProperties
  <2>4. QED
    BY <2>2, <2>3, Zenon
<1>8. ASSUME NEW i \in DOMAIN events
      PROVE  /\ i \in DOMAIN events' /\ events'[i] = events[i]
             /\ events'[i].batch \in Nat /\ events'[i].batch < first
  <2>1. i \in 1..Len(events) /\ i \in DOMAIN events' /\ events'[i] = events[i]
    BY <1>2, <1>7
  <2>2. events[i] \in Event /\ events[i].batch \in Nat
    <3>1. events[i] \in Event
      BY <2>1, ElementOfSeq DEF BillingTypeOK
    <3>2. QED
      BY <3>1 DEF Event
  <2>3. events[i].batch <= Latest /\ Latest <= Len(events)
    BY DEF BatchesOK
  <2>4. Latest \in Nat
    <3>1. events # <<>> => events[Len(events)] \in Event
      BY <1>2 DEF BillingTypeOK
    <3>2. QED
      BY <3>1 DEF Latest, Event
  <2>5. QED
    BY <1>2, <2>1, <2>2, <2>3, <2>4
<1>9. ASSUME NEW j \in 1..Len(types)
      PROVE  Len(events) + j \in DOMAIN events' /\ events'[Len(events) + j] = new(j)
  <2>1. j \in Nat /\ Len(events) + j \in 1..(Len(events) + Len(types)) /\ ~(Len(events) + j <= Len(events))
        /\ (Len(events) + j) - Len(events) = j
    BY <1>2
  <2>2. events'[Len(events) + j] = batch[(Len(events) + j) - Len(events)]
    BY <1>7, <2>1
  <2>3. QED
    BY <1>6, <1>7, <2>1, <2>2
<1>10. ASSUME NEW i \in DOMAIN events', i \notin DOMAIN events
       PROVE  \E j \in 1..Len(types) : i = Len(events) + j
  <2>1. i - Len(events) \in 1..Len(types) /\ i = Len(events) + (i - Len(events))
    BY <1>2, <1>7, <1>10
  <2>2. QED
    BY <2>1
<1>11. events' # <<>> /\ Latest' = first
  <2>1. Len(events') # 0 /\ Len(events') = Len(events) + Len(types) /\ Len(types) \in 1..Len(types)
    BY <1>2, <1>7
  <2>2. events' # <<>>
    BY <2>1
  <2>3. events'[Len(events')].batch = first
    BY <1>5, <1>9, <2>1
  <2>4. QED
    BY <2>2, <2>3 DEF Latest
<1>12. BatchesOK'
  <2>1. \A i \in DOMAIN events' : events'[i].batch <= first
    <3> TAKE i \in DOMAIN events'
    <3>1. CASE i \in DOMAIN events
      <4>1. events'[i].batch < first /\ events'[i].batch \in Nat
        BY <1>8, <3>1
      <4>2. QED
        BY <1>2, <4>1
    <3>2. CASE i \notin DOMAIN events
      <4>1. events'[i].batch = first
        BY <1>5, <1>9, <1>10, <3>2
      <4>2. QED
        BY <1>2, <4>1
    <3>3. QED
      BY <3>1, <3>2
  <2>2. first <= Len(events')
    BY <1>2, <1>7
  <2>3. QED
    BY <1>11, <2>1, <2>2 DEF BatchesOK
<1>13. BillingTypeOK'
  <2>1. DOMAIN events \subseteq DOMAIN events'
    BY <1>8
  <2>2. QED
    BY <1>1, <1>7, <2>1 DEF BillingTypeOK, appVars
<1>14. \A i \in DOMAIN events : ~InLatest(i)'
  <2> TAKE i \in DOMAIN events
  <2>1. events'[i].batch < first /\ events'[i].batch \in Nat
    BY <1>8
  <2>2. QED
    BY <1>2, <1>11, <2>1 DEF InLatest
<1>15. \A j \in DOMAIN types : \E i \in DOMAIN events' : InLatest(i)' /\ events'[i].type = types[j]
  BY <1>2, <1>5, <1>9, <1>11 DEF InLatest
<1>16. \A i \in DOMAIN events' :
         \/ i \in DOMAIN events
         \/ /\ i \notin DOMAIN events
            /\ \E j \in DOMAIN types : events'[i].type = types[j]
            /\ events'[i].sub = s /\ events'[i].price = stripe'[s].price
            /\ events'[i].status = stripe'[s].status
  <2> TAKE i \in DOMAIN events'
  <2>1. CASE i \notin DOMAIN events
    <3>1. PICK j \in 1..Len(types) : i = Len(events) + j
      BY <1>10, <2>1
    <3>2. events'[i] = new(j)
      BY <1>9, <3>1
    <3>3. QED
      BY <1>2, <1>5, <2>1, <3>2
  <2>2. QED
    BY <2>1
<1>17. QED
  BY <1>1, <1>8, <1>11, <1>12, <1>13, <1>14, <1>15, <1>16


\* What a batch says of who is live then: nobody, or s with that status.
Announces(types, s, live, status) ==
  \/ live = {} /\ \A j \in DOMAIN types : types[j] = Deleted
  \/ /\ live = {s}
     /\ \A j \in DOMAIN types :
          /\ types[j] # Deleted
          /\ types[j] = "invoice.payment_succeeded" => status = "active"
          /\ types[j] = "invoice.payment_failed" => status = "past_due"
     /\ \E j \in DOMAIN types : types[j] \in Snapshots

\* How a step of Stripe's leaves the latest batch and the row.
LEMMA EmissionStep ==
  ASSUME BillingInv, NEW s \in Sub, NEW types \in Seq(EventType), Len(types) # 0,
         Emits(s, types), stripe' \in [Sub -> StripeSub],
         ~doubled /\ ~(Cardinality(Live') > 1) => Announces(types, s, Live', stripe'[s].status)
  PROVE  BillingInv'
<1>1. BillingTypeOK /\ BatchesOK
  BY DEF BillingInv
<1>2. /\ BillingTypeOK' /\ BatchesOK' /\ events' # <<>>
      /\ \A i \in DOMAIN events : i \in DOMAIN events' /\ events'[i] = events[i] /\ ~InLatest(i)'
      /\ \A i \in DOMAIN events' :
           \/ i \in DOMAIN events
           \/ /\ i \notin DOMAIN events
              /\ \E j \in DOMAIN types : events'[i].type = types[j]
              /\ events'[i].sub = s /\ events'[i].price = stripe'[s].price
              /\ events'[i].status = stripe'[s].status
      /\ \A j \in DOMAIN types : \E i \in DOMAIN events' : InLatest(i)' /\ events'[i].type = types[j]
      /\ doubled' = (doubled \/ Cardinality(Live') > 1)
      /\ UNCHANGED <<appVars, answered, late>>
  BY <1>1, Emission
<1>3. recorded' = recorded /\ answered' = answered
  BY <1>2 DEF appVars
<1>4. recorded \subseteq DOMAIN events /\ answered \subseteq DOMAIN events
  BY <1>1 DEF BillingTypeOK
<1>5. AnsweredAreRecorded'
  BY <1>2, <1>3, <1>4 DEF BillingInv, AnsweredAreRecorded
<1>6. RowFollows'
  BY <1>2, <1>3, <1>4 DEF RowFollows
<1>7. ASSUME ~doubled' PROVE LatestTells'
  <2>1. \A i \in DOMAIN events' : InLatest(i)' => i \notin DOMAIN events
    BY <1>2
  <2>2. CASE Live' = {} /\ \A j \in DOMAIN types : types[j] = Deleted
    <3>1. \A i \in DOMAIN events' : InLatest(i)' => events'[i].type = Deleted
      BY <1>2, <2>1, <2>2
    <3>2. QED
      BY <2>2, <3>1 DEF LatestTells
  <2>3. CASE /\ Live' = {s}
             /\ \A j \in DOMAIN types :
                  /\ types[j] # Deleted
                  /\ types[j] = "invoice.payment_succeeded" => stripe'[s].status = "active"
                  /\ types[j] = "invoice.payment_failed" => stripe'[s].status = "past_due"
             /\ \E j \in DOMAIN types : types[j] \in Snapshots
    <3>1. \A i \in DOMAIN events' : InLatest(i)' => Tells(events[i], s)'
      BY <1>2, <2>1, <2>3 DEF Tells
    <3>2. \E i \in DOMAIN events' : InLatest(i)' /\ events'[i].type \in Snapshots
      BY <1>2, <2>3
    <3>3. QED
      BY <2>3, <3>1, <3>2 DEF LatestTells
  <2>4. QED
    BY <1>2, <1>7, <2>2, <2>3 DEF Announces
<1>8. QED
  BY <1>2, <1>5, <1>6, <1>7 DEF BillingInv

\* The batches are lists of events.
LEMMA Batches ==
  /\ <<"checkout.session.completed", "customer.subscription.created", "invoice.payment_succeeded">>
       \in Seq(EventType)
  /\ <<"customer.subscription.updated">> \in Seq(EventType)
  /\ <<Deleted>> \in Seq(EventType)
  /\ <<"customer.subscription.updated", "invoice.payment_failed">> \in Seq(EventType)
  /\ <<"customer.subscription.updated", "invoice.payment_succeeded">> \in Seq(EventType)
BY DEF EventType, Deleted

\* A subscription that is live, and the only one.
LEMMA OnlyLive ==
  ASSUME BillingInv, ~doubled, NEW s \in Live
  PROVE  Live = {s} /\ s \in Sub
BY DEF BillingInv, LatestTells, Live

LEMMA CheckoutIsPaidStep ==
  ASSUME BillingInv, NEW k \in Checkout, CheckoutIsPaid(k) PROVE BillingInv'
<1> DEFINE types == <<"checkout.session.completed", "customer.subscription.created",
                      "invoice.payment_succeeded">>
<1>1. /\ stripe[k] = NoSub /\ Emits(k, types)
      /\ stripe' = [stripe EXCEPT ![k] = [status |-> "active", price |-> checkout[k].tier,
                                          customer |-> checkout[k].customer]]
  BY DEF CheckoutIsPaid
<1>2. k \in Sub /\ checkout[k].tier \in Maybe(Paid) /\ checkout[k].customer \in Maybe(Checkout)
  BY DEF BillingInv, BillingTypeOK, Sub
<1>3. stripe' \in [Sub -> StripeSub] /\ stripe'[k].status = "active"
      /\ \A s \in Sub : s # k => stripe'[s] = stripe[s]
  BY <1>1, <1>2 DEF BillingInv, BillingTypeOK, StripeSub
<1>4. k \notin Live /\ Live' = Live \cup {k}
  BY <1>1, <1>2, <1>3 DEF Live, NoSub
<1>5. types \in Seq(EventType) /\ Len(types) = 3 /\ DOMAIN types = 1..3
      /\ types[1] = "checkout.session.completed" /\ types[2] = "customer.subscription.created"
      /\ types[3] = "invoice.payment_succeeded"
  BY Batches
<1> HIDE DEF types
<1>6. \A j \in DOMAIN types : /\ types[j] # Deleted /\ types[j] # "invoice.payment_failed"
                              /\ types[j] \in {types[1], types[2], types[3]}
  BY <1>5 DEF Deleted
<1>7. \E j \in DOMAIN types : types[j] \in Snapshots
  BY <1>5 DEF Snapshots
<1>8. ASSUME ~doubled, ~(Cardinality(Live') > 1) PROVE Live' = {k}
  <2>1. CASE Live = {}
    BY <1>4, <2>1
  <2>2. CASE Live # {}
    <3>1. PICK s \in Live : Live = {s}
      BY <1>8, <2>2, OnlyLive
    <3>2. IsFiniteSet({s}) /\ Cardinality({s}) = 1
      BY FS_Singleton
    <3>3. Cardinality({s} \cup {k}) = 2
      BY <1>4, <3>1, <3>2, FS_AddElement
    <3>4. QED
      BY <1>4, <1>8, <3>1, <3>3
  <2>3. QED
    BY <2>1, <2>2
<1>9. QED
  <2>1. ~doubled /\ ~(Cardinality(Live') > 1) => Announces(types, k, Live', stripe'[k].status)
    BY <1>3, <1>6, <1>7, <1>8 DEF Announces
  <2>2. Len(types) # 0
    BY <1>5
  <2>3. QED
    BY <1>1, <1>2, <1>3, <1>5, <2>1, <2>2, EmissionStep, Zenon

LEMMA ChangePlanStep ==
  ASSUME BillingInv, NEW s \in Sub, ChangePlan(s) PROVE BillingInv'
<1>1. PICK t \in Paid : stripe' = [stripe EXCEPT ![s].price = t]
  BY DEF ChangePlan
<1>2. s \in Live /\ Emits(s, <<"customer.subscription.updated">>)
  BY DEF ChangePlan, Reachable
<1>3. stripe' \in [Sub -> StripeSub] /\ \A r \in Sub : stripe'[r].status = stripe[r].status
  BY <1>1 DEF BillingInv, BillingTypeOK, StripeSub, Maybe
<1>4. Live' = Live
  BY <1>3 DEF Live
<1> DEFINE types == <<"customer.subscription.updated">>
<1>5. types \in Seq(EventType) /\ Len(types) = 1 /\ DOMAIN types = 1..1
      /\ types[1] = "customer.subscription.updated"
  BY Batches
<1>6. Emits(s, types)
  BY <1>2
<1> HIDE DEF types
<1>7. \A j \in DOMAIN types : types[j] = "customer.subscription.updated"
  BY <1>5
<1>8. \E j \in DOMAIN types : types[j] \in Snapshots
  BY <1>5 DEF Snapshots
<1>9. ~doubled => Live' = {s}
  BY <1>2, <1>4, OnlyLive
<1>10. QED
  <2>1. ~doubled /\ ~(Cardinality(Live') > 1) => Announces(types, s, Live', stripe'[s].status)
    BY <1>7, <1>8, <1>9 DEF Announces, Deleted
  <2>2. Len(types) # 0
    BY <1>5
  <2>3. QED
    BY <1>3, <1>5, <1>6, <2>1, <2>2, EmissionStep, Zenon

LEMMA CancelSubscriptionStep ==
  ASSUME BillingInv, NEW s \in Sub, CancelSubscription(s) PROVE BillingInv'
<1>1. s \in Live /\ Emits(s, <<Deleted>>) /\ stripe' = [stripe EXCEPT ![s].status = "canceled"]
  BY DEF CancelSubscription, Reachable, Deleted
<1>2. stripe' \in [Sub -> StripeSub] /\ stripe'[s].status = "canceled"
      /\ \A r \in Sub : r # s => stripe'[r] = stripe[r]
  BY <1>1 DEF BillingInv, BillingTypeOK, StripeSub
<1>3. Live' = Live \ {s}
  BY <1>2 DEF Live
<1> DEFINE types == <<Deleted>>
<1>4. types \in Seq(EventType) /\ Len(types) = 1 /\ DOMAIN types = 1..1 /\ types[1] = Deleted
  BY Batches
<1>5. Emits(s, types)
  BY <1>1
<1> HIDE DEF types
<1>6. \A j \in DOMAIN types : types[j] = Deleted
  BY <1>4
<1>7. ~doubled => Live' = {}
  BY <1>1, <1>3, OnlyLive
<1>8. QED
  <2>1. ~doubled /\ ~(Cardinality(Live') > 1) => Announces(types, s, Live', stripe'[s].status)
    BY <1>6, <1>7 DEF Announces
  <2>2. Len(types) # 0
    BY <1>4
  <2>3. QED
    BY <1>2, <1>4, <1>5, <2>1, <2>2, EmissionStep, Zenon

\* A payment that fails, and one that succeeds after all.
LEMMA PaymentStep ==
  ASSUME BillingInv, NEW s \in Sub, NEW to \in {"active", "past_due"}, NEW invoice,
         invoice = IF to = "active" THEN "invoice.payment_succeeded" ELSE "invoice.payment_failed",
         stripe[s].status \in {"active", "past_due"}, stripe' = [stripe EXCEPT ![s].status = to],
         Emits(s, <<"customer.subscription.updated", invoice>>)
  PROVE  BillingInv'
<1>1. stripe' \in [Sub -> StripeSub] /\ stripe'[s].status = to
      /\ \A r \in Sub : r # s => stripe'[r] = stripe[r]
  BY DEF BillingInv, BillingTypeOK, StripeSub
<1>2. s \in Live /\ Live' = Live
  BY <1>1 DEF Live
<1> DEFINE types == <<"customer.subscription.updated", invoice>>
<1>3. types \in Seq(EventType) /\ Len(types) = 2 /\ DOMAIN types = 1..2
      /\ types[1] = "customer.subscription.updated" /\ types[2] = invoice
  BY Batches
<1>4. Emits(s, types)
  OBVIOUS
<1> HIDE DEF types
<1>5. \A j \in DOMAIN types : types[j] \in {"customer.subscription.updated", invoice}
  BY <1>3
<1>6. \E j \in DOMAIN types : types[j] \in Snapshots
  BY <1>3 DEF Snapshots
<1>7. ~doubled => Live' = {s}
  BY <1>2, OnlyLive
<1>8. \A j \in DOMAIN types :
        /\ types[j] # Deleted
        /\ types[j] = "invoice.payment_succeeded" => stripe'[s].status = "active"
        /\ types[j] = "invoice.payment_failed" => stripe'[s].status = "past_due"
  BY <1>1, <1>5 DEF Deleted
<1>9. QED
  <2>1. ~doubled /\ ~(Cardinality(Live') > 1) => Announces(types, s, Live', stripe'[s].status)
    BY <1>6, <1>7, <1>8 DEF Announces
  <2>2. Len(types) # 0
    BY <1>3
  <2>3. QED
    BY <1>1, <1>3, <1>4, <2>1, <2>2, EmissionStep, Zenon


\* The latest batch is told by the variables Stripe writes.
LEMMA LatestQuiet ==
  ASSUME UNCHANGED <<stripe, events>>
  PROVE  /\ (LatestTells <=> LatestTells') /\ (BatchesOK <=> BatchesOK') /\ Live' = Live
         /\ \A i : InLatest(i) <=> InLatest(i)'
BY DEF LatestTells, BatchesOK, Live, InLatest, Latest, Tells

\* The service's own steps write no more of the row than the customer.
LEMMA ServiceStep ==
  ASSUME BillingInv, UNCHANGED <<recorded, stripeVars, answered, late>>,
         row' \in SomeRow, row'.plan = row.plan, row'.sub = row.sub, row'.status = row.status,
         checkout' \in [Checkout -> [stage : {"unused", "persist", "open"}, tier : Maybe(Paid),
                                     customer : Maybe(Checkout)]]
  PROVE  BillingInv'
<1>1. stripe' = stripe /\ events' = events /\ doubled' = doubled
  BY DEF stripeVars
<1>2. /\ (LatestTells <=> LatestTells') /\ (BatchesOK <=> BatchesOK') /\ Live' = Live
      /\ \A i : InLatest(i) <=> InLatest(i)'
  BY <1>1, LatestQuiet
<1>3. AgreesWithStripe => AgreesWithStripe'
  BY <1>1, <1>2 DEF AgreesWithStripe
<1>4. BillingTypeOK'
  BY <1>1 DEF BillingInv, BillingTypeOK
<1>5. RowFollows => RowFollows'
  BY <1>1, <1>2, <1>3 DEF RowFollows
<1>6. AnsweredAreRecorded'
  BY <1>1 DEF BillingInv, AnsweredAreRecorded
<1>7. QED
  BY <1>1, <1>2, <1>4, <1>5, <1>6 DEF BillingInv

LEMMA StartCheckoutStep ==
  ASSUME BillingInv, NEW k \in Checkout, StartCheckout(k) PROVE BillingInv'
<1>1. row \in SomeRow /\ row' = row /\ UNCHANGED <<recorded, stripeVars, answered, late>>
  BY DEF StartCheckout, BillingInv, BillingTypeOK
<1>2. PICK t \in Paid :
        checkout' = [checkout EXCEPT ![k] =
          IF row.customer # None THEN [stage |-> "open", tier |-> t, customer |-> row.customer]
                                 ELSE [stage |-> "persist", tier |-> t, customer |-> k]]
  BY DEF StartCheckout
<1>3. row.customer \in Maybe(Checkout)
  BY <1>1 DEF SomeRow
<1>4. checkout' \in [Checkout -> [stage : {"unused", "persist", "open"}, tier : Maybe(Paid),
                                  customer : Maybe(Checkout)]]
  BY <1>2, <1>3 DEF BillingInv, BillingTypeOK, Maybe
<1>5. QED
  BY <1>1, <1>4, ServiceStep

LEMMA EnsureCustomerStep ==
  ASSUME BillingInv, NEW k \in Checkout, EnsureCustomer(k) PROVE BillingInv'
<1>1. /\ row' = [row EXCEPT !.customer = k] /\ checkout' = [checkout EXCEPT ![k].stage = "open"]
      /\ UNCHANGED <<recorded, stripeVars, answered, late>>
  BY DEF EnsureCustomer
<1>2. row' \in SomeRow /\ row'.plan = row.plan /\ row'.sub = row.sub /\ row'.status = row.status
  BY <1>1 DEF BillingInv, BillingTypeOK, SomeRow, Maybe
<1>3. checkout' \in [Checkout -> [stage : {"unused", "persist", "open"}, tier : Maybe(Paid),
                                  customer : Maybe(Checkout)]]
  BY <1>1 DEF BillingInv, BillingTypeOK
<1>4. QED
  BY <1>1, <1>2, <1>3, ServiceStep

\* What an event does to the row, of each type.
LEMMA Applied ==
  ASSUME row \in SomeRow, NEW e \in Event
  PROVE  /\ applyEvent(e) \in SomeRow
         /\ e.type = "checkout.session.completed" =>
              /\ applyEvent(e).plan = row.plan /\ applyEvent(e).status = row.status
              /\ applyEvent(e).sub = e.sub
         /\ e.type \in Snapshots =>
              /\ applyEvent(e).plan = e.price /\ applyEvent(e).status = mapStatus(e.status)
              /\ applyEvent(e).sub = e.sub
         /\ e.type = Deleted =>
              /\ applyEvent(e).plan = "FREE" /\ applyEvent(e).status = "CANCELED"
              /\ applyEvent(e).sub = None
         /\ e.type \in {"invoice.payment_succeeded", "invoice.payment_failed"} =>
              /\ applyEvent(e).plan = row.plan /\ applyEvent(e).sub = row.sub
              /\ applyEvent(e).status =
                   IF e.type = "invoice.payment_succeeded" THEN "ACTIVE" ELSE "PAST_DUE"
<1>1. /\ e.type \in EventType /\ e.sub \in Sub /\ e.customer \in Maybe(Checkout)
      /\ row.plan \in Maybe(Tier) /\ row.status \in Status /\ row.sub \in Maybe(Sub)
      /\ row.customer \in Maybe(Checkout)
      /\ row = [plan |-> row.plan, status |-> row.status, sub |-> row.sub, customer |-> row.customer]
  BY DEF Event, SomeRow
<1>2. mapStatus(e.status) \in Status
  BY DEF mapStatus, Status
<1>3. CASE e.type = "checkout.session.completed"
  <2>1. applyEvent(e) = [row EXCEPT !.sub = e.sub, !.customer = e.customer]
    BY <1>3 DEF applyEvent
  <2>2. QED
    BY <1>1, <1>3, <2>1 DEF SomeRow, Maybe, Snapshots, Deleted
<1>4. CASE e.type \in Snapshots
  <2>1. applyEvent(e) = applySubscription(e)
    BY <1>4 DEF applyEvent, Snapshots
  <2>2. e.price \in Maybe(Tier)
    BY DEF Event, Maybe, Tier
  <2> DEFINE status == mapStatus(e.status)
  <2>3. applyEvent(e) = [plan |-> e.price, status |-> status, sub |-> e.sub, customer |-> e.customer]
    BY <2>1 DEF applySubscription
  <2> HIDE DEF status
  <2>4. status \in Status
    BY <1>2 DEF status
  <2>5. applyEvent(e) \in SomeRow
    BY <1>1, <2>2, <2>3, <2>4 DEF SomeRow, Maybe
  <2>6. QED
    BY <1>4, <2>3, <2>5 DEF Snapshots, Deleted, status
<1>5. CASE e.type = Deleted
  <2>1. applyEvent(e) = [row EXCEPT !.status = "CANCELED", !.plan = "FREE", !.sub = None]
    BY <1>5 DEF applyEvent, Deleted, applyCancellation
  <2>2. QED
    BY <1>1, <1>5, <2>1 DEF SomeRow, Maybe, Snapshots, Deleted, Status, Tier
<1>6. CASE e.type \in {"invoice.payment_succeeded", "invoice.payment_failed"}
  <2>1. applyEvent(e) =
          [row EXCEPT !.status = IF e.type = "invoice.payment_succeeded" THEN "ACTIVE" ELSE "PAST_DUE"]
    BY <1>6 DEF applyEvent
  <2>2. QED
    BY <1>1, <1>6, <2>1 DEF SomeRow, Snapshots, Deleted, Status
<1>7. QED
  BY <1>1, <1>3, <1>4, <1>5, <1>6 DEF EventType, Snapshots, Deleted


LEMMA handleEventStep ==
  ASSUME BillingInv, NEW i \in DOMAIN events, handleEvent(i) PROVE BillingInv'
<1>1. /\ answered' = answered \cup {i} /\ UNCHANGED <<checkout, stripeVars>>
      /\ IF resolveOrgId(events[i]) /\ i \notin recorded
           THEN /\ row' = applyEvent(events[i])
                /\ recorded' = recorded \cup {i}
                /\ late' = (late \/ Overtaken(i))
           ELSE UNCHANGED <<row, recorded, late>>
  BY DEF handleEvent, Delivers
<1>2. stripe' = stripe /\ events' = events /\ doubled' = doubled
  BY <1>1 DEF stripeVars
<1>3. /\ (LatestTells <=> LatestTells') /\ (BatchesOK <=> BatchesOK') /\ Live' = Live
      /\ \A j : InLatest(j) <=> InLatest(j)'
  BY <1>2, LatestQuiet
<1>4. PICK e \in Event : e = events[i]
  BY ElementOfSeq DEF BillingInv, BillingTypeOK
<1>5. row \in SomeRow /\ recorded \subseteq answered /\ answered \subseteq DOMAIN events /\ late \in BOOLEAN
  BY DEF BillingInv, BillingTypeOK
<1>6. CASE ~(resolveOrgId(events[i]) /\ i \notin recorded)
  <2>1. UNCHANGED <<row, recorded, late>>
    BY <1>1, <1>6
  <2>2. AgreesWithStripe => AgreesWithStripe'
    BY <1>2, <1>3, <2>1 DEF AgreesWithStripe
  <2>3. RowFollows => RowFollows'
    BY <1>2, <1>3, <2>1, <2>2 DEF RowFollows
  <2>4. AnsweredAreRecorded'
    <3>1. events[i].type \in Snapshots \cup {Deleted} => i \in recorded
      BY <1>6 DEF resolveOrgId, Snapshots, Deleted
    <3>2. QED
      BY <1>1, <1>2, <2>1, <3>1 DEF BillingInv, AnsweredAreRecorded
  <2>5. BillingTypeOK'
    BY <1>1, <1>2, <1>5, <2>1 DEF BillingInv, BillingTypeOK
  <2>6. QED
    BY <1>2, <1>3, <2>1, <2>3, <2>4, <2>5 DEF BillingInv
<1>7. CASE resolveOrgId(events[i]) /\ i \notin recorded
  <2>1. row' = applyEvent(e) /\ recorded' = recorded \cup {i} /\ late' = (late \/ Overtaken(i))
    BY <1>1, <1>4, <1>7
  <2>2. BillingTypeOK'
    <3>1. row' \in SomeRow
      BY <1>5, <2>1, Applied
    <3>2. late' \in BOOLEAN
      BY <1>5, <2>1
    <3>3. QED
      BY <1>1, <1>2, <1>5, <2>1, <3>1, <3>2 DEF BillingInv, BillingTypeOK
  <2>3. AnsweredAreRecorded'
    BY <1>1, <1>2, <2>1 DEF BillingInv, AnsweredAreRecorded
  <2>4. ASSUME ~doubled', ~late' PROVE RowFollows'
    <3>1. LatestTells /\ RowFollows /\ ~Overtaken(i) /\ events # <<>>
      <4>1. LatestTells /\ RowFollows /\ ~Overtaken(i)
        BY <1>2, <2>1, <2>4 DEF BillingInv
      <4>2. DOMAIN <<>> = {}
        OBVIOUS
      <4>3. QED
        BY <4>1, <4>2
    <3>2. ASSUME NEW j \in recorded', InLatest(j), events[j].type \in Snapshots \cup {Deleted}
          PROVE  AgreesWithStripe'
      <4>1. InLatest(i)
        <5>1. CASE j = i
          BY <3>2, <5>1
        <5>2. CASE j # i
          <6>1. j \in recorded /\ ~(events[j].batch > events[i].batch)
            BY <2>1, <3>1, <5>2 DEF Overtaken
          <6>2. events[j].batch = Latest /\ events[i].batch <= Latest
            BY <3>2 DEF InLatest, BillingInv, BatchesOK
          <6>3. events[i].batch \in Nat /\ events[j].batch \in Nat
            <7>1. events[i] \in Event /\ events[j] \in Event
              BY <1>4, <1>5, <6>1, ElementOfSeq DEF BillingInv, BillingTypeOK
            <7>2. QED
              BY <7>1 DEF Event
          <6>4. QED
            BY <6>1, <6>2, <6>3 DEF InLatest
        <5>3. QED
          BY <5>1, <5>2
      <4>2. e.type \in EventType
        BY DEF Event
      <4>3. CASE Live = {} /\ \A k \in DOMAIN events : InLatest(k) => events[k].type = Deleted
        <5>1. e.type = Deleted
          BY <1>4, <4>1, <4>3
        <5>2. row'.plan = "FREE" /\ row'.status = "CANCELED" /\ row'.sub = None
          BY <1>5, <2>1, <5>1, Applied
        <5>3. QED
          BY <1>3, <4>3, <5>2 DEF AgreesWithStripe
      <4>4. ASSUME NEW s \in Sub, Live = {s}, \A k \in DOMAIN events : InLatest(k) => Tells(events[k], s)
            PROVE  AgreesWithStripe'
        <5>1. Tells(e, s)
          BY <1>4, <4>1, <4>4
        <5>2. e.type \in Snapshots \/ AgreesWithStripe
          <6>1. CASE j = i
            BY <1>4, <3>2, <5>1, <6>1 DEF Tells
          <6>2. CASE j # i
            BY <2>1, <3>1, <3>2, <6>2 DEF RowFollows
          <6>3. QED
            BY <6>1, <6>2
        <5>3. AgreesWithStripe =>
                row.plan = stripe[s].price /\ row.sub = s /\ row.status = mapStatus(stripe[s].status)
          BY <4>4 DEF AgreesWithStripe
        <5>4. row'.plan = stripe[s].price /\ row'.sub = s /\ row'.status = mapStatus(stripe[s].status)
          <6>1. CASE e.type \in Snapshots
            <7>1. row'.plan = e.price /\ row'.sub = e.sub /\ row'.status = mapStatus(e.status)
              BY <1>5, <2>1, <6>1, Applied
            <7>2. e.price = stripe[s].price /\ e.sub = s /\ e.status = stripe[s].status
              BY <5>1 DEF Tells
            <7>3. QED
              BY <7>1, <7>2
          <6>2. CASE e.type = "checkout.session.completed"
            <7>1. row'.plan = row.plan /\ row'.sub = e.sub /\ row'.status = row.status
              BY <1>5, <2>1, <6>2, Applied
            <7>2. AgreesWithStripe /\ e.sub = s
              BY <5>1, <5>2, <6>2 DEF Tells, Snapshots
            <7>3. QED
              BY <5>3, <7>1, <7>2
          <6>3. CASE e.type \in {"invoice.payment_succeeded", "invoice.payment_failed"}
            <7>1. /\ row'.plan = row.plan /\ row'.sub = row.sub
                  /\ row'.status = IF e.type = "invoice.payment_succeeded" THEN "ACTIVE" ELSE "PAST_DUE"
              BY <1>5, <2>1, <6>3, Applied
            <7>2. AgreesWithStripe
              BY <5>2, <6>3 DEF Snapshots
            <7>3. mapStatus(stripe[s].status) =
                    IF e.type = "invoice.payment_succeeded" THEN "ACTIVE" ELSE "PAST_DUE"
              BY <5>1, <6>3 DEF Tells, mapStatus
            <7>4. QED
              BY <5>3, <7>1, <7>2, <7>3
          <6>4. QED
            BY <4>2, <5>1, <6>1, <6>2, <6>3 DEF Tells, EventType, Snapshots, Deleted
        <5>5. QED
          BY <1>2, <1>3, <4>4, <5>4 DEF AgreesWithStripe
      <4>5. QED
        BY <3>1, <4>3, <4>4 DEF LatestTells
    <3>3. QED
      BY <1>2, <1>3, <3>1, <3>2 DEF RowFollows
  <2>5. QED
    BY <1>2, <1>3, <2>1, <2>2, <2>3, <2>4 DEF BillingInv
<1>8. QED
  BY <1>6, <1>7

\* services/billing-webhook.service.ts: however often events are delivered, and in
\* whatever order those of one batch come, the row says what Stripe says once all are
\* answered, unless one was overtaken or there were two subscriptions at once.
THEOREM RowComesToAgree == BillingSpec => []RowAgreesWithStripe
<1>1. BillingInit => BillingInv
  BY BillingInvInit
<1>2. BillingInv /\ [BillingNext]_billingVars => BillingInv'
  <2> SUFFICES ASSUME BillingInv, [BillingNext]_billingVars PROVE BillingInv'
    OBVIOUS
  <2>1. ASSUME NEW s \in Sub, PaymentFails(s) PROVE BillingInv'
    <3>1. /\ stripe[s].status = "active" /\ stripe' = [stripe EXCEPT ![s].status = "past_due"]
          /\ Emits(s, <<"customer.subscription.updated", "invoice.payment_failed">>)
      BY <2>1 DEF PaymentFails
    <3>2. QED
      BY <3>1, PaymentStep
  <2>2. ASSUME NEW s \in Sub, PaymentSucceeds(s) PROVE BillingInv'
    <3>1. /\ stripe[s].status = "past_due" /\ stripe' = [stripe EXCEPT ![s].status = "active"]
          /\ Emits(s, <<"customer.subscription.updated", "invoice.payment_succeeded">>)
      BY <2>2 DEF PaymentSucceeds
    <3>2. QED
      BY <3>1, PaymentStep
  <2>3. CASE UNCHANGED billingVars
    <3>1. UNCHANGED <<recorded, stripeVars, answered, late, row, checkout>>
      BY <2>3 DEF billingVars, stripeVars
    <3>2. QED
      BY <3>1, ServiceStep DEF BillingInv, BillingTypeOK
  <2>4. QED
    BY <2>1, <2>2, <2>3, StartCheckoutStep, EnsureCustomerStep, CheckoutIsPaidStep, ChangePlanStep,
       CancelSubscriptionStep, handleEventStep DEF BillingNext
<1>3. BillingInv => RowAgreesWithStripe
  <2> SUFFICES ASSUME BillingInv, answered = DOMAIN events, ~late, ~doubled PROVE AgreesWithStripe
    BY DEF RowAgreesWithStripe
  <2>1. LatestTells /\ RowFollows /\ AnsweredAreRecorded
    BY DEF BillingInv
  <2>2. CASE events = <<>>
    BY <2>1, <2>2 DEF RowFollows
  <2>3. CASE events # <<>>
    <3>1. InLatest(Len(events)) /\ Len(events) \in DOMAIN events
      <4>1. Len(events) \in Nat \ {0} /\ DOMAIN events = 1..Len(events)
        BY <2>3 DEF BillingInv, BillingTypeOK
      <4>2. QED
        BY <2>3, <4>1 DEF InLatest, Latest
    <3>2. \E i \in DOMAIN events : InLatest(i) /\ events[i].type \in Snapshots \cup {Deleted}
      BY <2>1, <3>1 DEF LatestTells
    <3>3. QED
      BY <2>1, <3>2 DEF RowFollows, AnsweredAreRecorded
  <2>4. QED
    BY <2>2, <2>3
<1>4. QED
  BY <1>1, <1>2, <1>3, PTL DEF BillingSpec

-----------------------------------------------------------------------------
(* The rotation.  Who is on call is a quotient and a remainder of the      *)
(* local time: what the provers know of both is stated first.              *)

\* Division of integers.
LEMMA Division ==
  ASSUME NEW a \in Int, NEW p \in Nat \ {0}
  PROVE  a % p \in 0 .. p - 1 /\ a \div p \in Int /\ a = p * (a \div p) + (a % p)
OBVIOUS

\* A product distributes over a difference.
LEMMA Distributes ==
  ASSUME NEW x \in Int, NEW y \in Int, NEW z \in Int
  PROVE  x * (y - z) = x * y - x * z
OBVIOUS

\* Numbers no further apart than a period lie in one of them or in two neighbours.
LEMMA NextPeriod ==
  ASSUME NEW a \in Int, NEW b \in Int, NEW p \in Nat \ {0}, a <= b, b - a <= p
  PROVE  b \div p \in {a \div p, a \div p + 1}
<1> DEFINE q == a \div p
           s == b \div p
           u == a % p
           v == b % p
<1>1. /\ q \in Int /\ u \in 0 .. p - 1 /\ a = p * q + u
      /\ s \in Int /\ v \in 0 .. p - 1 /\ b = p * s + v
  BY Division
<1> HIDE DEF q, s, u, v
<1> DEFINE x == p * q
           y == p * s
           z == p * (s - q)
<1>2. /\ x \in Int /\ y \in Int /\ z = y - x
      /\ a = x + u /\ b = y + v
  BY <1>1, Distributes
<1>3. s - q >= 2 => z >= 2 * p
  BY <1>1
<1>4. s - q <= -1 => z <= - p
  BY <1>1
<1> HIDE DEF x, y, z
<1>5. z < 2 * p /\ z > - p
  BY <1>1, <1>2
<1>6. ~(s - q >= 2) /\ ~(s - q <= -1)
  BY <1>1, <1>2, <1>3, <1>4, <1>5
<1>7. s \in {q, q + 1}
  BY <1>1, <1>6
<1>8. QED
  BY <1>7 DEF q, s

\* The place after the last is the first.
LEMMA NextPlace ==
  ASSUME NEW q \in Int, NEW n \in Nat \ {0}
  PROVE  (q + 1) % n = ((q % n) + 1) % n
<1> DEFINE r == q % n
           d == q \div n
<1>1. r \in 0 .. n - 1 /\ d \in Int /\ q = n * d + r
  OBVIOUS
<1> HIDE DEF r, d
<1>2. CASE r + 1 < n
  <2>1. q + 1 = n * d + (r + 1)
    BY <1>1
  <2>2. (q + 1) % n = r + 1
    BY <1>1, <1>2, <2>1
  <2>3. (r + 1) % n = r + 1
    BY <1>1, <1>2
  <2>4. QED
    BY <2>2, <2>3 DEF r
<1>3. CASE r + 1 = n
  <2>1. q + 1 = n * (d + 1)
    BY <1>1, <1>3
  <2>2. (q + 1) % n = 0
    BY <1>1, <2>1
  <2>3. (r + 1) % n = 0
    BY <1>3
  <2>4. QED
    BY <2>2, <2>3 DEF r
<1>4. QED
  BY <1>1, <1>2, <1>3

\* A list of people is a sequence of them.
LEMMA ListType == \A list \in Lists : list \in Seq(Users)
<1> SUFFICES ASSUME NEW s \in SUBSET Users, NEW list \in SetToSeqs(s)
             PROVE  list \in Seq(Users)
  BY DEF Lists, SetToAllKPermutations
<1>1. list \in [1 .. Cardinality(s) -> s]
  BY DEF SetToSeqs
<1>2. Cardinality(s) \in Nat
  BY OnCallAssumption, FS_Subset, FS_CardinalityType
<1>3. list \in Seq(s)
  BY <1>1, <1>2
<1>4. QED
  BY <1>3

\* A list makes finitely many rows.
LEMMA RowsAreFinite ==
  ASSUME NEW list \in Seq(Users), NEW of
  PROVE  IsFiniteSet(Rows(list, of))
<1> DEFINE I == 1 .. Len(list)
           f == [i \in I |-> [user |-> list[i], position |-> i - 1, of |-> of]]
<1>1. IsFiniteSet(I)
  BY FS_Interval
<1>2. f \in Surjection(I, Rows(list, of))
  BY DEF Rows, Surjection
<1>3. QED
  BY <1>1, <1>2, FS_Surjection

\* A participant row, and what a request that replaces them is doing.
Turn == [user : Users, position : Nat, of : Nat]

EditRow == [step : {"none", "checked", "deleting"}, list : Seq(Users), seen : SUBSET Turn]

RotationTypeOK ==
  /\ now \in Nat /\ schedule \in Schedules /\ changes \in Nat
  /\ rotation \in SUBSET Turn /\ IsFiniteSet(rotation)
  /\ \A o \in overrides : o.user \in Users
  /\ members \subseteq Users
  /\ edit \in [Editors -> EditRow]

\* The rows of a list are participants.
LEMMA RowsType ==
  ASSUME NEW list \in Seq(Users), NEW of \in Nat
  PROVE  Rows(list, of) \in SUBSET Turn /\ IsFiniteSet(Rows(list, of))
<1>1. Rows(list, of) \in SUBSET Turn
  <2>1. ASSUME NEW i \in 1 .. Len(list)
        PROVE  [user |-> list[i], position |-> i - 1, of |-> of] \in Turn
    BY <2>1 DEF Turn
  <2>2. QED
    BY <2>1 DEF Rows
<1>2. QED
  BY <1>1, RowsAreFinite

\* Types are kept, and a step moves time or changes the schedule, not both.
LEMMA RotationTypeNext ==
  ASSUME RotationTypeOK, [OnCallNext]_ocvars
  PROVE  /\ RotationTypeOK'
         /\ now' \in now .. now + 1
         /\ now' = now \/ schedule' = schedule
<1> USE DEF RotationTypeOK, Changes, EditRow
<1>1. ASSUME NEW e \in Editors, NEW list \in Lists, UpdateBegins(e, list)
      PROVE  RotationTypeOK' /\ UNCHANGED <<now, schedule>>
  <2>1. [step |-> "checked", list |-> list, seen |-> {}] \in EditRow
    BY ListType
  <2>2. QED
    BY <1>1, <2>1 DEF UpdateBegins
<1>2. ASSUME NEW e \in Editors, UpdateDeletes(e)
      PROVE  RotationTypeOK' /\ UNCHANGED <<now, schedule>>
  <2>1. [[edit[e] EXCEPT !.step = "deleting"] EXCEPT !.seen = rotation] \in EditRow
    OBVIOUS
  <2>2. edit' = [edit EXCEPT ![e] = [[edit[e] EXCEPT !.step = "deleting"]
                                       EXCEPT !.seen = rotation]]
    BY <1>2 DEF UpdateDeletes
  <2>3. edit' \in [Editors -> EditRow]
    BY <2>1, <2>2
  <2>4. QED
    BY <1>2, <2>3 DEF UpdateDeletes
<1>3. ASSUME NEW e \in Editors, UpdateCommits(e)
      PROVE  RotationTypeOK' /\ UNCHANGED now
  <2> DEFINE kept == rotation \ edit[e].seen
             new  == Rows(edit[e].list, changes)
  <2>1. new \in SUBSET Turn /\ IsFiniteSet(new)
    BY RowsType
  <2>2. kept \in SUBSET Turn /\ IsFiniteSet(kept)
    BY FS_Subset
  <2>3. kept \cup new \in SUBSET Turn /\ IsFiniteSet(kept \cup new)
    BY <2>1, <2>2, FS_Union
  <2>4. rotation' \in {rotation, kept \cup new}
    BY <1>3 DEF UpdateCommits
  <2> HIDE DEF kept, new
  <2>5. rotation' \in SUBSET Turn /\ IsFiniteSet(rotation')
    BY <2>3, <2>4
  <2>6. NoEdit \in EditRow
    BY DEF NoEdit
  <2>7. edit' \in [Editors -> EditRow] /\ UNCHANGED <<now, changes, members, overrides>>
    BY <1>3, <2>6 DEF UpdateCommits
  <2>8. schedule' \in Schedules
    BY <1>3 DEF UpdateCommits
  <2>9. QED
    BY <2>5, <2>7, <2>8
<1>4. CASE \/ Delete
           \/ \E u \in Users, s, t \in 0 .. LastInstant : AddOverride(u, s, t)
           \/ \E o \in overrides : RemoveOverride(o)
           \/ \E u \in Users : MemberLeaves(u)
           \/ UNCHANGED ocvars
  BY <1>4 DEF Delete, AddOverride, RemoveOverride, MemberLeaves, ocvars
<1>5. CASE Tick \/ ClockChanges
  BY <1>5 DEF Tick, ClockChanges, Schedules
<1>6. QED
  BY <1>1, <1>2, <1>3, <1>4, <1>5 DEF OnCallNext

-----------------------------------------------------------------------------
(* A handoff *)

\* What a schedule is made of.
LEMMA ScheduleType ==
  ASSUME NEW s \in Schedules
  PROVE  s.offset \in Int /\ s.handoff \in Int /\ s.period \in Nat \ {0}
<1>1. s.offset \in Offsets /\ s.handoff \in Handoffs /\ s.period \in Periods
  BY DEF Schedules
<1>2. s.offset \in Int
  BY <1>1, OnCallAssumption
<1>3. s.handoff \in Int
  <2>1. s.handoff \in Nat
    BY <1>1, OnCallAssumption
  <2>2. QED
    BY <2>1
<1>4. s.period \in Nat \ {0}
  BY <1>1, OnCallAssumption
<1>5. QED
  BY <1>2, <1>3, <1>4

\* rotationIndex: a place in the rotation.
LEMMA IndexType ==
  ASSUME NEW n \in Nat \ {0}, NEW at \in Int, NEW s \in Schedules
  PROVE  /\ (at + s.offset - s.handoff) \div s.period \in Int
         /\ RotationIndex(n, at, s) \in 0 .. n - 1
<1> DEFINE x == at + s.offset - s.handoff
           q == x \div s.period
<1>1. x \in Int /\ s.period \in Nat \ {0}
  BY ScheduleType
<1> HIDE DEF x
<1>2. q \in Int
  BY <1>1, Division
<1> HIDE DEF q
<1>3. q % n \in 0 .. n - 1
  BY <1>2, Division
<1>4. QED
  BY <1>2, <1>3 DEF RotationIndex, x, q

\* The same schedule at another time of the year.
SameButOffset(s, t) == t.period = s.period /\ t.handoff = s.handoff

\* Within a period of local time the rotation stays where it is or moves on by one.
LEMMA IndexMoves ==
  ASSUME NEW n \in Nat \ {0}, NEW at \in Int, NEW later \in Int,
         NEW s \in Schedules, NEW t \in Schedules, SameButOffset(s, t),
         at + s.offset <= later + t.offset, later + t.offset - (at + s.offset) <= s.period
  PROVE  RotationIndex(n, later, t)
           \in {RotationIndex(n, at, s), (RotationIndex(n, at, s) + 1) % n}
<1> DEFINE x == at + s.offset - s.handoff
           y == later + t.offset - s.handoff
           p == s.period
           q == x \div p
           r == y \div p
<1>1. /\ x \in Int /\ y \in Int /\ p \in Nat \ {0}
      /\ x <= y /\ y - x <= p
  <2>1. /\ s.offset \in Int /\ s.handoff \in Int /\ s.period \in Nat \ {0}
        /\ t.offset \in Int
    BY ScheduleType
  <2>2. QED
    BY <2>1
<1>2. RotationIndex(n, at, s) = q % n /\ RotationIndex(n, later, t) = r % n
  BY DEF RotationIndex, SameButOffset
<1> HIDE DEF x, y, p
<1>3. r \in {q, q + 1} /\ q \in Int
  BY <1>1, NextPeriod, Division
<1> HIDE DEF q, r
<1>4. (q + 1) % n = ((q % n) + 1) % n
  BY <1>3, NextPlace
<1>5. QED
  BY <1>2, <1>3, <1>4

\* Who is on call then was so before or was the backup.
LEMMA BackupIsNext ==
  ASSUME NEW n \in Nat \ {0}, NEW order, DOMAIN order = 1 .. n, Len(order) = n,
         NEW at \in Int, NEW later \in Int, NEW s \in Schedules, NEW t \in Schedules,
         SameButOffset(s, t),
         at + s.offset <= later + t.offset, later + t.offset - (at + s.offset) <= s.period
  PROVE  Primary(order, later, t)
           \in {Primary(order, at, s), Secondary(order, at, s)}
<1>1. order # <<>>
  OBVIOUS
<1>2. CASE n = 1
  <2>1. /\ RotationIndex(n, at, s) \in 0 .. 0
        /\ RotationIndex(n, later, t) \in 0 .. 0
    BY <1>2, IndexType
  <2>2. QED
    BY <1>1, <2>1 DEF Primary
<1>3. CASE n # 1
  <2>1. RotationIndex(n, later, t)
          \in {RotationIndex(n, at, s), (RotationIndex(n, at, s) + 1) % n}
    BY IndexMoves
  <2>2. ~(Len(order) < 2)
    BY <1>3
  <2>3. QED
    BY <1>1, <2>1, <2>2 DEF Primary, Secondary
<1>4. QED
  BY <1>2, <1>3

\* resolveOnCall without an override.
Rotated(order, at, s) ==
  [primary |-> Primary(order, at, s), secondary |-> Secondary(order, at, s),
   source |-> "rotation"]

\* While an answer comes from the rotation, every order of its rows gives one.
LEMMA RotationAnswers ==
  ASSUME NEW at, NEW answer \in Answers(at), answer.source = "rotation", rotation # {},
         NEW order \in Orders(rotation), order # <<>>
  PROVE  Rotated(order, at, schedule) \in Answers(at)
<1>1. Nobody \in IF Active(at) = {} THEN {Nobody} ELSE Active(at)
  BY DEF Answers, UnderOverride
<1>2. QED
  BY <1>1 DEF Answers, Rotated

\* An order of finitely many rows is a sequence.
LEMMA OrdersType ==
  ASSUME NEW rows, IsFiniteSet(rows), NEW order \in Orders(rows), order # <<>>
  PROVE  \E n \in Nat \ {0} : DOMAIN order = 1 .. n /\ Len(order) = n
<1>1. Cardinality(rows) \in Nat /\ order \in [1 .. Cardinality(rows) -> rows]
  BY FS_CardinalityType DEF Orders, SetToSeqs
<1>2. order \in Seq(rows) /\ Len(order) = Cardinality(rows)
  BY <1>1
<1>3. Cardinality(rows) # 0
  BY <1>1, <1>2
<1>4. QED
  BY <1>1, <1>2, <1>3

\* Sums in Int, for the step below.
LEMMA SumsKeepApart ==
  ASSUME NEW a \in Int, NEW b \in Int, NEW d \in Int, NEW p \in Int, p >= 1
  PROVE  /\ b <= d /\ d - b <= p => a + b <= a + d /\ a + d - (a + b) <= p
         /\ a + b <= a + 1 + b /\ a + 1 + b - (a + b) <= p
OBVIOUS

\* A step that edits nothing takes local time ahead by no more than a period.
LEMMA TimeMoves ==
  ASSUME RotationTypeOK, [OnCallNext]_ocvars, Unedited,
         \A o, p \in Offsets, s \in Periods : o - p <= s
  PROVE  /\ now \in Int /\ now' \in Int /\ schedule' \in Schedules
         /\ SameButOffset(schedule, schedule')
         /\ now + schedule.offset <= now' + schedule'.offset
         /\ now' + schedule'.offset - (now + schedule.offset) <= schedule.period
<1> DEFINE a == now
           b == schedule.offset
           d == schedule'.offset
           p == schedule.period
<1>1. PICK o \in Offsets : o >= b /\ schedule' = [schedule EXCEPT !.offset = o]
  BY DEF Unedited
<1>2. /\ schedule' \in Schedules /\ SameButOffset(schedule, schedule')
      /\ d = o /\ d \in Offsets /\ b \in Offsets /\ p \in Periods
  BY <1>1 DEF RotationTypeOK, Schedules, SameButOffset
<1>3. a \in Int /\ b \in Int /\ d \in Int /\ p \in Int /\ p >= 1 /\ b <= d /\ d - b <= p
  BY <1>1, <1>2, OnCallAssumption DEF RotationTypeOK
<1>4. now' = a \/ (now' = a + 1 /\ d = b)
  BY <1>3, RotationTypeNext DEF RotationTypeOK
<1> HIDE DEF a, b, d, p
<1>5. /\ now' \in Int
      /\ a + b <= now' + d
      /\ now' + d - (a + b) <= p
  BY <1>3, <1>4, SumsKeepApart
<1>6. QED
  BY <1>2, <1>3, <1>5 DEF a, b, d, p

\* People are finitely many, and so is what resolveOnCall may answer.
LEMMA AnswersAreFinite ==
  ASSUME RotationTypeOK
  PROVE  IsFiniteSet(Answers(now))
<1> DEFINE People  == Users \cup {Nobody}
           Sources == {"override", "rotation", "empty"}
           All     == [primary : People, secondary : People, source : Sources]
           Triples == (People \X People) \X Sources
           f       == [x \in Triples |-> [primary |-> x[1][1], secondary |-> x[1][2],
                                         source |-> x[2]]]
<1>1. IsFiniteSet(All)
  <2>1. IsFiniteSet(People) /\ IsFiniteSet(Sources)
    <3>1. \A x : IsFiniteSet({x})
      BY FS_Singleton
    <3>2. IsFiniteSet(People)
      BY <3>1, OnCallAssumption, FS_Union
    <3>3. IsFiniteSet({"override"} \cup {"rotation"})
      BY <3>1, FS_Union
    <3>4. IsFiniteSet(({"override"} \cup {"rotation"}) \cup {"empty"})
      BY <3>1, <3>3, FS_Union
    <3>5. Sources = ({"override"} \cup {"rotation"}) \cup {"empty"}
      OBVIOUS
    <3>6. QED
      BY <3>2, <3>4, <3>5
  <2>2. IsFiniteSet(Triples)
    <3> HIDE DEF People, Sources
    <3>1. IsFiniteSet(People \X People)
      BY <2>1, FS_Product
    <3>2. QED
      BY <2>1, <3>1, FS_Product
  <2>3. f \in Surjection(Triples, All)
    <3> HIDE DEF People, Sources
    <3>1. ASSUME NEW y \in All PROVE \E x \in Triples : f[x] = y
      <4>1. <<<<y.primary, y.secondary>>, y.source>> \in Triples
        OBVIOUS
      <4>2. f[<<<<y.primary, y.secondary>>, y.source>>] = y
        BY <4>1
      <4>3. QED
        BY <4>1, <4>2
    <3>2. f \in [Triples -> All]
      OBVIOUS
    <3>3. QED
      BY <3>1, <3>2 DEF Surjection
  <2>4. QED
    <3> HIDE DEF Triples, All, f
    <3> QED
      BY <2>2, <2>3, FS_Surjection
<1>2. ASSUME NEW order \in Orders(rotation)
      PROVE  /\ Primary(order, now, schedule) \in People
             /\ Secondary(order, now, schedule) \in People
  <2>1. CASE order = <<>>
    BY <2>1 DEF Primary, Secondary
  <2>2. CASE order # <<>>
    <3>1. PICK n \in Nat \ {0} : DOMAIN order = 1 .. n /\ Len(order) = n
      BY <2>2, OrdersType DEF RotationTypeOK
    <3>2. \A i \in 1 .. n : order[i].user \in Users
      BY <3>1, FS_CardinalityType DEF Orders, SetToSeqs, RotationTypeOK, Turn
    <3>3. now \in Int /\ schedule \in Schedules
      BY DEF RotationTypeOK
    <3>4. RotationIndex(n, now, schedule) \in 0 .. n - 1
      BY <3>3, IndexType
    <3> DEFINE i == RotationIndex(n, now, schedule)
    <3>5. i \in Nat /\ i + 1 \in 1 .. n
      BY <3>4
    <3> HIDE DEF i
    <3>6. (i + 1) % n \in 0 .. n - 1 /\ ((i + 1) % n) + 1 \in 1 .. n
      BY <3>5, Division
    <3>7. QED
      BY <2>2, <3>1, <3>2, <3>5, <3>6 DEF Primary, Secondary, i
  <2>3. QED
    BY <2>1, <2>2
<1>3. Answers(now) \subseteq All
  <2>1. ASSUME NEW order \in Orders(rotation),
               NEW o \in IF Active(now) = {} THEN {Nobody} ELSE Active(now), o # Nobody
        PROVE  UnderOverride(o.user, Primary(order, now, schedule),
                             Secondary(order, now, schedule)) \in All
    <3>1. o.user \in People
      BY <2>1 DEF Active, RotationTypeOK
    <3> HIDE DEF People
    <3>2. QED
      BY <1>2, <3>1 DEF UnderOverride
  <2>2. ASSUME NEW order \in Orders(rotation), NEW src \in Sources
        PROVE  [primary |-> Primary(order, now, schedule),
                secondary |-> Secondary(order, now, schedule), source |-> src] \in All
    <3> HIDE DEF People
    <3> QED
      BY <1>2
  <2> HIDE DEF All
  <2>3. ASSUME NEW answer \in Answers(now) PROVE answer \in All
    <3>1. PICK order \in Orders(rotation),
               o \in IF Active(now) = {} THEN {Nobody} ELSE Active(now) :
            answer = IF o # Nobody
                       THEN UnderOverride(o.user, Primary(order, now, schedule),
                                          Secondary(order, now, schedule))
                       ELSE [primary |-> Primary(order, now, schedule),
                             secondary |-> Secondary(order, now, schedule),
                             source |-> IF order = <<>> THEN "empty" ELSE "rotation"]
      BY <2>3 DEF Answers
    <3>2. (IF order = <<>> THEN "empty" ELSE "rotation") \in Sources
      OBVIOUS
    <3> HIDE DEF Sources
    <3>3. QED
      BY <2>1, <2>2, <3>1, <3>2
  <2>4. QED
    BY <2>3
<1>4. QED
  <2> HIDE DEF All
  <2> QED
    BY <1>1, <1>3, FS_Subset

\* Whoever is on call after a step was on call before it or was the backup, unless
\* somebody edited the rotation, a clock was put back, or rows tied.
THEOREM HandoffSkipsNobody ==
  ASSUME \A o, p \in Offsets, s \in Periods : o - p <= s
  PROVE  OnCallSpec => HandoffGoesToBackup
<1>1. OnCallInit => RotationTypeOK
  BY ListType, RowsType DEF OnCallInit, RotationTypeOK, NoEdit, EditRow
<1>2. RotationTypeOK /\ [OnCallNext]_ocvars => RotationTypeOK'
  BY RotationTypeNext
<1>3. RotationTypeOK /\ [OnCallNext]_ocvars
        => [rotation # {} /\ Unedited /\ Cardinality(Answers(now)) = 1
              => \A before \in Answers(now), after \in Answers(now)' :
                   before.source = "rotation" /\ after.source = "rotation" =>
                     after.primary \in {before.primary, before.secondary}]_ocvars
  <2> SUFFICES ASSUME RotationTypeOK, [OnCallNext]_ocvars,
                      rotation # {}, Unedited, Cardinality(Answers(now)) = 1,
                      NEW before \in Answers(now), NEW after \in Answers(now)',
                      before.source = "rotation", after.source = "rotation"
               PROVE  after.primary \in {before.primary, before.secondary}
    OBVIOUS
  <2>1. PICK order \in Orders(rotation) :
          order # <<>> /\ after = Rotated(order, now', schedule')
    BY DEF Answers, UnderOverride, Rotated, Unedited
  <2>2. PICK n \in Nat \ {0} : DOMAIN order = 1 .. n /\ Len(order) = n
    BY <2>1, OrdersType DEF RotationTypeOK
  <2>3. /\ now \in Int /\ now' \in Int /\ schedule \in Schedules /\ schedule' \in Schedules
        /\ SameButOffset(schedule, schedule')
        /\ now + schedule.offset <= now' + schedule'.offset
        /\ now' + schedule'.offset - (now + schedule.offset) <= schedule.period
    BY TimeMoves DEF RotationTypeOK
  <2>4. after.primary \in {Primary(order, now, schedule), Secondary(order, now, schedule)}
    BY <2>1, <2>2, <2>3, BackupIsNext DEF Rotated
  <2>5. Rotated(order, now, schedule) \in Answers(now)
    BY <2>1, RotationAnswers
  <2>6. Rotated(order, now, schedule) = before
    <3>1. IsFiniteSet(Answers(now))
      BY AnswersAreFinite
    <3>2. QED
      BY <2>5, <3>1, FS_Singleton
  <2>7. QED
    BY <2>4, <2>6 DEF Rotated
<1>4. QED
  BY <1>1, <1>2, <1>3, PTL DEF OnCallSpec, HandoffGoesToBackup

-----------------------------------------------------------------------------
(* The dashboard: what is on its screens.   Views are put together by ++,  *)
(* Within, Mounts and Offers; what a view mounts and offers, to a role or  *)
(* to any, is that of its parts.                                           *)

\* The queries a view mounts and the controls it offers, to a role, and to any.
Named(S) == {x[1] : x \in S}

Given(r, S) == {x[1] : x \in {y \in S : HasPermission(r, y[2])}}

QueriesOn(view) == Named(view.reads)

ControlsOn(view) == Named(view.offers)

QueriesFor(r, view) == Given(r, view.reads)

ControlsFor(r, view) == Given(r, view.offers)

\* The pairs of S, each under the gate g too.
Narrowed(g, S) == {<<t[1], t[2] \union g>> : t \in S}

\* Within puts its gate on every pair of a view: whom it lets through is given the same as without
\* it, and anyone else nothing.
LEMMA GateWithin ==
  /\ \A g, view : /\ Within(g, view).reads = Narrowed(g, view.reads)
                  /\ Within(g, view).offers = Narrowed(g, view.offers)
  /\ \A g, S : Named(Narrowed(g, S)) = Named(S)
  /\ \A g, S, r : HasPermission(r, g) => Given(r, Narrowed(g, S)) = Given(r, S)
  /\ \A g, S, r : ~HasPermission(r, g) => Given(r, Narrowed(g, S)) = {}
<1>1. \A g, view : /\ Within(g, view).reads = Narrowed(g, view.reads)
                   /\ Within(g, view).offers = Narrowed(g, view.offers)
  BY DEF Within, Narrowed
<1>2. ASSUME NEW g, NEW S
      PROVE  /\ Named(Narrowed(g, S)) = Named(S)
             /\ \A r : HasPermission(r, g) => Given(r, Narrowed(g, S)) = Given(r, S)
             /\ \A r : ~HasPermission(r, g) => Given(r, Narrowed(g, S)) = {}
  <2> DEFINE f(t) == <<t[1], t[2] \union g>>
  <2>1. \A t : f(t)[1] = t[1] /\ f(t)[2] = t[2] \union g
    OBVIOUS
  <2>2. \A r, t : HasPermission(r, f(t)[2]) <=> HasPermission(r, t[2]) /\ HasPermission(r, g)
    BY <2>1 DEF HasPermission
  <2>3. Narrowed(g, S) = {f(t) : t \in S}
    BY DEF Narrowed
  <2> HIDE DEF f
  <2>4. Named({f(t) : t \in S}) = Named(S)
    BY <2>1 DEF Named
  <2>5. \A r : HasPermission(r, g) => Given(r, {f(t) : t \in S}) = Given(r, S)
    BY <2>1, <2>2 DEF Given
  <2>6. \A r : ~HasPermission(r, g) => Given(r, {f(t) : t \in S}) = {}
    BY <2>2 DEF Given
  <2>7. QED
    BY <2>3, <2>4, <2>5, <2>6
<1>3. QED
  BY <1>1, <1>2

\* A set under one gate is given whole, or not at all.
LEMMA Gated ==
  ASSUME NEW Q, NEW g
  PROVE  /\ Named(Q \X {g}) = Q
         /\ \A r : HasPermission(r, g) => Given(r, Q \X {g}) = Q
         /\ \A r : ~HasPermission(r, g) => Given(r, Q \X {g}) = {}
<1>1. \A q \in Q : <<q, g>> \in Q \X {g} /\ <<q, g>>[1] = q /\ <<q, g>>[2] = g
  OBVIOUS
<1>2. \A y \in Q \X {g} : y[1] \in Q /\ y[2] = g
  OBVIOUS
<1>3. QED
  BY <1>1, <1>2 DEF Named, Given

\* What is named in two sets, or given from two sets, is that of each.
LEMMA Both ==
  /\ \A S, T : Named(S \union T) = Named(S) \union Named(T)
  /\ \A r, S, T : Given(r, S \union T) = Given(r, S) \union Given(r, T)
  /\ Named({}) = {}
  /\ \A r : Given(r, {}) = {}
BY DEF Named, Given

\* What is on a screen made of views.
LEMMA OnScreen ==
  /\ \A v, w : /\ QueriesOn(v ++ w) = QueriesOn(v) \union QueriesOn(w)
               /\ ControlsOn(v ++ w) = ControlsOn(v) \union ControlsOn(w)
  /\ \A g, v : QueriesOn(Within(g, v)) = QueriesOn(v) /\ ControlsOn(Within(g, v)) = ControlsOn(v)
  /\ \A Q, g : QueriesOn(Mounts(Q, g)) = Q /\ ControlsOn(Mounts(Q, g)) = {}
  /\ \A M, g : QueriesOn(Offers(M, g)) = {} /\ ControlsOn(Offers(M, g)) = M
<1>1. \A v, w : /\ QueriesOn(v ++ w) = QueriesOn(v) \union QueriesOn(w)
                /\ ControlsOn(v ++ w) = ControlsOn(v) \union ControlsOn(w)
  BY Both DEF ++, QueriesOn, ControlsOn
<1>2. \A g, v : QueriesOn(Within(g, v)) = QueriesOn(v) /\ ControlsOn(Within(g, v)) = ControlsOn(v)
  BY GateWithin DEF QueriesOn, ControlsOn
<1>3. \A Q, g : QueriesOn(Mounts(Q, g)) = Q /\ ControlsOn(Mounts(Q, g)) = {}
  BY Gated, Both DEF Mounts, QueriesOn, ControlsOn
<1>4. \A M, g : QueriesOn(Offers(M, g)) = {} /\ ControlsOn(Offers(M, g)) = M
  BY Gated, Both DEF Offers, QueriesOn, ControlsOn
<1>5. QED
  BY <1>1, <1>2, <1>3, <1>4

\* ... and what of it a role is given.
LEMMA OnScreenFor ==
  ASSUME NEW r
  PROVE
    /\ \A v, w : /\ QueriesFor(r, v ++ w) = QueriesFor(r, v) \union QueriesFor(r, w)
                 /\ ControlsFor(r, v ++ w) = ControlsFor(r, v) \union ControlsFor(r, w)
    /\ \A g, v : HasPermission(r, g) =>
                   /\ QueriesFor(r, Within(g, v)) = QueriesFor(r, v)
                   /\ ControlsFor(r, Within(g, v)) = ControlsFor(r, v)
    /\ \A g, v : ~HasPermission(r, g) =>
                   QueriesFor(r, Within(g, v)) = {} /\ ControlsFor(r, Within(g, v)) = {}
    /\ \A Q, g : ControlsFor(r, Mounts(Q, g)) = {} /\ QueriesFor(r, Offers(Q, g)) = {}
    /\ \A Q, g : HasPermission(r, g) => QueriesFor(r, Mounts(Q, g)) = Q
    /\ \A Q, g : HasPermission(r, g) => ControlsFor(r, Offers(Q, g)) = Q
    /\ \A Q, g : ~HasPermission(r, g) => QueriesFor(r, Mounts(Q, g)) = {}
    /\ \A Q, g : ~HasPermission(r, g) => ControlsFor(r, Offers(Q, g)) = {}
<1>1. \A v, w : /\ QueriesFor(r, v ++ w) = QueriesFor(r, v) \union QueriesFor(r, w)
                /\ ControlsFor(r, v ++ w) = ControlsFor(r, v) \union ControlsFor(r, w)
  BY Both DEF ++, QueriesFor, ControlsFor
<1>2. \A g, v : HasPermission(r, g) =>
                  /\ QueriesFor(r, Within(g, v)) = QueriesFor(r, v)
                  /\ ControlsFor(r, Within(g, v)) = ControlsFor(r, v)
  BY GateWithin DEF QueriesFor, ControlsFor
<1>3. \A g, v : ~HasPermission(r, g) =>
                  QueriesFor(r, Within(g, v)) = {} /\ ControlsFor(r, Within(g, v)) = {}
  BY GateWithin DEF QueriesFor, ControlsFor
<1>4. \A Q, g : ControlsFor(r, Mounts(Q, g)) = {} /\ QueriesFor(r, Offers(Q, g)) = {}
  BY Both DEF Mounts, Offers, QueriesFor, ControlsFor
<1>5. ASSUME NEW Q, NEW g
      PROVE  /\ HasPermission(r, g) =>
                  QueriesFor(r, Mounts(Q, g)) = Q /\ ControlsFor(r, Offers(Q, g)) = Q
             /\ ~HasPermission(r, g) =>
                  QueriesFor(r, Mounts(Q, g)) = {} /\ ControlsFor(r, Offers(Q, g)) = {}
  <2>1. QueriesFor(r, Mounts(Q, g)) = Given(r, Q \X {g})
    BY DEF Mounts, QueriesFor
  <2>2. ControlsFor(r, Offers(Q, g)) = Given(r, Q \X {g})
    BY DEF Offers, ControlsFor
  <2>3. /\ HasPermission(r, g) => Given(r, Q \X {g}) = Q
        /\ ~HasPermission(r, g) => Given(r, Q \X {g}) = {}
    BY Gated
  <2>4. QED
    BY <2>1, <2>2, <2>3
<1>6. QED
  BY <1>1, <1>2, <1>3, <1>4, <1>5

\* What the matrix gives to everyone, and what a gate gives to whom it lets through.
LEMMA RolesMay ==
  ASSUME NEW r \in OrgRoles
  PROVE
    /\ \A p : HasPermission(r, {p}) <=> p \in RolePermissions[r]
    /\ HasPermission(r, Everyone)
    /\ \A R \in Operational \union {"organization"} : <<R, "read">> \in RolePermissions[r]
    /\ \A R, A : HasPermission(r, Can(R, A)) => \A a \in A : <<R, a>> \in RolePermissions[r]
    /\ \A R : HasPermission(r, CanManage(R)) =>
                \A a \in {"create", "update", "delete"} : <<R, a>> \in RolePermissions[r]
    /\ HasPermission(r, CanManage("member")) =>
         \A a \in {"read", "create", "cancel"} : <<"invitation", a>> \in RolePermissions[r]
    /\ \A g, h : HasPermission(r, g \union h) <=> HasPermission(r, g) /\ HasPermission(r, h)
<1>1. /\ \A p : HasPermission(r, {p}) <=> p \in RolePermissions[r]
      /\ HasPermission(r, Everyone)
      /\ \A g, h : HasPermission(r, g \union h) <=> HasPermission(r, g) /\ HasPermission(r, h)
  BY DEF HasPermission, Everyone
<1>2. \A R, A : HasPermission(r, Can(R, A)) => \A a \in A : <<R, a>> \in RolePermissions[r]
  <2>1. \A R, A, a : a \in A => <<R, a>> \in {R} \X A
    OBVIOUS
  <2>2. QED
    BY <2>1 DEF HasPermission, Can
<1>3. \A R : HasPermission(r, CanManage(R)) =>
               \A a \in {"create", "update", "delete"} : <<R, a>> \in RolePermissions[r]
  BY <1>2 DEF CanManage
<1>4. \A R \in Operational \union {"organization"} : <<R, "read">> \in RolePermissions[r]
  <2>1. \A R \in Operational \union {"organization"} : <<R, "read">> \in PermissionStatements
    BY DEF PermissionStatements, CRUD
  <2>2. \A R \in Operational : <<R, "read">> \in Operate
    BY DEF Operate, CRUD
  <2>3. \A R \in Operational \union {"organization"} :
          /\ <<R, "read">> \in ReadEverything
          /\ <<R, "read">> \notin {<<"organization", "delete">>, <<"billing", "manage">>}
    BY <2>1 DEF ReadEverything
  <2>4. CASE r = "owner"
    BY <2>1, <2>4 DEF RolePermissions
  <2>5. CASE r = "admin"
    BY <2>1, <2>3, <2>5 DEF RolePermissions
  <2>6. CASE r = "manager"
    <3>1. Operate \subseteq RolePermissions[r] /\ <<"organization", "read">> \in RolePermissions[r]
      BY <2>6 DEF RolePermissions
    <3>2. QED
      BY <3>1, <2>2
  <2>7. CASE r = "developer"
    <3>1. Operate \subseteq RolePermissions[r] /\ <<"organization", "read">> \in RolePermissions[r]
      BY <2>7 DEF RolePermissions
    <3>2. QED
      BY <3>1, <2>2
  <2>8. CASE r = "viewer"
    BY <2>3, <2>8 DEF RolePermissions
  <2>9. QED
    BY <2>4, <2>5, <2>6, <2>7, <2>8 DEF OrgRoles
<1>5. HasPermission(r, CanManage("member")) =>
        \A a \in {"read", "create", "cancel"} : <<"invitation", a>> \in RolePermissions[r]
  <2>1. \A a \in {"read", "create", "cancel"} : <<"invitation", a>> \in PermissionStatements
    BY DEF PermissionStatements
  <2>2. CASE r \in {"owner", "admin"}
    BY <2>1, <2>2 DEF RolePermissions
  <2>3. CASE r \in {"manager", "developer", "viewer"}
    <3>1. <<"member", "delete">> \notin RolePermissions[r]
      BY <2>3 DEF RolePermissions, Operate, Operational, ReadEverything
    <3>2. QED
      BY <3>1, <1>3
  <2>4. QED
    BY <2>2, <2>3 DEF OrgRoles
<1>6. QED
  BY <1>1, <1>2, <1>3, <1>4, <1>5

-----------------------------------------------------------------------------
(* What a screen offers or asks for, the endpoint behind it allows: the    *)
(* gates and the guards read one matrix.   The endpoints are gone through  *)
(* once, by what they ask for, then the screens, one by one.               *)

\* The endpoint behind the query q, or the control m, lets the role r through;
\* or no gate protects q, or m.
MayAsk(r, q) ==
  \/ q \in UngatedQueries
  \/ \A e \in Routes : e.name = EndpointOf(q) => e.needs \in RolePermissions[r]

MayUse(r, m) ==
  \/ m \in UngatedControls
  \/ \A e \in Routes : e.name = m => e.needs \in RolePermissions[r]

Allowed(r, view) ==
  /\ \A q \in QueriesFor(r, view) : MayAsk(r, q)
  /\ \A m \in ControlsFor(r, view) : MayUse(r, m)

\* A view allows what its parts allow; behind a gate, only whom it lets through matters.
LEMMA AllowedParts ==
  ASSUME NEW r
  PROVE  /\ \A v, w : Allowed(r, v) /\ Allowed(r, w) => Allowed(r, v ++ w)
         /\ \A g, v : (HasPermission(r, g) => Allowed(r, v)) => Allowed(r, Within(g, v))
         /\ \A Q, g : (HasPermission(r, g) => \A q \in Q : MayAsk(r, q)) => Allowed(r, Mounts(Q, g))
         /\ \A M, g : (HasPermission(r, g) => \A m \in M : MayUse(r, m)) => Allowed(r, Offers(M, g))
<1>1. \A v, w : Allowed(r, v) /\ Allowed(r, w) => Allowed(r, v ++ w)
  BY OnScreenFor DEF Allowed
<1>2. \A g, v : (HasPermission(r, g) => Allowed(r, v)) => Allowed(r, Within(g, v))
  BY OnScreenFor DEF Allowed
<1>3. \A Q, g : (HasPermission(r, g) => \A q \in Q : MayAsk(r, q)) => Allowed(r, Mounts(Q, g))
  BY OnScreenFor DEF Allowed
<1>4. \A M, g : (HasPermission(r, g) => \A m \in M : MayUse(r, m)) => Allowed(r, Offers(M, g))
  BY OnScreenFor DEF Allowed
<1>5. QED
  BY <1>1, <1>2, <1>3, <1>4

\* What the endpoints ask for.
Guards(names, p) == \A e \in Routes : e.name \in names => e.needs = p

\* The permission each endpoint asks for, by the `needs` of its rows (requirePermission in the
\* routers, the matrix of Better Auth for members and invitations).
LEMMA WhatIsAsked ==
  /\ Guards({"monitors", "monitor", "checkResults", "monitorWindows",
             "monitorIncidents", "incidents", "incident", "windows", "summary",
             "timeseries", "regions", "incidentReport", "sla", "monitorReport"},
            <<"monitor", "read">>)
  /\ Guards({"channels", "channel", "integrations", "webhooks", "deliveries"},
            <<"alertChannel", "read">>)
  /\ Guards({"policies", "policy"},
            <<"escalationPolicy", "read">>)
  /\ Guards({"schedules", "schedule", "whoIsOnCall", "overrides"},
            <<"onCallSchedule", "read">>)
  /\ Guards({"pages", "page", "subscribers", "components", "pageIncidents",
             "domains"},
            <<"statusPage", "read">>)
  /\ Guards({"billing", "plans", "invoices"},
            <<"billing", "read">>)
  /\ Guards({"apiKeys"},
            <<"apiKey", "read">>)
  /\ Guards({"settings", "overview"},
            <<"organization", "read">>)
  /\ Guards({"members"},
            <<"member", "read">>)
  /\ Guards({"invitations"},
            <<"invitation", "read">>)
  /\ Guards({"auditLogs"},
            <<"auditLog", "read">>)
  /\ Guards({"createMonitor"},
            <<"monitor", "create">>)
  /\ Guards({"updateMonitor", "pauseMonitor", "resumeMonitor", "setChannels",
             "acknowledge", "resolve", "comment", "createWindow", "deleteWindow"},
            <<"monitor", "update">>)
  /\ Guards({"deleteMonitor"},
            <<"monitor", "delete">>)
  /\ Guards({"createChannel", "createIntegration", "createWebhook"},
            <<"alertChannel", "create">>)
  /\ Guards({"updateChannel", "enableChannel", "disableChannel", "testChannel",
             "updateIntegration", "testIntegration", "updateWebhook", "testWebhook"},
            <<"alertChannel", "update">>)
  /\ Guards({"deleteChannel", "deleteIntegration", "deleteWebhook"},
            <<"alertChannel", "delete">>)
  /\ Guards({"createPolicy"},
            <<"escalationPolicy", "create">>)
  /\ Guards({"updatePolicy"},
            <<"escalationPolicy", "update">>)
  /\ Guards({"deletePolicy"},
            <<"escalationPolicy", "delete">>)
  /\ Guards({"createSchedule"},
            <<"onCallSchedule", "create">>)
  /\ Guards({"updateSchedule", "addOverride", "removeOverride"},
            <<"onCallSchedule", "update">>)
  /\ Guards({"deleteSchedule"},
            <<"onCallSchedule", "delete">>)
  /\ Guards({"createPage", "addDomain"},
            <<"statusPage", "create">>)
  /\ Guards({"updatePage", "createComponent", "updateComponent",
             "reorderComponents", "deleteComponent", "openIncident",
             "addIncidentUpdate", "verifyDomain"},
            <<"statusPage", "update">>)
  /\ Guards({"deletePage", "removeDomain"},
            <<"statusPage", "delete">>)
  /\ Guards({"startCheckout", "openPortal", "changePlan", "cancelSubscription"},
            <<"billing", "manage">>)
  /\ Guards({"createKey"},
            <<"apiKey", "create">>)
  /\ Guards({"revokeKey"},
            <<"apiKey", "revoke">>)
  /\ Guards({"updateSettings"},
            <<"organization", "update">>)
  /\ Guards({"inviteMember"},
            <<"invitation", "create">>)
  /\ Guards({"cancelInvitation"},
            <<"invitation", "cancel">>)
  /\ Guards({"updateMemberRole"},
            <<"member", "update">>)
  /\ Guards({"removeMember"},
            <<"member", "delete">>)
<1> USE DEF Guards, Routes, MonitorsRouter, IncidentsRouter, MaintenanceWindowsRouter,
    AlertChannelsRouter, EscalationPoliciesRouter, OnCallSchedulesRouter, IntegrationsRouter,
    WebhookIntegrationRouter, IntegrationDeliveriesRouter, StatusPagesRouter,
    StatusPageContentRouter, CustomDomainsRouter, AnalyticsRouter, BillingRouter,
    ApiKeysRouter, OrganizationSettingsRouter, OrganizationsRouter,
    AuthOrganizationEndpoints, Read, Write
<1>1. Guards({"monitors", "monitor", "checkResults", "monitorWindows",
             "monitorIncidents", "incidents", "incident", "windows", "summary",
             "timeseries", "regions", "incidentReport", "sla", "monitorReport"},
             <<"monitor", "read">>)
  OBVIOUS
<1>2. Guards({"channels", "channel", "integrations", "webhooks", "deliveries"},
             <<"alertChannel", "read">>)
  OBVIOUS
<1>3. Guards({"policies", "policy"},
             <<"escalationPolicy", "read">>)
  OBVIOUS
<1>4. Guards({"schedules", "schedule", "whoIsOnCall", "overrides"},
             <<"onCallSchedule", "read">>)
  OBVIOUS
<1>5. Guards({"pages", "page", "subscribers", "components", "pageIncidents",
             "domains"},
             <<"statusPage", "read">>)
  OBVIOUS
<1>6. Guards({"billing", "plans", "invoices"},
             <<"billing", "read">>)
  OBVIOUS
<1>7. Guards({"apiKeys"},
             <<"apiKey", "read">>)
  OBVIOUS
<1>8. Guards({"settings", "overview"},
             <<"organization", "read">>)
  OBVIOUS
<1>9. Guards({"members"},
             <<"member", "read">>)
  OBVIOUS
<1>10. Guards({"invitations"},
             <<"invitation", "read">>)
  OBVIOUS
<1>11. Guards({"auditLogs"},
             <<"auditLog", "read">>)
  OBVIOUS
<1>12. Guards({"createMonitor"},
             <<"monitor", "create">>)
  OBVIOUS
<1>13. Guards({"updateMonitor", "pauseMonitor", "resumeMonitor", "setChannels",
             "acknowledge", "resolve", "comment", "createWindow", "deleteWindow"},
             <<"monitor", "update">>)
  OBVIOUS
<1>14. Guards({"deleteMonitor"},
             <<"monitor", "delete">>)
  OBVIOUS
<1>15. Guards({"createChannel", "createIntegration", "createWebhook"},
             <<"alertChannel", "create">>)
  OBVIOUS
<1>16. Guards({"updateChannel", "enableChannel", "disableChannel", "testChannel",
             "updateIntegration", "testIntegration", "updateWebhook", "testWebhook"},
             <<"alertChannel", "update">>)
  OBVIOUS
<1>17. Guards({"deleteChannel", "deleteIntegration", "deleteWebhook"},
             <<"alertChannel", "delete">>)
  OBVIOUS
<1>18. Guards({"createPolicy"},
             <<"escalationPolicy", "create">>)
  OBVIOUS
<1>19. Guards({"updatePolicy"},
             <<"escalationPolicy", "update">>)
  OBVIOUS
<1>20. Guards({"deletePolicy"},
             <<"escalationPolicy", "delete">>)
  OBVIOUS
<1>21. Guards({"createSchedule"},
             <<"onCallSchedule", "create">>)
  OBVIOUS
<1>22. Guards({"updateSchedule", "addOverride", "removeOverride"},
             <<"onCallSchedule", "update">>)
  OBVIOUS
<1>23. Guards({"deleteSchedule"},
             <<"onCallSchedule", "delete">>)
  OBVIOUS
<1>24. Guards({"createPage", "addDomain"},
             <<"statusPage", "create">>)
  OBVIOUS
<1>25. Guards({"updatePage", "createComponent", "updateComponent",
             "reorderComponents", "deleteComponent", "openIncident",
             "addIncidentUpdate", "verifyDomain"},
             <<"statusPage", "update">>)
  OBVIOUS
<1>26. Guards({"deletePage", "removeDomain"},
             <<"statusPage", "delete">>)
  OBVIOUS
<1>27. Guards({"startCheckout", "openPortal", "changePlan", "cancelSubscription"},
             <<"billing", "manage">>)
  OBVIOUS
<1>28. Guards({"createKey"},
             <<"apiKey", "create">>)
  OBVIOUS
<1>29. Guards({"revokeKey"},
             <<"apiKey", "revoke">>)
  OBVIOUS
<1>30. Guards({"updateSettings"},
             <<"organization", "update">>)
  OBVIOUS
<1>31. Guards({"inviteMember"},
             <<"invitation", "create">>)
  OBVIOUS
<1>32. Guards({"cancelInvitation"},
             <<"invitation", "cancel">>)
  OBVIOUS
<1>33. Guards({"updateMemberRole"},
             <<"member", "update">>)
  OBVIOUS
<1>34. Guards({"removeMember"},
             <<"member", "delete">>)
  OBVIOUS
<1> HIDE DEF Guards
<1>35. QED
  BY <1>1, <1>2, <1>3, <1>4, <1>5, <1>6, <1>7, <1>8, <1>9, <1>10, <1>11, <1>12, <1>13, <1>14,
     <1>15, <1>16, <1>17, <1>18, <1>19, <1>20, <1>21, <1>22, <1>23, <1>24, <1>25, <1>26, <1>27,
     <1>28, <1>29, <1>30, <1>31, <1>32, <1>33, <1>34

\* The queries that every role may ask for, and the members, that no gate protects.
OpenQueries ==
  {"members", "monitors", "monitor", "checkResults", "monitorWindows",
   "monitorIncidents", "incidents", "incidentSummary", "incident", "windows", "summary",
   "timeseries", "regions", "incidentReport", "sla", "monitorReport", "channels",
   "monitorChannels", "channel", "slack", "discord", "webhooks", "deliveries",
   "policies", "monitorPolicies", "policy", "schedules", "schedule", "whoIsOnCall",
   "overrides", "pages", "page", "subscribers", "components", "pageIncidents",
   "domains", "settings", "overview"}

\* What the matrix lets the role r do with the screens.
LEMMA WhoMay ==
  ASSUME NEW r \in OrgRoles
  PROVE
    /\ \A q \in OpenQueries : MayAsk(r, q)
    /\ \A m \in UngatedControls : MayUse(r, m)
    /\ <<"billing", "read">> \in RolePermissions[r] =>
         \A q \in {"billing", "plans", "invoices"} : MayAsk(r, q)
    /\ <<"apiKey", "read">> \in RolePermissions[r] =>
         \A q \in {"apiKeys"} : MayAsk(r, q)
    /\ <<"invitation", "read">> \in RolePermissions[r] =>
         \A q \in {"invitations"} : MayAsk(r, q)
    /\ <<"auditLog", "read">> \in RolePermissions[r] =>
         \A q \in {"auditLogs", "auditLogList"} : MayAsk(r, q)
    /\ <<"monitor", "create">> \in RolePermissions[r] =>
         \A m \in {"createMonitor"} : MayUse(r, m)
    /\ <<"monitor", "update">> \in RolePermissions[r] =>
         \A m \in {"updateMonitor", "pauseMonitor", "resumeMonitor", "setChannels",
                 "acknowledge", "resolve", "comment", "createWindow", "deleteWindow"} : MayUse(r, m)
    /\ <<"monitor", "delete">> \in RolePermissions[r] =>
         \A m \in {"deleteMonitor"} : MayUse(r, m)
    /\ <<"alertChannel", "create">> \in RolePermissions[r] =>
         \A m \in {"createChannel", "createIntegration", "createWebhook"} : MayUse(r, m)
    /\ <<"alertChannel", "update">> \in RolePermissions[r] =>
         \A m \in {"updateChannel", "enableChannel", "disableChannel", "testChannel",
                 "updateIntegration", "testIntegration", "updateWebhook",
                 "testWebhook"} : MayUse(r, m)
    /\ <<"alertChannel", "delete">> \in RolePermissions[r] =>
         \A m \in {"deleteChannel", "deleteIntegration", "deleteWebhook"} : MayUse(r, m)
    /\ <<"escalationPolicy", "create">> \in RolePermissions[r] =>
         \A m \in {"createPolicy"} : MayUse(r, m)
    /\ <<"escalationPolicy", "update">> \in RolePermissions[r] =>
         \A m \in {"updatePolicy"} : MayUse(r, m)
    /\ <<"escalationPolicy", "delete">> \in RolePermissions[r] =>
         \A m \in {"deletePolicy"} : MayUse(r, m)
    /\ <<"onCallSchedule", "create">> \in RolePermissions[r] =>
         \A m \in {"createSchedule"} : MayUse(r, m)
    /\ <<"onCallSchedule", "update">> \in RolePermissions[r] =>
         \A m \in {"updateSchedule", "addOverride", "removeOverride"} : MayUse(r, m)
    /\ <<"onCallSchedule", "delete">> \in RolePermissions[r] =>
         \A m \in {"deleteSchedule"} : MayUse(r, m)
    /\ <<"statusPage", "create">> \in RolePermissions[r] =>
         \A m \in {"createPage", "addDomain"} : MayUse(r, m)
    /\ <<"statusPage", "update">> \in RolePermissions[r] =>
         \A m \in {"updatePage", "createComponent", "updateComponent",
                 "reorderComponents", "deleteComponent", "openIncident",
                 "addIncidentUpdate", "verifyDomain"} : MayUse(r, m)
    /\ <<"statusPage", "delete">> \in RolePermissions[r] =>
         \A m \in {"deletePage", "removeDomain"} : MayUse(r, m)
    /\ <<"billing", "manage">> \in RolePermissions[r] =>
         \A m \in {"startCheckout", "openPortal", "changePlan", "cancelSubscription"} : MayUse(r, m)
    /\ <<"apiKey", "create">> \in RolePermissions[r] =>
         \A m \in {"createKey"} : MayUse(r, m)
    /\ <<"apiKey", "revoke">> \in RolePermissions[r] =>
         \A m \in {"revokeKey"} : MayUse(r, m)
    /\ <<"organization", "update">> \in RolePermissions[r] =>
         \A m \in {"updateSettings"} : MayUse(r, m)
    /\ <<"invitation", "create">> \in RolePermissions[r] =>
         \A m \in {"inviteMember"} : MayUse(r, m)
    /\ <<"invitation", "cancel">> \in RolePermissions[r] =>
         \A m \in {"cancelInvitation"} : MayUse(r, m)
    /\ <<"member", "update">> \in RolePermissions[r] =>
         \A m \in {"updateMemberRole"} : MayUse(r, m)
    /\ <<"member", "delete">> \in RolePermissions[r] =>
         \A m \in {"removeMember"} : MayUse(r, m)
<1> USE WhatIsAsked DEF Guards, MayAsk, MayUse, EndpointOf
<1>1. /\ \A q \in OpenQueries : MayAsk(r, q)
      /\ \A m \in UngatedControls : MayUse(r, m)
  <2>1. /\ <<"monitor", "read">> \in RolePermissions[r]
        /\ <<"alertChannel", "read">> \in RolePermissions[r]
        /\ <<"escalationPolicy", "read">> \in RolePermissions[r]
        /\ <<"onCallSchedule", "read">> \in RolePermissions[r]
        /\ <<"statusPage", "read">> \in RolePermissions[r]
        /\ <<"organization", "read">> \in RolePermissions[r]
    BY ONLY RolesMay, r \in OrgRoles DEF Operational
  <2>2. \A q \in {"monitors", "monitor", "checkResults", "monitorWindows", "monitorIncidents",
                 "incidents", "incidentSummary", "incident", "windows", "summary", "timeseries",
                 "regions", "incidentReport", "sla", "monitorReport"} : MayAsk(r, q)
    BY <2>1
  <2>3. \A q \in {"channels", "monitorChannels", "channel", "slack", "discord", "webhooks",
                 "deliveries"} : MayAsk(r, q)
    BY <2>1
  <2>4. \A q \in {"policies", "monitorPolicies", "policy"} : MayAsk(r, q)
    BY <2>1
  <2>5. \A q \in {"schedules", "schedule", "whoIsOnCall", "overrides"} : MayAsk(r, q)
    BY <2>1
  <2>6. \A q \in {"pages", "page", "subscribers", "components", "pageIncidents", "domains"} :
          MayAsk(r, q)
    BY <2>1
  <2>7. \A q \in {"settings", "overview"} : MayAsk(r, q)
    BY <2>1
  <2>8. MayAsk(r, "members") /\ \A m \in UngatedControls : MayUse(r, m)
    BY ONLY DEF MayAsk, MayUse, UngatedQueries
  <2>9. QED
    BY ONLY <2>2, <2>3, <2>4, <2>5, <2>6, <2>7, <2>8 DEF OpenQueries
<1>2. <<"billing", "read">> \in RolePermissions[r] =>
        \A q \in {"billing", "plans", "invoices"} : MayAsk(r, q)
  OBVIOUS
<1>3. <<"apiKey", "read">> \in RolePermissions[r] =>
        \A q \in {"apiKeys"} : MayAsk(r, q)
  OBVIOUS
<1>4. <<"invitation", "read">> \in RolePermissions[r] =>
        \A q \in {"invitations"} : MayAsk(r, q)
  OBVIOUS
<1>5. <<"auditLog", "read">> \in RolePermissions[r] =>
        \A q \in {"auditLogs", "auditLogList"} : MayAsk(r, q)
  OBVIOUS
<1>6. <<"monitor", "create">> \in RolePermissions[r] =>
        \A m \in {"createMonitor"} : MayUse(r, m)
  OBVIOUS
<1>7. <<"monitor", "update">> \in RolePermissions[r] =>
        \A m \in {"updateMonitor", "pauseMonitor", "resumeMonitor", "setChannels",
                "acknowledge", "resolve", "comment", "createWindow", "deleteWindow"} : MayUse(r, m)
  OBVIOUS
<1>8. <<"monitor", "delete">> \in RolePermissions[r] =>
        \A m \in {"deleteMonitor"} : MayUse(r, m)
  OBVIOUS
<1>9. <<"alertChannel", "create">> \in RolePermissions[r] =>
        \A m \in {"createChannel", "createIntegration", "createWebhook"} : MayUse(r, m)
  OBVIOUS
<1>10. <<"alertChannel", "update">> \in RolePermissions[r] =>
        \A m \in {"updateChannel", "enableChannel", "disableChannel", "testChannel",
                "updateIntegration", "testIntegration", "updateWebhook",
                 "testWebhook"} : MayUse(r, m)
  OBVIOUS
<1>11. <<"alertChannel", "delete">> \in RolePermissions[r] =>
        \A m \in {"deleteChannel", "deleteIntegration", "deleteWebhook"} : MayUse(r, m)
  OBVIOUS
<1>12. <<"escalationPolicy", "create">> \in RolePermissions[r] =>
        \A m \in {"createPolicy"} : MayUse(r, m)
  OBVIOUS
<1>13. <<"escalationPolicy", "update">> \in RolePermissions[r] =>
        \A m \in {"updatePolicy"} : MayUse(r, m)
  OBVIOUS
<1>14. <<"escalationPolicy", "delete">> \in RolePermissions[r] =>
        \A m \in {"deletePolicy"} : MayUse(r, m)
  OBVIOUS
<1>15. <<"onCallSchedule", "create">> \in RolePermissions[r] =>
        \A m \in {"createSchedule"} : MayUse(r, m)
  OBVIOUS
<1>16. <<"onCallSchedule", "update">> \in RolePermissions[r] =>
        \A m \in {"updateSchedule", "addOverride", "removeOverride"} : MayUse(r, m)
  OBVIOUS
<1>17. <<"onCallSchedule", "delete">> \in RolePermissions[r] =>
        \A m \in {"deleteSchedule"} : MayUse(r, m)
  OBVIOUS
<1>18. <<"statusPage", "create">> \in RolePermissions[r] =>
        \A m \in {"createPage", "addDomain"} : MayUse(r, m)
  OBVIOUS
<1>19. <<"statusPage", "update">> \in RolePermissions[r] =>
        \A m \in {"updatePage", "createComponent", "updateComponent",
                "reorderComponents", "deleteComponent", "openIncident",
                "addIncidentUpdate", "verifyDomain"} : MayUse(r, m)
  OBVIOUS
<1>20. <<"statusPage", "delete">> \in RolePermissions[r] =>
        \A m \in {"deletePage", "removeDomain"} : MayUse(r, m)
  OBVIOUS
<1>21. <<"billing", "manage">> \in RolePermissions[r] =>
        \A m \in {"startCheckout", "openPortal", "changePlan", "cancelSubscription"} : MayUse(r, m)
  OBVIOUS
<1>22. <<"apiKey", "create">> \in RolePermissions[r] =>
        \A m \in {"createKey"} : MayUse(r, m)
  OBVIOUS
<1>23. <<"apiKey", "revoke">> \in RolePermissions[r] =>
        \A m \in {"revokeKey"} : MayUse(r, m)
  OBVIOUS
<1>24. <<"organization", "update">> \in RolePermissions[r] =>
        \A m \in {"updateSettings"} : MayUse(r, m)
  OBVIOUS
<1>25. <<"invitation", "create">> \in RolePermissions[r] =>
        \A m \in {"inviteMember"} : MayUse(r, m)
  OBVIOUS
<1>26. <<"invitation", "cancel">> \in RolePermissions[r] =>
        \A m \in {"cancelInvitation"} : MayUse(r, m)
  OBVIOUS
<1>27. <<"member", "update">> \in RolePermissions[r] =>
        \A m \in {"updateMemberRole"} : MayUse(r, m)
  OBVIOUS
<1>28. <<"member", "delete">> \in RolePermissions[r] =>
        \A m \in {"removeMember"} : MayUse(r, m)
  OBVIOUS
<1> HIDE WhatIsAsked DEF Guards, MayAsk, MayUse, EndpointOf
<1>29. QED
  BY <1>1, <1>2, <1>3, <1>4, <1>5, <1>6, <1>7, <1>8, <1>9, <1>10, <1>11, <1>12, <1>13, <1>14,
     <1>15, <1>16, <1>17, <1>18, <1>19, <1>20, <1>21, <1>22, <1>23, <1>24, <1>25, <1>26, <1>27,
     <1>28

\* What a page of the dashboard offers to a role or fetches for it, that role may use, except what
\* no gate protects: the gates of the web (use-permissions.ts) and the guards of the API agree.
LEMMA PagesAllowed ==
  ASSUME NEW r \in OrgRoles
  PROVE  \A p \in DOMAIN Pages : Allowed(r, DashboardLayout(Pages[p]))
<1> USE WhoMay, RolesMay, AllowedParts DEF UngatedControls
<1>1. \A view : Allowed(r, view) => Allowed(r, DashboardLayout(view))
  BY DEF DashboardLayout, CommandPalette, OpenQueries
<1>2. Allowed(r, DashboardOverviewPage)
  BY DEF DashboardOverviewPage, OnboardingChecklist, OpenQueries, CanRead
<1>3. Allowed(r, MonitorsPage)
  BY DEF MonitorsPage, OpenQueries, CanRead
<1>4. Allowed(r, MonitorDetailPage)
  BY DEF MonitorDetailPage, MonitorAnalytics, OpenQueries, CanRead
<1>5. Allowed(r, NewMonitorPage)
  BY DEF NewMonitorPage, OpenQueries, CanRead
<1>6. Allowed(r, EditMonitorPage)
  BY DEF EditMonitorPage, OpenQueries, CanRead
<1>7. Allowed(r, IncidentsPage)
  BY DEF IncidentsPage, IncidentStatsBar, OpenQueries, CanRead
<1>8. Allowed(r, IncidentDetailPage)
  BY DEF IncidentDetailPage, IncidentActions, CommentForm, OpenQueries, CanRead
<1>9. Allowed(r, MaintenanceWindowsPage)
  BY DEF MaintenanceWindowsPage, CreateWindowDialog, OpenQueries, CanRead
<1>10. Allowed(r, AnalyticsPage)
  BY DEF AnalyticsPage, AnalyticsReports, MonitoringSection, RegionalSection, IncidentsSection,
     SlaReportSection, OpenQueries, CanRead
<1>11. Allowed(r, BillingPage)
  BY DEF BillingPage, OpenQueries, CanRead
<1>12. Allowed(r, StatusPagesPage)
  BY DEF StatusPagesPage, OpenQueries, CanRead
<1>13. Allowed(r, NewStatusPage)
  BY DEF NewStatusPage, OpenQueries, CanRead
<1>14. Allowed(r, StatusPageDetail(OverviewTab))
  BY DEF StatusPageDetail, OverviewTab, OpenQueries, CanRead
<1>15. Allowed(r, StatusPageDetail(ComponentsTab))
  BY DEF StatusPageDetail, ComponentsTab, OpenQueries, CanRead
<1>16. Allowed(r, StatusPageDetail(IncidentBoardTab))
  BY DEF StatusPageDetail, IncidentBoardTab, OpenQueries, CanRead
<1>17. Allowed(r, StatusPageDetail(SubscribersTab))
  BY DEF StatusPageDetail, SubscribersTab, OpenQueries, CanRead
<1>18. Allowed(r, StatusPageDetail(SettingsTab))
  BY DEF StatusPageDetail, SettingsTab, PageDomainsSection, OpenQueries, CanRead
<1>19. Allowed(r, AlertChannelsPage)
  BY DEF AlertChannelsPage, ChannelModal, OpenQueries, CanRead
<1>20. Allowed(r, EscalationPoliciesPage)
  BY DEF EscalationPoliciesPage, PolicyModal, OpenQueries, CanRead
<1>21. Allowed(r, OnCallSchedulesPage)
  BY DEF OnCallSchedulesPage, ScheduleModal, OpenQueries, CanRead
<1>22. Allowed(r, OnCallScheduleDetailPage)
  BY DEF OnCallScheduleDetailPage, AddOverrideModal, OpenQueries, CanRead
<1>23. Allowed(r, IntegrationsPage)
  BY DEF IntegrationsPage, ChatSection, WebhookSection, OpenQueries, CanRead
<1>24. Allowed(r, MembersPage)
  BY DEF MembersPage, OpenQueries, CanRead
<1>25. Allowed(r, ApiKeysPage)
  BY DEF ApiKeysPage, OpenQueries, CanRead
<1>26. Allowed(r, AuditLogsPage)
  BY DEF AuditLogsPage, OpenQueries, CanRead
<1>27. Allowed(r, CustomDomainsPage)
  BY DEF CustomDomainsPage, OpenQueries, CanRead
<1>28. Allowed(r, OrganizationSettingsPage)
  BY DEF OrganizationSettingsPage, OpenQueries, CanRead
<1> HIDE WhoMay, RolesMay, AllowedParts DEF UngatedControls
<1>29. QED
  BY <1>1, <1>2, <1>3, <1>4, <1>5, <1>6, <1>7, <1>8, <1>9, <1>10, <1>11, <1>12, <1>13, <1>14,
     <1>15, <1>16, <1>17, <1>18, <1>19, <1>20, <1>21, <1>22, <1>23, <1>24, <1>25, <1>26, <1>27,
     <1>28 DEF Pages

-----------------------------------------------------------------------------
(* What a control changes is fetched again wherever a screen shows both.   *)
(* The queries are gone through by the facts they show, the hooks by what  *)
(* their endpoints change, and what is left over (Elsewhere) is on no      *)
(* screen.                                                                 *)

\* The hook h fetches the query k again, or has its answer.
Refreshes(h, k) ==
  \/ k.key \in h.sets
  \/ \E prefix \in {k.key, <<k.key[1]>>, <<>>} : prefix \in h.invalidates

\* The controls that leave a query which shows what they change as it is: no
\* screen has both.
Elsewhere(m, q) ==
  \/ /\ m \in {"createMonitor", "updateMonitor", "pauseMonitor", "resumeMonitor", "deleteMonitor"}
     /\ q = "overview"
  \/ /\ m \in {"acknowledge", "resolve"}
     /\ q \in {"overview", "summary", "incidentReport", "sla", "monitorReport"}
  \/ m \in {"createWindow", "deleteWindow"} /\ q = "monitorWindows"
  \/ /\ m \in {"createComponent", "updateComponent", "deleteComponent", "reorderComponents"}
     /\ q = "pages"

\* The queries that show the facts which the controls change.
ShownWhere(k, shows) ==
    /\ "monitors" \in shows => k.key[1] = "monitors" \/ k.name = "overview"
    /\ "monitorChannels" \in shows => k.key = MonitorKeys.detail
    /\ "incidents" \in shows =>
         \/ k.key[1] \in {"incidents", "monitors"}
         \/ k.name \in {"overview", "summary", "incidentReport", "sla", "monitorReport"}
    /\ "timeline" \in shows => k.key = IncidentDetailKey
    /\ "windows" \in shows => k.key = <<"maintenance-windows">> \/ k.name = "monitorWindows"
    /\ "channels" \in shows => k.key[1] = "alert-channels"
    /\ "policies" \in shows => k.key[1] = "escalation-policies"
    /\ "schedules" \in shows => k.key[1] = "oncall-schedules"
    /\ "overrides" \in shows => k.key \in {OnCallKeys.overrides, OnCallKeys.onCall}
    /\ "integrations" \in shows => k.key[1] = "integrations"
    /\ "deliveries" \in shows => k.name = "deliveries"
    /\ "pages" \in shows => k.key \in {StatusPageKeys.all, StatusPageKeys.detail}
    /\ "components" \in shows => k.key = StatusPageKeys.components \/ k.name = "pages"
    /\ k.name = "pages" => k.key = StatusPageKeys.all
    /\ "pageIncidents" \in shows => k.key = StatusPageKeys.incidents
    /\ "domains" \in shows => k.key = <<"custom-domains">>
    /\ "apiKeys" \in shows => k.key = <<"api-keys">>
    /\ "organization" \in shows \/ "settings" \in shows => k.key = <<"settings">>

\* A query that shows a fact is under the key by which the hooks know it, by the endpoint it reads.
LEMMA WhereShown ==
  ASSUME NEW k \in QueryRows, NEW r \in Routes, r.name = EndpointOf(k.name)
  PROVE  ShownWhere(k, r.shows)
<1> USE DEF ShownWhere, EndpointOf, Query, MonitorKeys, IncidentDetailKey, OnCallKeys,
      StatusPageKeys,
    Routes, MonitorsRouter, IncidentsRouter, MaintenanceWindowsRouter,
    AlertChannelsRouter, EscalationPoliciesRouter, OnCallSchedulesRouter, IntegrationsRouter,
    WebhookIntegrationRouter, IntegrationDeliveriesRouter, StatusPagesRouter,
    StatusPageContentRouter, CustomDomainsRouter, AnalyticsRouter, BillingRouter,
    ApiKeysRouter, OrganizationSettingsRouter, OrganizationsRouter,
    AuthOrganizationEndpoints, Read, Write
<1>1. CASE k \in MonitorQueries
  BY <1>1 DEF MonitorQueries
<1>2. CASE k \in IncidentQueries
  BY <1>2 DEF IncidentQueries
<1>3. CASE k \in WindowQueries
  BY <1>3 DEF WindowQueries
<1>4. CASE k \in ChannelQueries
  BY <1>4 DEF ChannelQueries
<1>5. CASE k \in PolicyQueries
  BY <1>5 DEF PolicyQueries
<1>6. CASE k \in OnCallQueries
  BY <1>6 DEF OnCallQueries
<1>7. CASE k \in IntegrationQueries
  BY <1>7 DEF IntegrationQueries
<1>8. CASE k \in StatusPageQueries
  BY <1>8 DEF StatusPageQueries
<1>9. CASE k \in DomainQueries
  BY <1>9 DEF DomainQueries
<1>10. CASE k \in AnalyticsQueries
  BY <1>10 DEF AnalyticsQueries
<1>11. CASE k \in BillingQueries
  BY <1>11 DEF BillingQueries
<1>12. CASE k \in ApiKeyQueries
  BY <1>12 DEF ApiKeyQueries
<1>13. CASE k \in AuditLogQueries
  BY <1>13 DEF AuditLogQueries
<1>14. CASE k \in SettingsQueries
  BY <1>14 DEF SettingsQueries
<1>15. CASE k \in OrganizationQueries
  BY <1>15 DEF OrganizationQueries
<1> HIDE DEF ShownWhere
<1>16. QED
  BY ONLY k \in QueryRows, <1>1, <1>2, <1>3, <1>4, <1>5, <1>6, <1>7, <1>8, <1>9, <1>10, <1>11,
          <1>12, <1>13, <1>14, <1>15
     DEF QueryRows

\* A hook fetches again what shows the facts its endpoint changes, but elsewhere.
LEMMA HooksRefresh ==
  ASSUME NEW h \in Hooks, NEW e \in Routes, e.name = h.name,
         NEW k \in QueryRows, NEW r \in Routes, r.name = EndpointOf(k.name),
         e.affects \intersect r.shows # {}
  PROVE  Refreshes(h, k) \/ <<h.name, k.name>> \in NotRefreshed \/ Elsewhere(h.name, k.name)
<1>1. ShownWhere(k, r.shows)
  BY WhereShown
<1>2. PICK f \in e.affects : f \in r.shows
  OBVIOUS
<1> USE DEF Mutation, Mutations, Setting, Optimistic, InvalidateIncidents
<1> USE DEF Routes, MonitorsRouter, IncidentsRouter, MaintenanceWindowsRouter,
            AlertChannelsRouter, EscalationPoliciesRouter, OnCallSchedulesRouter,
            IntegrationsRouter,     WebhookIntegrationRouter, IntegrationDeliveriesRouter,
            StatusPagesRouter,     StatusPageContentRouter, CustomDomainsRouter,
            AnalyticsRouter, BillingRouter,     ApiKeysRouter, OrganizationSettingsRouter,
            OrganizationsRouter,     AuthOrganizationEndpoints, Read, Write
<1>3. h \in UseCreateMonitor => f \in {"monitors", "monitorChannels"}
  BY <1>2 DEF UseCreateMonitor
<1>4. h \in UseUpdateMonitor => f \in {"monitors", "monitorChannels"}
  BY <1>2 DEF UseUpdateMonitor
<1>5. h \in UseDeleteMonitor => f = "monitors"
  BY <1>2 DEF UseDeleteMonitor
<1>6. h \in UseToggleMonitorState => f = "monitors"
  BY <1>2 DEF UseToggleMonitorState
<1>7. h \in UseSetMonitorChannels => f = "monitorChannels"
  BY <1>2 DEF UseSetMonitorChannels
<1>8. h \in UseAcknowledgeIncident => f \in {"incidents", "timeline"}
  BY <1>2 DEF UseAcknowledgeIncident
<1>9. h \in UseResolveIncident => f \in {"incidents", "timeline"}
  BY <1>2 DEF UseResolveIncident
<1>10. h \in UseCommentIncident => f = "timeline"
  BY <1>2 DEF UseCommentIncident
<1>11. h \in WindowMutations => f = "windows"
  BY <1>2 DEF WindowMutations
<1>12. h \in ChannelMutations => f = "channels"
  BY <1>2 DEF ChannelMutations
<1>13. h \in PolicyMutations => f = "policies"
  BY <1>2 DEF PolicyMutations
<1>14. h \in ScheduleMutations => f = "schedules"
  BY <1>2 DEF ScheduleMutations
<1>15. h \in OverrideMutations => f = "overrides"
  BY <1>2 DEF OverrideMutations
<1>16. h \in IntegrationMutations => f \in {"integrations", "deliveries"} /\ (f = "deliveries" =>
      h.name \in {"testIntegration", "testWebhook"})
  BY <1>2 DEF IntegrationMutations
<1>17. h \in UseCreateStatusPage => f \in {"pages", "components"}
  BY <1>2 DEF UseCreateStatusPage
<1>18. h \in UseUpdateStatusPage => f = "pages"
  BY <1>2 DEF UseUpdateStatusPage
<1>19. h \in UseDeleteStatusPage => f = "pages"
  BY <1>2 DEF UseDeleteStatusPage
<1>20. h \in UseCreateComponent => f = "components"
  BY <1>2 DEF UseCreateComponent
<1>21. h \in UseUpdateComponent => f = "components"
  BY <1>2 DEF UseUpdateComponent
<1>22. h \in UseDeleteComponent => f = "components"
  BY <1>2 DEF UseDeleteComponent
<1>23. h \in UseReorderComponents => f = "components"
  BY <1>2 DEF UseReorderComponents
<1>24. h \in UseOpenIncident => f = "pageIncidents"
  BY <1>2 DEF UseOpenIncident
<1>25. h \in UseAddIncidentUpdate => f = "pageIncidents"
  BY <1>2 DEF UseAddIncidentUpdate
<1>26. h \in DomainMutations => f = "domains"
  BY <1>2 DEF DomainMutations
<1>27. h \in BillingMutations => FALSE
  BY <1>2 DEF BillingMutations
<1>28. h \in ApiKeyMutations => f = "apiKeys"
  BY <1>2 DEF ApiKeyMutations
<1>29. h \in UseUpdateOrgSettings => f \in {"organization", "settings"}
  BY <1>2 DEF UseUpdateOrgSettings
<1> HIDE DEF Routes, MonitorsRouter, IncidentsRouter, MaintenanceWindowsRouter,
             AlertChannelsRouter, EscalationPoliciesRouter, OnCallSchedulesRouter,
             IntegrationsRouter,     WebhookIntegrationRouter, IntegrationDeliveriesRouter,
             StatusPagesRouter,     StatusPageContentRouter, CustomDomainsRouter,
             AnalyticsRouter, BillingRouter,     ApiKeysRouter, OrganizationSettingsRouter,
             OrganizationsRouter,     AuthOrganizationEndpoints, Read, Write
<1>30. CASE h \in UseCreateMonitor
  BY <1>1, <1>2, <1>3, <1>30
  DEF ShownWhere, Refreshes, Elsewhere, UseCreateMonitor, MonitorKeys, IncidentDetailKey,
      OnCallKeys, StatusPageKeys
<1>31. CASE h \in UseUpdateMonitor
  BY <1>1, <1>2, <1>4, <1>31
  DEF ShownWhere, Refreshes, Elsewhere, UseUpdateMonitor, MonitorKeys, IncidentDetailKey,
      OnCallKeys, StatusPageKeys
<1>32. CASE h \in UseDeleteMonitor
  BY <1>1, <1>2, <1>5, <1>32
  DEF ShownWhere, Refreshes, Elsewhere, UseDeleteMonitor, MonitorKeys, IncidentDetailKey,
      OnCallKeys, StatusPageKeys
<1>33. CASE h \in UseToggleMonitorState
  BY <1>1, <1>2, <1>6, <1>33
  DEF ShownWhere, Refreshes, Elsewhere, UseToggleMonitorState, MonitorKeys, IncidentDetailKey,
      OnCallKeys, StatusPageKeys
<1>34. CASE h \in UseSetMonitorChannels
  BY <1>1, <1>2, <1>7, <1>34
  DEF ShownWhere, Refreshes, Elsewhere, UseSetMonitorChannels
<1>35. CASE h \in UseAcknowledgeIncident
  BY <1>1, <1>2, <1>8, <1>35
  DEF ShownWhere, Refreshes, Elsewhere, UseAcknowledgeIncident, MonitorKeys, IncidentDetailKey,
      OnCallKeys, StatusPageKeys
<1>36. CASE h \in UseResolveIncident
  BY <1>1, <1>2, <1>9, <1>36
  DEF ShownWhere, Refreshes, Elsewhere, UseResolveIncident, MonitorKeys, IncidentDetailKey,
      OnCallKeys, StatusPageKeys
<1>37. CASE h \in UseCommentIncident
  BY <1>1, <1>2, <1>10, <1>37
  DEF ShownWhere, Refreshes, Elsewhere, UseCommentIncident, MonitorKeys, IncidentDetailKey,
      OnCallKeys, StatusPageKeys
<1>38. CASE h \in WindowMutations
  BY <1>1, <1>2, <1>11, <1>38
  DEF ShownWhere, Refreshes, Elsewhere, WindowMutations, MonitorKeys, IncidentDetailKey,
      OnCallKeys, StatusPageKeys
<1>39. CASE h \in ChannelMutations
  BY <1>1, <1>2, <1>12, <1>39
  DEF ShownWhere, Refreshes, Elsewhere, ChannelMutations, MonitorKeys, IncidentDetailKey,
      OnCallKeys, StatusPageKeys
<1>40. CASE h \in PolicyMutations
  BY <1>1, <1>2, <1>13, <1>40
  DEF ShownWhere, Refreshes, Elsewhere, PolicyMutations, MonitorKeys, IncidentDetailKey,
      OnCallKeys, StatusPageKeys
<1>41. CASE h \in ScheduleMutations
  BY <1>1, <1>2, <1>14, <1>41
  DEF ShownWhere, Refreshes, Elsewhere, ScheduleMutations, MonitorKeys, IncidentDetailKey,
      OnCallKeys, StatusPageKeys
<1>42. CASE h \in OverrideMutations
  BY <1>1, <1>2, <1>15, <1>42
  DEF ShownWhere, Refreshes, Elsewhere, OverrideMutations, MonitorKeys, IncidentDetailKey,
      OnCallKeys, StatusPageKeys
<1>43. CASE h \in IntegrationMutations
  BY <1>1, <1>2, <1>16, <1>43
  DEF ShownWhere, Refreshes, NotRefreshed, Elsewhere, IntegrationMutations, MonitorKeys,
      IncidentDetailKey, OnCallKeys, StatusPageKeys
<1>44. CASE h \in UseCreateStatusPage
  BY <1>1, <1>2, <1>17, <1>44
  DEF ShownWhere, Refreshes, Elsewhere, UseCreateStatusPage, MonitorKeys, IncidentDetailKey,
      OnCallKeys, StatusPageKeys
<1>45. CASE h \in UseUpdateStatusPage
  BY <1>1, <1>2, <1>18, <1>45
  DEF ShownWhere, Refreshes, Elsewhere, UseUpdateStatusPage, MonitorKeys, IncidentDetailKey,
      OnCallKeys, StatusPageKeys
<1>46. CASE h \in UseDeleteStatusPage
  BY <1>1, <1>2, <1>19, <1>46
  DEF ShownWhere, Refreshes, Elsewhere, UseDeleteStatusPage, MonitorKeys, IncidentDetailKey,
      OnCallKeys, StatusPageKeys
<1>47. CASE h \in UseCreateComponent
  BY <1>1, <1>2, <1>20, <1>47
  DEF ShownWhere, Refreshes, Elsewhere, UseCreateComponent
<1>48. CASE h \in UseUpdateComponent
  BY <1>1, <1>2, <1>21, <1>48
  DEF ShownWhere, Refreshes, Elsewhere, UseUpdateComponent
<1>49. CASE h \in UseDeleteComponent
  BY <1>1, <1>2, <1>22, <1>49
  DEF ShownWhere, Refreshes, Elsewhere, UseDeleteComponent
<1>50. CASE h \in UseReorderComponents
  BY <1>1, <1>2, <1>23, <1>50
  DEF ShownWhere, Refreshes, Elsewhere, UseReorderComponents
<1>51. CASE h \in UseOpenIncident
  BY <1>1, <1>2, <1>24, <1>51
  DEF ShownWhere, Refreshes, Elsewhere, UseOpenIncident
<1>52. CASE h \in UseAddIncidentUpdate
  BY <1>1, <1>2, <1>25, <1>52
  DEF ShownWhere, Refreshes, Elsewhere, UseAddIncidentUpdate
<1>53. CASE h \in DomainMutations
  BY <1>1, <1>2, <1>26, <1>53
  DEF ShownWhere, Refreshes, Elsewhere, DomainMutations, MonitorKeys, IncidentDetailKey,
      OnCallKeys, StatusPageKeys
<1>54. CASE h \in BillingMutations
  BY <1>27, <1>54
<1>55. CASE h \in ApiKeyMutations
  BY <1>1, <1>2, <1>28, <1>55
  DEF ShownWhere, Refreshes, Elsewhere, ApiKeyMutations, MonitorKeys, IncidentDetailKey,
      OnCallKeys, StatusPageKeys
<1>56. CASE h \in UseUpdateOrgSettings
  BY <1>1, <1>2, <1>29, <1>56
  DEF ShownWhere, Refreshes, Elsewhere, UseUpdateOrgSettings, MonitorKeys, IncidentDetailKey,
      OnCallKeys, StatusPageKeys
<1>57. CASE h \in MemberMutations
  BY <1>57 DEF Refreshes, MemberMutations
<1>58. QED
  BY <1>30, <1>31, <1>32, <1>33, <1>34, <1>35, <1>36, <1>37, <1>38, <1>39, <1>40, <1>41, <1>42,
     <1>43, <1>44, <1>45, <1>46, <1>47, <1>48, <1>49, <1>50, <1>51, <1>52, <1>53, <1>54, <1>55,
     <1>56, <1>57 DEF Hooks

\* No screen has such a control and such a query.
Apart(view) ==
  \A m \in ControlsOn(view), q \in QueriesOn(DashboardLayout(view)) : ~Elsewhere(m, q)

\* ... so that on no page of the dashboard a control leaves a query beside it as it is.
LEMMA NeverBeside == \A p \in DOMAIN Pages : Apart(Pages[p])
<1>1. \A view : QueriesOn(DashboardLayout(view)) = {"monitors"} \union QueriesOn(view)
  BY OnScreen DEF DashboardLayout, CommandPalette
<1> USE <1>1 DEF Apart, Elsewhere
<1>2. Apart(DashboardOverviewPage)
  BY OnScreen DEF DashboardOverviewPage, OnboardingChecklist
<1>3. Apart(MonitorsPage)
  BY OnScreen DEF MonitorsPage
<1>4. Apart(MonitorDetailPage)
  BY OnScreen DEF MonitorDetailPage, MonitorAnalytics
<1>5. Apart(NewMonitorPage)
  BY OnScreen DEF NewMonitorPage
<1>6. Apart(EditMonitorPage)
  BY OnScreen DEF EditMonitorPage
<1>7. Apart(IncidentsPage)
  BY OnScreen DEF IncidentsPage, IncidentStatsBar
<1>8. Apart(IncidentDetailPage)
  BY OnScreen DEF IncidentDetailPage, IncidentActions, CommentForm
<1>9. Apart(MaintenanceWindowsPage)
  BY OnScreen DEF MaintenanceWindowsPage, CreateWindowDialog
<1>10. Apart(AnalyticsPage)
  BY OnScreen DEF AnalyticsPage, AnalyticsReports, MonitoringSection, RegionalSection,
     IncidentsSection, SlaReportSection
<1>11. Apart(BillingPage)
  BY OnScreen DEF BillingPage
<1>12. Apart(StatusPagesPage)
  BY OnScreen DEF StatusPagesPage
<1>13. Apart(NewStatusPage)
  BY OnScreen DEF NewStatusPage
<1>14. Apart(StatusPageDetail(OverviewTab))
  BY OnScreen DEF StatusPageDetail, OverviewTab
<1>15. Apart(StatusPageDetail(ComponentsTab))
  BY OnScreen DEF StatusPageDetail, ComponentsTab
<1>16. Apart(StatusPageDetail(IncidentBoardTab))
  BY OnScreen DEF StatusPageDetail, IncidentBoardTab
<1>17. Apart(StatusPageDetail(SubscribersTab))
  BY OnScreen DEF StatusPageDetail, SubscribersTab
<1>18. Apart(StatusPageDetail(SettingsTab))
  BY OnScreen DEF StatusPageDetail, SettingsTab, PageDomainsSection
<1>19. Apart(AlertChannelsPage)
  BY OnScreen DEF AlertChannelsPage, ChannelModal
<1>20. Apart(EscalationPoliciesPage)
  BY OnScreen DEF EscalationPoliciesPage, PolicyModal
<1>21. Apart(OnCallSchedulesPage)
  BY OnScreen DEF OnCallSchedulesPage, ScheduleModal
<1>22. Apart(OnCallScheduleDetailPage)
  BY OnScreen DEF OnCallScheduleDetailPage, AddOverrideModal
<1>23. Apart(IntegrationsPage)
  BY OnScreen DEF IntegrationsPage, ChatSection, WebhookSection
<1>24. Apart(MembersPage)
  BY OnScreen DEF MembersPage
<1>25. Apart(ApiKeysPage)
  BY OnScreen DEF ApiKeysPage
<1>26. Apart(AuditLogsPage)
  BY OnScreen DEF AuditLogsPage
<1>27. Apart(CustomDomainsPage)
  BY OnScreen DEF CustomDomainsPage
<1>28. Apart(OrganizationSettingsPage)
  BY OnScreen DEF OrganizationSettingsPage
<1>29. QED
  BY ONLY <1>2, <1>3, <1>4, <1>5, <1>6, <1>7, <1>8, <1>9, <1>10, <1>11, <1>12, <1>13, <1>14,
          <1>15, <1>16, <1>17, <1>18, <1>19, <1>20, <1>21, <1>22, <1>23, <1>24, <1>25, <1>26,
          <1>27, <1>28
     DEF Pages

-----------------------------------------------------------------------------
(* The tables are whole: every key is a sequence, every hook and query has *)
(* its endpoint, every control its hook.                                   *)

\* Every key is a sequence of words, and not the empty one.
Words ==
  {"6", "alert-channels", "analytics", "api-keys", "audit-logs", "billing", "check-results",
   "components", "custom-domains", "detail", "discord", "escalation-policies", "id",
   "incidents", "integration-deliveries", "integrations", "invitations", "invoices", "list",
   "maintenance-windows", "members", "monitor", "monitors", "on-call", "oncall-schedules",
   "overrides", "overview", "plans", "regions", "settings", "sla", "slack", "status-pages",
   "subscribers", "summary", "timeseries", "webhooks"}

\* Every key of a query is a sequence of words, and not the empty one.
LEMMA KeysAreSequences == \A k \in QueryRows : k.key \in Seq(Words) /\ k.key # <<>>
<1> DEFINE Keyed == Seq(Words) \ {<<>>}
<1>1. "6" \in Words /\ "alert-channels" \in Words /\ "analytics" \in Words /\ "api-keys" \in
      Words /\ "audit-logs" \in Words /\ "billing" \in Words /\ "check-results" \in Words /\
      "components" \in Words /\ "custom-domains" \in Words /\ "detail" \in Words /\ "discord"
      \in Words /\ "escalation-policies" \in Words /\ "id" \in Words /\ "incidents" \in Words /\
      "integration-deliveries" \in Words /\ "integrations" \in Words /\ "invitations" \in Words
      /\ "invoices" \in Words /\ "list" \in Words /\ "maintenance-windows" \in Words /\
      "members" \in Words /\ "monitor" \in Words /\ "monitors" \in Words /\ "on-call" \in Words
      /\ "oncall-schedules" \in Words /\ "overrides" \in Words /\ "overview" \in Words /\
      "plans" \in Words /\ "regions" \in Words /\ "settings" \in Words /\ "sla" \in Words /\
      "slack" \in Words /\ "status-pages" \in Words /\ "subscribers" \in Words /\ "summary" \in
      Words /\ "timeseries" \in Words /\ "webhooks" \in Words
  BY DEF Words
<1>0. \A a, b, c \in Words : <<a>> \in Keyed /\ <<a, b>> \in Keyed /\ <<a, b, c>> \in Keyed
  OBVIOUS
<1> HIDE DEF Keyed
<1> USE DEF Query, MonitorKeys, IncidentDetailKey, OnCallKeys, StatusPageKeys
<1>2. SUFFICES ASSUME NEW k \in QueryRows PROVE k.key \in Keyed
  BY DEF Keyed
<1>3. CASE k \in MonitorQueries
  <2>1. /\ <<"monitors">> \in Keyed
        /\ <<"monitors", "id">> \in Keyed
        /\ <<"monitors", "id", "check-results">> \in Keyed
        /\ <<"monitors", "id", "maintenance-windows">> \in Keyed
        /\ <<"monitors", "id", "incidents">> \in Keyed
    BY <1>0, <1>1
  <2>2. QED
    BY <1>3, <2>1 DEF MonitorQueries
<1>4. CASE k \in IncidentQueries
  <2>1. /\ <<"incidents", "list">> \in Keyed
        /\ <<"incidents", "summary">> \in Keyed
        /\ <<"incidents", "detail", "id">> \in Keyed
    BY <1>0, <1>1
  <2>2. QED
    BY <1>4, <2>1 DEF IncidentQueries
<1>5. CASE k \in WindowQueries
  <2>1. /\ <<"maintenance-windows">> \in Keyed
    BY <1>0, <1>1
  <2>2. QED
    BY <1>5, <2>1 DEF WindowQueries
<1>6. CASE k \in ChannelQueries
  <2>1. /\ <<"alert-channels", "list">> \in Keyed
        /\ <<"alert-channels", "detail", "id">> \in Keyed
        /\ <<"alert-channels">> \in Keyed
    BY <1>0, <1>1
  <2>2. QED
    BY <1>6, <2>1 DEF ChannelQueries
<1>7. CASE k \in PolicyQueries
  <2>1. /\ <<"escalation-policies", "list">> \in Keyed
        /\ <<"escalation-policies", "detail", "id">> \in Keyed
        /\ <<"escalation-policies">> \in Keyed
    BY <1>0, <1>1
  <2>2. QED
    BY <1>7, <2>1 DEF PolicyQueries
<1>8. CASE k \in OnCallQueries
  <2>1. /\ <<"oncall-schedules", "list">> \in Keyed
        /\ <<"oncall-schedules", "detail", "id">> \in Keyed
        /\ <<"oncall-schedules", "on-call", "id">> \in Keyed
        /\ <<"oncall-schedules", "overrides", "id">> \in Keyed
    BY <1>0, <1>1
  <2>2. QED
    BY <1>8, <2>1 DEF OnCallQueries
<1>9. CASE k \in IntegrationQueries
  <2>1. /\ <<"integrations", "slack">> \in Keyed
        /\ <<"integrations", "discord">> \in Keyed
        /\ <<"integrations", "webhooks">> \in Keyed
        /\ <<"integration-deliveries">> \in Keyed
    BY <1>0, <1>1
  <2>2. QED
    BY <1>9, <2>1 DEF IntegrationQueries
<1>10. CASE k \in StatusPageQueries
  <2>1. /\ <<"status-pages">> \in Keyed
        /\ <<"status-pages", "id">> \in Keyed
        /\ <<"status-pages", "id", "components">> \in Keyed
        /\ <<"status-pages", "id", "incidents">> \in Keyed
        /\ <<"status-pages", "id", "subscribers">> \in Keyed
    BY <1>0, <1>1
  <2>2. QED
    BY <1>10, <2>1 DEF StatusPageQueries
<1>11. CASE k \in DomainQueries
  <2>1. /\ <<"custom-domains">> \in Keyed
    BY <1>0, <1>1
  <2>2. QED
    BY <1>11, <2>1 DEF DomainQueries
<1>12. CASE k \in AnalyticsQueries
  <2>1. /\ <<"analytics", "summary">> \in Keyed
        /\ <<"analytics", "timeseries">> \in Keyed
        /\ <<"analytics", "regions">> \in Keyed
        /\ <<"analytics", "incidents">> \in Keyed
        /\ <<"analytics", "sla">> \in Keyed
        /\ <<"analytics", "monitor", "id">> \in Keyed
    BY <1>0, <1>1
  <2>2. QED
    BY <1>12, <2>1 DEF AnalyticsQueries
<1>13. CASE k \in BillingQueries
  <2>1. /\ <<"billing", "summary">> \in Keyed
        /\ <<"billing", "plans">> \in Keyed
        /\ <<"billing", "invoices">> \in Keyed
    BY <1>0, <1>1
  <2>2. QED
    BY <1>13, <2>1 DEF BillingQueries
<1>14. CASE k \in ApiKeyQueries
  <2>1. /\ <<"api-keys">> \in Keyed
    BY <1>0, <1>1
  <2>2. QED
    BY <1>14, <2>1 DEF ApiKeyQueries
<1>15. CASE k \in AuditLogQueries
  <2>1. /\ <<"audit-logs", "list">> \in Keyed
        /\ <<"audit-logs", "6">> \in Keyed
    BY <1>0, <1>1
  <2>2. QED
    BY <1>15, <2>1 DEF AuditLogQueries
<1>16. CASE k \in SettingsQueries
  <2>1. /\ <<"settings">> \in Keyed
    BY <1>0, <1>1
  <2>2. QED
    BY <1>16, <2>1 DEF SettingsQueries
<1>17. CASE k \in OrganizationQueries
  <2>1. /\ <<"overview">> \in Keyed
        /\ <<"members">> \in Keyed
        /\ <<"invitations">> \in Keyed
    BY <1>0, <1>1
  <2>2. QED
    BY <1>17, <2>1 DEF OrganizationQueries
<1>18. QED
  BY <1>3, <1>4, <1>5, <1>6, <1>7, <1>8, <1>9, <1>10, <1>11, <1>12, <1>13, <1>14, <1>15, <1>16,
     <1>17 DEF QueryRows

\* A hook fetches again what it guesses.
LEMMA GuessesAreFetched == \A h \in Hooks : h.optimistic \subseteq h.invalidates
<1> USE DEF Mutation, Mutations, Setting, Optimistic
<1>1. SUFFICES ASSUME NEW h \in Hooks PROVE h.optimistic \subseteq h.invalidates
  OBVIOUS
<1>2. CASE h \in UseCreateMonitor
  BY <1>2 DEF UseCreateMonitor
<1>3. CASE h \in UseUpdateMonitor
  BY <1>3 DEF UseUpdateMonitor
<1>4. CASE h \in UseDeleteMonitor
  BY <1>4 DEF UseDeleteMonitor
<1>5. CASE h \in UseToggleMonitorState
  BY <1>5 DEF UseToggleMonitorState
<1>6. CASE h \in UseSetMonitorChannels
  BY <1>6 DEF UseSetMonitorChannels
<1>7. CASE h \in UseAcknowledgeIncident
  BY <1>7 DEF UseAcknowledgeIncident
<1>8. CASE h \in UseResolveIncident
  BY <1>8 DEF UseResolveIncident
<1>9. CASE h \in UseCommentIncident
  BY <1>9 DEF UseCommentIncident
<1>10. CASE h \in WindowMutations
  BY <1>10 DEF WindowMutations
<1>11. CASE h \in ChannelMutations
  BY <1>11 DEF ChannelMutations
<1>12. CASE h \in PolicyMutations
  BY <1>12 DEF PolicyMutations
<1>13. CASE h \in ScheduleMutations
  BY <1>13 DEF ScheduleMutations
<1>14. CASE h \in OverrideMutations
  BY <1>14 DEF OverrideMutations
<1>15. CASE h \in IntegrationMutations
  BY <1>15 DEF IntegrationMutations
<1>16. CASE h \in UseCreateStatusPage
  BY <1>16 DEF UseCreateStatusPage
<1>17. CASE h \in UseUpdateStatusPage
  BY <1>17 DEF UseUpdateStatusPage
<1>18. CASE h \in UseDeleteStatusPage
  BY <1>18 DEF UseDeleteStatusPage
<1>19. CASE h \in UseCreateComponent
  BY <1>19 DEF UseCreateComponent
<1>20. CASE h \in UseUpdateComponent
  BY <1>20 DEF UseUpdateComponent
<1>21. CASE h \in UseDeleteComponent
  BY <1>21 DEF UseDeleteComponent
<1>22. CASE h \in UseReorderComponents
  BY <1>22 DEF UseReorderComponents
<1>23. CASE h \in UseOpenIncident
  BY <1>23 DEF UseOpenIncident
<1>24. CASE h \in UseAddIncidentUpdate
  BY <1>24 DEF UseAddIncidentUpdate
<1>25. CASE h \in DomainMutations
  BY <1>25 DEF DomainMutations
<1>26. CASE h \in BillingMutations
  BY <1>26 DEF BillingMutations
<1>27. CASE h \in ApiKeyMutations
  BY <1>27 DEF ApiKeyMutations
<1>28. CASE h \in UseUpdateOrgSettings
  BY <1>28 DEF UseUpdateOrgSettings
<1>29. CASE h \in MemberMutations
  BY <1>29 DEF MemberMutations
<1>30. QED
  BY <1>2, <1>3, <1>4, <1>5, <1>6, <1>7, <1>8, <1>9, <1>10, <1>11, <1>12, <1>13, <1>14, <1>15,
     <1>16, <1>17, <1>18, <1>19, <1>20, <1>21, <1>22, <1>23, <1>24, <1>25, <1>26, <1>27, <1>28,
     <1>29 DEF Hooks

\* Every hook, and every query, has its endpoint.
RouteNames == {e.name : e \in Routes}

\* The endpoints of a router are endpoints.
LEMMA RoutersNamed ==
  /\ {e.name : e \in MonitorsRouter} \subseteq RouteNames
  /\ {e.name : e \in IncidentsRouter} \subseteq RouteNames
  /\ {e.name : e \in MaintenanceWindowsRouter} \subseteq RouteNames
  /\ {e.name : e \in AlertChannelsRouter} \subseteq RouteNames
  /\ {e.name : e \in EscalationPoliciesRouter} \subseteq RouteNames
  /\ {e.name : e \in OnCallSchedulesRouter} \subseteq RouteNames
  /\ {e.name : e \in IntegrationsRouter} \subseteq RouteNames
  /\ {e.name : e \in WebhookIntegrationRouter} \subseteq RouteNames
  /\ {e.name : e \in IntegrationDeliveriesRouter} \subseteq RouteNames
  /\ {e.name : e \in StatusPagesRouter} \subseteq RouteNames
  /\ {e.name : e \in StatusPageContentRouter} \subseteq RouteNames
  /\ {e.name : e \in CustomDomainsRouter} \subseteq RouteNames
  /\ {e.name : e \in AnalyticsRouter} \subseteq RouteNames
  /\ {e.name : e \in BillingRouter} \subseteq RouteNames
  /\ {e.name : e \in ApiKeysRouter} \subseteq RouteNames
  /\ {e.name : e \in OrganizationSettingsRouter} \subseteq RouteNames
  /\ {e.name : e \in OrganizationsRouter} \subseteq RouteNames
  /\ {e.name : e \in AuthOrganizationEndpoints} \subseteq RouteNames
<1>1. /\ MonitorsRouter \subseteq Routes
      /\ IncidentsRouter \subseteq Routes
      /\ MaintenanceWindowsRouter \subseteq Routes
      /\ AlertChannelsRouter \subseteq Routes
      /\ EscalationPoliciesRouter \subseteq Routes
      /\ OnCallSchedulesRouter \subseteq Routes
      /\ IntegrationsRouter \subseteq Routes
      /\ WebhookIntegrationRouter \subseteq Routes
      /\ IntegrationDeliveriesRouter \subseteq Routes
      /\ StatusPagesRouter \subseteq Routes
      /\ StatusPageContentRouter \subseteq Routes
      /\ CustomDomainsRouter \subseteq Routes
      /\ AnalyticsRouter \subseteq Routes
      /\ BillingRouter \subseteq Routes
      /\ ApiKeysRouter \subseteq Routes
      /\ OrganizationSettingsRouter \subseteq Routes
      /\ OrganizationsRouter \subseteq Routes
      /\ AuthOrganizationEndpoints \subseteq Routes
  BY DEF Routes
<1>2. QED
  BY <1>1 DEF RouteNames

\* Every mutation hook calls an endpoint that a router serves.
LEMMA EveryHookHasRoute == \A h \in Hooks : h.name \in RouteNames
<1> USE RoutersNamed DEF Mutation, Mutations, Setting, Optimistic, Read, Write
<1>1. SUFFICES ASSUME NEW h \in Hooks PROVE h.name \in RouteNames
  OBVIOUS
<1>2. CASE h \in UseCreateMonitor
  BY <1>2 DEF UseCreateMonitor, MonitorsRouter
<1>3. CASE h \in UseUpdateMonitor
  BY <1>3 DEF UseUpdateMonitor, MonitorsRouter
<1>4. CASE h \in UseDeleteMonitor
  BY <1>4 DEF UseDeleteMonitor, MonitorsRouter
<1>5. CASE h \in UseToggleMonitorState
  BY <1>5 DEF UseToggleMonitorState, MonitorsRouter
<1>6. CASE h \in UseSetMonitorChannels
  BY <1>6 DEF UseSetMonitorChannels, MonitorsRouter
<1>7. CASE h \in UseAcknowledgeIncident
  BY <1>7 DEF UseAcknowledgeIncident, IncidentsRouter
<1>8. CASE h \in UseResolveIncident
  BY <1>8 DEF UseResolveIncident, IncidentsRouter
<1>9. CASE h \in UseCommentIncident
  BY <1>9 DEF UseCommentIncident, IncidentsRouter
<1>10. CASE h \in WindowMutations
  BY <1>10 DEF WindowMutations, MaintenanceWindowsRouter
<1>11. CASE h \in ChannelMutations
  BY <1>11 DEF ChannelMutations, AlertChannelsRouter
<1>12. CASE h \in PolicyMutations
  BY <1>12 DEF PolicyMutations, EscalationPoliciesRouter
<1>13. CASE h \in ScheduleMutations
  BY <1>13 DEF ScheduleMutations, OnCallSchedulesRouter
<1>14. CASE h \in OverrideMutations
  BY <1>14 DEF OverrideMutations, OnCallSchedulesRouter
<1>15. CASE h \in IntegrationMutations
  BY <1>15 DEF IntegrationMutations, IntegrationsRouter, WebhookIntegrationRouter
<1>16. CASE h \in UseCreateStatusPage
  BY <1>16 DEF UseCreateStatusPage, StatusPagesRouter
<1>17. CASE h \in UseUpdateStatusPage
  BY <1>17 DEF UseUpdateStatusPage, StatusPagesRouter
<1>18. CASE h \in UseDeleteStatusPage
  BY <1>18 DEF UseDeleteStatusPage, StatusPagesRouter
<1>19. CASE h \in UseCreateComponent
  BY <1>19 DEF UseCreateComponent, StatusPageContentRouter
<1>20. CASE h \in UseUpdateComponent
  BY <1>20 DEF UseUpdateComponent, StatusPageContentRouter
<1>21. CASE h \in UseDeleteComponent
  BY <1>21 DEF UseDeleteComponent, StatusPageContentRouter
<1>22. CASE h \in UseReorderComponents
  BY <1>22 DEF UseReorderComponents, StatusPageContentRouter
<1>23. CASE h \in UseOpenIncident
  BY <1>23 DEF UseOpenIncident, StatusPageContentRouter
<1>24. CASE h \in UseAddIncidentUpdate
  BY <1>24 DEF UseAddIncidentUpdate, StatusPageContentRouter
<1>25. CASE h \in DomainMutations
  BY <1>25 DEF DomainMutations, CustomDomainsRouter
<1>26. CASE h \in BillingMutations
  BY <1>26 DEF BillingMutations, BillingRouter
<1>27. CASE h \in ApiKeyMutations
  BY <1>27 DEF ApiKeyMutations, ApiKeysRouter
<1>28. CASE h \in UseUpdateOrgSettings
  BY <1>28 DEF UseUpdateOrgSettings, OrganizationSettingsRouter
<1>29. CASE h \in MemberMutations
  BY <1>29 DEF MemberMutations, AuthOrganizationEndpoints
<1>30. QED
  BY <1>2, <1>3, <1>4, <1>5, <1>6, <1>7, <1>8, <1>9, <1>10, <1>11, <1>12, <1>13, <1>14, <1>15,
     <1>16, <1>17, <1>18, <1>19, <1>20, <1>21, <1>22, <1>23, <1>24, <1>25, <1>26, <1>27, <1>28,
     <1>29 DEF Hooks

\* Every query reads an endpoint that a router serves.
LEMMA EveryQueryHasRoute == \A q \in QueriesNamed : EndpointOf(q) \in RouteNames
<1> USE RoutersNamed DEF Query, EndpointOf, Read, Write
<1>1. SUFFICES ASSUME NEW k \in QueryRows PROVE EndpointOf(k.name) \in RouteNames
  BY DEF QueriesNamed
<1>2. CASE k \in MonitorQueries
  BY <1>2 DEF MonitorQueries, MonitorsRouter
<1>3. CASE k \in IncidentQueries
  BY <1>3 DEF IncidentQueries, IncidentsRouter
<1>4. CASE k \in WindowQueries
  BY <1>4 DEF WindowQueries, MaintenanceWindowsRouter
<1>5. CASE k \in ChannelQueries
  BY <1>5 DEF ChannelQueries, AlertChannelsRouter
<1>6. CASE k \in PolicyQueries
  BY <1>6 DEF PolicyQueries, EscalationPoliciesRouter
<1>7. CASE k \in OnCallQueries
  BY <1>7 DEF OnCallQueries, OnCallSchedulesRouter
<1>8. CASE k \in IntegrationQueries
  BY <1>8 DEF IntegrationQueries, IntegrationsRouter, WebhookIntegrationRouter,
      IntegrationDeliveriesRouter
<1>9. CASE k \in StatusPageQueries
  BY <1>9 DEF StatusPageQueries, StatusPagesRouter, StatusPageContentRouter
<1>10. CASE k \in DomainQueries
  BY <1>10 DEF DomainQueries, CustomDomainsRouter
<1>11. CASE k \in AnalyticsQueries
  BY <1>11 DEF AnalyticsQueries, AnalyticsRouter
<1>12. CASE k \in BillingQueries
  BY <1>12 DEF BillingQueries, BillingRouter
<1>13. CASE k \in ApiKeyQueries
  BY <1>13 DEF ApiKeyQueries, ApiKeysRouter
<1>14. CASE k \in AuditLogQueries
  BY <1>14 DEF AuditLogQueries, OrganizationsRouter
<1>15. CASE k \in SettingsQueries
  BY <1>15 DEF SettingsQueries, OrganizationSettingsRouter
<1>16. CASE k \in OrganizationQueries
  BY <1>16 DEF OrganizationQueries, OrganizationsRouter
<1>17. QED
  BY <1>2, <1>3, <1>4, <1>5, <1>6, <1>7, <1>8, <1>9, <1>10, <1>11, <1>12, <1>13, <1>14, <1>15,
     <1>16 DEF QueryRows

\* Every control of a screen has its hook.
HookNames == {h.name : h \in Hooks}

HookNamed(S) == {h.name : h \in S}

\* Setting and Optimistic change what a hook does to the cache, never its name.
LEMMA NamesOfMutations ==
  ASSUME NEW N, NEW inv, NEW keys
  PROVE  /\ HookNamed(Mutations(N, inv)) = N
         /\ HookNamed(Setting(Mutations(N, inv), keys)) = N
         /\ HookNamed(Optimistic(Mutations(N, inv), keys)) = N
<1> DEFINE made(n) == [name |-> n, invalidates |-> inv, sets |-> {}, optimistic |-> {}]
<1>1. \A n : /\ made(n).name = n
             /\ [made(n) EXCEPT !.sets = keys].name = n
             /\ [made(n) EXCEPT !.optimistic = keys].name = n
  OBVIOUS
<1>2. Mutations(N, inv) = {made(n) : n \in N}
  BY DEF Mutations
<1> HIDE DEF made
<1>3. /\ Setting(Mutations(N, inv), keys) = {[made(n) EXCEPT !.sets = keys] : n \in N}
      /\ Optimistic(Mutations(N, inv), keys) = {[made(n) EXCEPT !.optimistic = keys] : n \in N}
  BY <1>2 DEF Setting, Optimistic
<1>4. /\ HookNamed({made(n) : n \in N}) = N
      /\ HookNamed({[made(n) EXCEPT !.sets = keys] : n \in N}) = N
      /\ HookNamed({[made(n) EXCEPT !.optimistic = keys] : n \in N}) = N
  BY <1>1 DEF HookNamed
<1>5. QED
  BY <1>2, <1>3, <1>4

\* The hooks of the tables, by their names.
LEMMA NamesOfHooks ==
  /\ {"createMonitor"} \subseteq HookNames
  /\ {"updateMonitor"} \subseteq HookNames
  /\ {"deleteMonitor"} \subseteq HookNames
  /\ {"pauseMonitor", "resumeMonitor"} \subseteq HookNames
  /\ {"setChannels"} \subseteq HookNames
  /\ {"acknowledge"} \subseteq HookNames
  /\ {"resolve"} \subseteq HookNames
  /\ {"comment"} \subseteq HookNames
  /\ {"createWindow", "deleteWindow"} \subseteq HookNames
  /\ {"createChannel", "updateChannel", "deleteChannel", "enableChannel", "disableChannel",
      "testChannel"} \subseteq HookNames
  /\ {"createPolicy", "updatePolicy", "deletePolicy"} \subseteq HookNames
  /\ {"createSchedule", "updateSchedule", "deleteSchedule"} \subseteq HookNames
  /\ {"addOverride", "removeOverride"} \subseteq HookNames
  /\ {"createIntegration", "deleteIntegration", "testIntegration", "createWebhook",
      "deleteWebhook", "testWebhook"} \subseteq HookNames
  /\ {"createPage"} \subseteq HookNames
  /\ {"updatePage"} \subseteq HookNames
  /\ {"deletePage"} \subseteq HookNames
  /\ {"createComponent"} \subseteq HookNames
  /\ {"updateComponent"} \subseteq HookNames
  /\ {"deleteComponent"} \subseteq HookNames
  /\ {"reorderComponents"} \subseteq HookNames
  /\ {"openIncident"} \subseteq HookNames
  /\ {"addIncidentUpdate"} \subseteq HookNames
  /\ {"addDomain", "verifyDomain", "removeDomain"} \subseteq HookNames
  /\ {"changePlan", "cancelSubscription", "startCheckout", "openPortal"} \subseteq HookNames
  /\ {"createKey", "revokeKey"} \subseteq HookNames
  /\ {"updateSettings"} \subseteq HookNames
  /\ {"inviteMember", "cancelInvitation", "updateMemberRole", "removeMember"} \subseteq HookNames
<1>1. \A N, inv, keys : /\ HookNamed(Mutations(N, inv)) = N
                        /\ HookNamed(Setting(Mutations(N, inv), keys)) = N
                        /\ HookNamed(Optimistic(Mutations(N, inv), keys)) = N
  BY NamesOfMutations
<1>2. \A S : S \subseteq Hooks => HookNamed(S) \subseteq HookNames
  BY DEF HookNamed, HookNames
<1>3. /\ UseCreateMonitor \subseteq Hooks
      /\ UseUpdateMonitor \subseteq Hooks
      /\ UseDeleteMonitor \subseteq Hooks
      /\ UseToggleMonitorState \subseteq Hooks
      /\ UseSetMonitorChannels \subseteq Hooks
      /\ UseAcknowledgeIncident \subseteq Hooks
      /\ UseResolveIncident \subseteq Hooks
      /\ UseCommentIncident \subseteq Hooks
      /\ WindowMutations \subseteq Hooks
      /\ ChannelMutations \subseteq Hooks
      /\ PolicyMutations \subseteq Hooks
      /\ ScheduleMutations \subseteq Hooks
      /\ OverrideMutations \subseteq Hooks
      /\ IntegrationMutations \subseteq Hooks
      /\ UseCreateStatusPage \subseteq Hooks
      /\ UseUpdateStatusPage \subseteq Hooks
      /\ UseDeleteStatusPage \subseteq Hooks
      /\ UseCreateComponent \subseteq Hooks
      /\ UseUpdateComponent \subseteq Hooks
      /\ UseDeleteComponent \subseteq Hooks
      /\ UseReorderComponents \subseteq Hooks
      /\ UseOpenIncident \subseteq Hooks
      /\ UseAddIncidentUpdate \subseteq Hooks
      /\ DomainMutations \subseteq Hooks
      /\ BillingMutations \subseteq Hooks
      /\ ApiKeyMutations \subseteq Hooks
      /\ UseUpdateOrgSettings \subseteq Hooks
      /\ MemberMutations \subseteq Hooks
  BY DEF Hooks
<1> USE <1>1, <1>2, <1>3 DEF Mutation
<1>4. {"createMonitor"} \subseteq HookNames
  BY DEF UseCreateMonitor
<1>5. {"updateMonitor"} \subseteq HookNames
  BY DEF UseUpdateMonitor
<1>6. {"deleteMonitor"} \subseteq HookNames
  BY DEF UseDeleteMonitor
<1>7. {"pauseMonitor", "resumeMonitor"} \subseteq HookNames
  BY DEF UseToggleMonitorState
<1>8. {"setChannels"} \subseteq HookNames
  BY DEF UseSetMonitorChannels
<1>9. {"acknowledge"} \subseteq HookNames
  BY DEF UseAcknowledgeIncident
<1>10. {"resolve"} \subseteq HookNames
  BY DEF UseResolveIncident
<1>11. {"comment"} \subseteq HookNames
  BY DEF UseCommentIncident
<1>12. {"createWindow", "deleteWindow"} \subseteq HookNames
  BY DEF WindowMutations
<1>13. {"createChannel", "updateChannel", "deleteChannel", "enableChannel", "disableChannel",
      "testChannel"} \subseteq HookNames
  BY DEF ChannelMutations
<1>14. {"createPolicy", "updatePolicy", "deletePolicy"} \subseteq HookNames
  BY DEF PolicyMutations
<1>15. {"createSchedule", "updateSchedule", "deleteSchedule"} \subseteq HookNames
  BY DEF ScheduleMutations
<1>16. {"addOverride", "removeOverride"} \subseteq HookNames
  BY DEF OverrideMutations
<1>17. {"createIntegration", "deleteIntegration", "testIntegration", "createWebhook",
      "deleteWebhook", "testWebhook"} \subseteq HookNames
  BY DEF IntegrationMutations
<1>18. {"createPage"} \subseteq HookNames
  BY DEF UseCreateStatusPage
<1>19. {"updatePage"} \subseteq HookNames
  BY DEF UseUpdateStatusPage
<1>20. {"deletePage"} \subseteq HookNames
  BY DEF UseDeleteStatusPage
<1>21. {"createComponent"} \subseteq HookNames
  BY DEF UseCreateComponent
<1>22. {"updateComponent"} \subseteq HookNames
  BY DEF UseUpdateComponent
<1>23. {"deleteComponent"} \subseteq HookNames
  BY DEF UseDeleteComponent
<1>24. {"reorderComponents"} \subseteq HookNames
  BY DEF UseReorderComponents
<1>25. {"openIncident"} \subseteq HookNames
  BY DEF UseOpenIncident
<1>26. {"addIncidentUpdate"} \subseteq HookNames
  BY DEF UseAddIncidentUpdate
<1>27. {"addDomain", "verifyDomain", "removeDomain"} \subseteq HookNames
  BY DEF DomainMutations
<1>28. {"changePlan", "cancelSubscription", "startCheckout", "openPortal"} \subseteq HookNames
  BY DEF BillingMutations
<1>29. {"createKey", "revokeKey"} \subseteq HookNames
  BY DEF ApiKeyMutations
<1>30. {"updateSettings"} \subseteq HookNames
  BY DEF UseUpdateOrgSettings
<1>31. {"inviteMember", "cancelInvitation", "updateMemberRole", "removeMember"} \subseteq HookNames
  BY DEF MemberMutations
<1>32. QED
  BY <1>4, <1>5, <1>6, <1>7, <1>8, <1>9, <1>10, <1>11, <1>12, <1>13, <1>14, <1>15, <1>16, <1>17,
     <1>18, <1>19, <1>20, <1>21, <1>22, <1>23, <1>24, <1>25, <1>26, <1>27, <1>28, <1>29, <1>30,
     <1>31

\* Every control of a page calls a hook.
LEMMA EveryControlHasHook == \A p \in DOMAIN Pages : ControlsOn(Pages[p]) \subseteq HookNames
<1> USE OnScreen, NamesOfHooks
<1>1. ControlsOn(DashboardOverviewPage) \subseteq HookNames
  BY DEF DashboardOverviewPage, OnboardingChecklist
<1>2. ControlsOn(MonitorsPage) \subseteq HookNames
  BY DEF MonitorsPage
<1>3. ControlsOn(MonitorDetailPage) \subseteq HookNames
  BY DEF MonitorDetailPage, MonitorAnalytics
<1>4. ControlsOn(NewMonitorPage) \subseteq HookNames
  BY DEF NewMonitorPage
<1>5. ControlsOn(EditMonitorPage) \subseteq HookNames
  BY DEF EditMonitorPage
<1>6. ControlsOn(IncidentsPage) \subseteq HookNames
  BY DEF IncidentsPage, IncidentStatsBar
<1>7. ControlsOn(IncidentDetailPage) \subseteq HookNames
  BY DEF IncidentDetailPage, IncidentActions, CommentForm
<1>8. ControlsOn(MaintenanceWindowsPage) \subseteq HookNames
  BY DEF MaintenanceWindowsPage, CreateWindowDialog
<1>9. ControlsOn(AnalyticsPage) \subseteq HookNames
  BY DEF AnalyticsPage, AnalyticsReports, MonitoringSection, RegionalSection, IncidentsSection,
         SlaReportSection
<1>10. ControlsOn(BillingPage) \subseteq HookNames
  BY DEF BillingPage
<1>11. ControlsOn(StatusPagesPage) \subseteq HookNames
  BY DEF StatusPagesPage
<1>12. ControlsOn(NewStatusPage) \subseteq HookNames
  BY DEF NewStatusPage
<1>13. ControlsOn(StatusPageDetail(OverviewTab)) \subseteq HookNames
  BY DEF StatusPageDetail, OverviewTab
<1>14. ControlsOn(StatusPageDetail(ComponentsTab)) \subseteq HookNames
  BY DEF StatusPageDetail, ComponentsTab
<1>15. ControlsOn(StatusPageDetail(IncidentBoardTab)) \subseteq HookNames
  BY DEF StatusPageDetail, IncidentBoardTab
<1>16. ControlsOn(StatusPageDetail(SubscribersTab)) \subseteq HookNames
  BY DEF StatusPageDetail, SubscribersTab
<1>17. ControlsOn(StatusPageDetail(SettingsTab)) \subseteq HookNames
  BY DEF StatusPageDetail, SettingsTab, PageDomainsSection
<1>18. ControlsOn(AlertChannelsPage) \subseteq HookNames
  BY DEF AlertChannelsPage, ChannelModal
<1>19. ControlsOn(EscalationPoliciesPage) \subseteq HookNames
  BY DEF EscalationPoliciesPage, PolicyModal
<1>20. ControlsOn(OnCallSchedulesPage) \subseteq HookNames
  BY DEF OnCallSchedulesPage, ScheduleModal
<1>21. ControlsOn(OnCallScheduleDetailPage) \subseteq HookNames
  BY DEF OnCallScheduleDetailPage, AddOverrideModal
<1>22. ControlsOn(IntegrationsPage) \subseteq HookNames
  BY DEF IntegrationsPage, ChatSection, WebhookSection
<1>23. ControlsOn(MembersPage) \subseteq HookNames
  BY DEF MembersPage
<1>24. ControlsOn(ApiKeysPage) \subseteq HookNames
  BY DEF ApiKeysPage
<1>25. ControlsOn(AuditLogsPage) \subseteq HookNames
  BY DEF AuditLogsPage
<1>26. ControlsOn(CustomDomainsPage) \subseteq HookNames
  BY DEF CustomDomainsPage
<1>27. ControlsOn(OrganizationSettingsPage) \subseteq HookNames
  BY DEF OrganizationSettingsPage
<1>28. QED
  BY <1>1, <1>2, <1>3, <1>4, <1>5, <1>6, <1>7, <1>8, <1>9, <1>10, <1>11, <1>12, <1>13, <1>14,
     <1>15, <1>16, <1>17, <1>18, <1>19, <1>20, <1>21, <1>22, <1>23, <1>24, <1>25, <1>26, <1>27
           DEF Pages

-----------------------------------------------------------------------------
(* What the tables mean for the one query that is followed.                *)

\* A key invalidates itself and what is below it.
LEMMA ReachesBelow ==
  ASSUME NEW S, NEW k \in Seq(S), k # <<>>
  PROVE  Reaches(k, k) /\ Reaches(<<>>, k) /\ Reaches(<<k[1]>>, k)
<1>1. Len(k) \in Nat \ {0} /\ SubSeq(k, 1, Len(k)) = k
  OBVIOUS
<1>2. SubSeq(k, 1, 1) = <<k[1]>>
  <2>1. SubSeq(k, 1, 1) = [i \in 1 .. 1 |-> k[i]]
    BY <1>1
  <2>2. <<k[1]>> = [i \in 1 .. 1 |-> k[i]]
    OBVIOUS
  <2>3. QED
    BY <2>1, <2>2
<1>3. Reaches(<<k[1]>>, k)
  BY <1>1, <1>2 DEF Reaches
<1>4. QED
  BY <1>1, <1>3 DEF Reaches

\* The tables, as they are looked up.
LEMMA Tables ==
  /\ DOMAIN MutationHooks = HookNames
  /\ \A m \in HookNames : MutationHooks[m] \in Hooks /\ MutationHooks[m].name = m
  /\ \A n \in RouteNames : Endpoints[n] \in Routes /\ Endpoints[n].name = n
  /\ \A q \in QueriesNamed : \E k \in QueryRows : k.name = q /\ k.key = QueryKeys[q]
<1>1. \A m \in HookNames : MutationHooks[m] \in Hooks /\ MutationHooks[m].name = m
  <2>1. SUFFICES ASSUME NEW m \in HookNames
                 PROVE  MutationHooks[m] \in Hooks /\ MutationHooks[m].name = m
    OBVIOUS
  <2>2. MutationHooks[m] = CHOOSE h \in Hooks : h.name = m
    BY DEF MutationHooks, HookNames
  <2>3. \E h \in Hooks : h.name = m
    BY DEF HookNames
  <2>4. QED
    BY <2>2, <2>3
<1>2. \A n \in RouteNames : Endpoints[n] \in Routes /\ Endpoints[n].name = n
  <2>1. SUFFICES ASSUME NEW n \in RouteNames
                 PROVE  Endpoints[n] \in Routes /\ Endpoints[n].name = n
    OBVIOUS
  <2>2. Endpoints[n] = CHOOSE r \in Routes : r.name = n
    BY DEF Endpoints, RouteNames
  <2>3. \E r \in Routes : r.name = n
    BY DEF RouteNames
  <2>4. QED
    BY <2>2, <2>3
<1>3. \A q \in QueriesNamed : \E k \in QueryRows : k.name = q /\ k.key = QueryKeys[q]
  <2>1. SUFFICES ASSUME NEW q \in QueriesNamed
                 PROVE  \E k \in QueryRows : k.name = q /\ k.key = QueryKeys[q]
    OBVIOUS
  <2>2. QueryKeys[q] = (CHOOSE r \in QueryRows : r.name = q).key
    BY DEF QueryKeys
  <2>3. \E r \in QueryRows : r.name = q
    BY DEF QueriesNamed
  <2>4. QED
    BY <2>2, <2>3
<1>4. DOMAIN MutationHooks = HookNames
  BY DEF MutationHooks, HookNames
<1>5. QED
  BY <1>1, <1>2, <1>3, <1>4

\* A change that a screen offers beside the query it changes is fetched again, or its answer shown.
LEMMA Kept ==
  ASSUME NEW m \in HookNames, NEW q \in QueriesNamed,
         q \in Together[m], <<m, q>> \notin NotRefreshed,
         Endpoints[m].affects \intersect Shows(q) # {}
  PROVE  \/ QueryKeys[q] \in MutationHooks[m].sets
         \/ \E k \in MutationHooks[m].invalidates : Reaches(k, QueryKeys[q])
<1>1. PICK p \in DOMAIN Pages :
        m \in ControlsOn(Pages[p]) /\ q \in QueriesOn(DashboardLayout(Pages[p]))
  BY Tables DEF Together, ControlsOn, QueriesOn, Named
<1>2. ~Elsewhere(m, q)
  BY <1>1, NeverBeside DEF Apart
<1>3. PICK k \in QueryRows : k.name = q /\ k.key = QueryKeys[q]
  BY Tables
<1>4. /\ MutationHooks[m] \in Hooks /\ MutationHooks[m].name = m
      /\ Endpoints[m] \in Routes /\ Endpoints[m].name = m
  BY Tables, EveryHookHasRoute
<1>5. /\ Endpoints[EndpointOf(q)] \in Routes /\ Endpoints[EndpointOf(q)].name = EndpointOf(q)
      /\ Shows(q) = Endpoints[EndpointOf(q)].shows
  BY Tables, EveryQueryHasRoute DEF Shows
<1>6. Refreshes(MutationHooks[m], k)
  BY <1>2, <1>3, <1>4, <1>5, HooksRefresh
<1>7. k.key \in Seq(Words) /\ k.key # <<>>
  BY KeysAreSequences
<1>8. Reaches(k.key, k.key) /\ Reaches(<<>>, k.key) /\ Reaches(<<k.key[1]>>, k.key)
  BY <1>7, ReachesBelow
<1>9. QED
  BY <1>3, <1>6, <1>8 DEF Refreshes

\* An optimistic hook fetches again the entry it guesses.
LEMMA GuessReached ==
  ASSUME NEW m \in HookNames, NEW q \in QueriesNamed, QueryKeys[q] \in MutationHooks[m].optimistic
  PROVE  \E k \in MutationHooks[m].invalidates : Reaches(k, QueryKeys[q])
<1>1. QueryKeys[q] \in MutationHooks[m].invalidates
  BY Tables, GuessesAreFetched
<1>2. QueryKeys[q] \in Seq(Words) /\ QueryKeys[q] # <<>>
  BY Tables, KeysAreSequences
<1>3. QED
  BY <1>1, <1>2, ReachesBelow

\* What a screen offers and mounts, to a role that may use it and ask for it.
LEMMA OfferedMay ==
  ASSUME NEW p \in DOMAIN Pages, NEW r \in OrgRoles \union {"none"}
  PROVE  /\ \A m \in OfferedTo[p][r] : m \in HookNames /\ r \in OrgRoles /\ MayUse(r, m)
         /\ \A q \in MountedFor[p][r] : r \in OrgRoles /\ MayAsk(r, q)
<1>1. /\ OfferedTo[p][r] = ControlsFor(r, Pages[p])
      /\ MountedFor[p][r] = QueriesFor(r, DashboardLayout(Pages[p]))
  BY DEF OfferedTo, MountedFor, ControlsFor, QueriesFor, Given
<1>2. ControlsFor(r, Pages[p]) \subseteq ControlsOn(Pages[p])
  BY DEF ControlsFor, ControlsOn, Given, Named
<1>3. ControlsFor(r, Pages[p]) \subseteq ControlsFor(r, DashboardLayout(Pages[p]))
  BY OnScreenFor DEF DashboardLayout
<1>4. ASSUME r \notin OrgRoles PROVE OfferedTo[p][r] = {} /\ MountedFor[p][r] = {}
  <2>1. \A S : Given(r, S) = {}
    BY <1>4 DEF Given, HasPermission
  <2>2. QED
    BY <1>1, <2>1 DEF ControlsFor, QueriesFor
<1>5. ASSUME r \in OrgRoles
      PROVE  /\ \A m \in OfferedTo[p][r] : MayUse(r, m)
             /\ \A q \in MountedFor[p][r] : MayAsk(r, q)
  <2>1. Allowed(r, DashboardLayout(Pages[p]))
    BY <1>5, PagesAllowed
  <2>2. QED
    BY <1>1, <1>3, <2>1 DEF Allowed
<1>6. QED
  BY <1>1, <1>2, <1>4, <1>5, EveryControlHasHook

-----------------------------------------------------------------------------
(* The steps.   That a settled screen is current is not inductive: it says *)
(* nothing of the fetch under way, whose answer the entry will be, of the  *)
(* guess that the server may still refuse, nor of what a refusal falls     *)
(* back on.                                                                *)

Roles == OrgRoles \union {"none"}

Entries == [has : BOOLEAN, seen : Nat, invalid : BOOLEAN, old : BOOLEAN, behind : BOOLEAN]

Fetches ==
  [state : {"asked", "served", "refused"}, seen : Nat, reached : BOOLEAN, by : Roles, as : Roles]

WebRequests ==
  [state : {"sent", "allowed", "refused", "done"}, mutation : HookNames, by : Roles, as : Roles,
   guess : BOOLEAN, previous : Entries]

WebTypeOK ==
  /\ role \in Roles /\ known \in Roles
  /\ page \in DOMAIN Pages /\ watched \in Queries
  /\ version \in Nat /\ told \in Nat
  /\ entry \in Entries
  /\ fetch \in {NoFetch} \union Fetches
  /\ request \in {NoRequest} \union WebRequests

\* A request was offered to the role the browser sent it with, and refused only to a role that may
\* not make it; the same for a fetch.
Offered ==
  /\ request.state # "none" =>
       \E p \in DOMAIN Pages : request.mutation \in OfferedTo[p][request.by]
  /\ request.state = "refused" =>
       ~HasPermission(request.as, {Endpoints[request.mutation].needs})
  /\ fetch.state # "none" => \E p \in DOMAIN Pages : watched \in MountedFor[p][fetch.by]
  /\ fetch.state = "refused" =>
       ~HasPermission(fetch.as, {Endpoints[EndpointOf(watched)].needs})

\* A guess that the server may still answer: it shows the version that the change will have.
Guessing ==
  /\ request.state \in {"sent", "allowed", "refused"}
  /\ request.guess /\ Touches(request.mutation)

\* What is shown, on its way or kept to fall back on is not ahead of the server, but by a guess;
\* what is trusted is not behind what the member was told.
Current ==
  /\ told <= version
  /\ entry.has => entry.behind \/ entry.invalid \/ entry.seen >= told
  /\ entry.seen <= version \/ (Guessing /\ entry.seen <= version + 1)
  /\ fetch.state = "served" => fetch.seen <= version /\ (fetch.reached \/ fetch.seen >= told)
  /\ request.state # "none" /\ request.guess =>
       /\ Key \in Hook(request.mutation).optimistic
       /\ request.previous.seen <= version

WebInv == WebTypeOK /\ Offered /\ Current

\* A browser that has loaded nothing yet shows nothing that is not current.
LEMMA WebInitInv == WebInit => WebInv
<1> SUFFICES ASSUME WebInit PROVE WebInv
  OBVIOUS
<1>1. Screens \subseteq DOMAIN Pages
  BY WebAssumption DEF WebInit, Screens, ScreensOf
<1>2. WebTypeOK
  BY <1>1 DEF WebInit, WebTypeOK, Roles, Empty, Entries
<1>3. Offered
  BY DEF WebInit, Offered, NoFetch, NoRequest
<1>4. Current
  BY DEF WebInit, Current, NoFetch, NoRequest, Empty
<1>5. QED
  BY <1>2, <1>3, <1>4 DEF WebInv

\* What the steps put in the records.
LEMMA WebRecords ==
  ASSUME WebTypeOK
  PROVE  /\ Empty \in Entries
         /\ \A r \in Roles : [Begin EXCEPT !.by = r] \in Fetches
         /\ \A r \in Roles : [Begin EXCEPT !.by = r].by = r
         /\ \A r : [Begin EXCEPT !.by = r].state = "asked"
         /\ Begin \in Fetches /\ Begin.by = known /\ Begin.state = "asked"
         /\ fetch \in Fetches <=> fetch.state # "none"
         /\ fetch = NoFetch <=> fetch.state = "none"
         /\ request \in WebRequests <=> request.state # "none"
         /\ request = NoRequest <=> request.state = "none"
         /\ NoFetch.state = "none" /\ NoRequest.state = "none"
         /\ Screens \subseteq DOMAIN Pages
<1>1. "none" \in Roles
  BY DEF Roles
<1>2. Empty \in Entries
  BY DEF Empty, Entries
<1>3. Begin = [state |-> "asked", seen |-> 0, reached |-> FALSE, by |-> known, as |-> "none"]
  BY DEF Begin
<1>4. Begin \in Fetches
  BY <1>1, <1>3 DEF Fetches, WebTypeOK
<1>5. \A r \in Roles : [Begin EXCEPT !.by = r] \in Fetches
  BY <1>4 DEF Fetches
<1>6. \A r : [Begin EXCEPT !.by = r].by = r /\ [Begin EXCEPT !.by = r].state = "asked"
  BY <1>3
<1>7. NoFetch.state = "none" /\ NoRequest.state = "none"
  BY DEF NoFetch, NoRequest
<1>8. fetch \in Fetches => fetch.state # "none"
  BY DEF Fetches
<1>9. request \in WebRequests => request.state # "none"
  BY DEF WebRequests
<1>10. Screens \subseteq DOMAIN Pages
  BY WebAssumption DEF Screens, ScreensOf, WebTypeOK
<1>11. QED
  BY <1>2, <1>3, <1>4, <1>5, <1>6, <1>7, <1>8, <1>9, <1>10 DEF WebTypeOK

\* An answer leaves no fetch, the fetch that was under way, marked when it may bring what was
\* before the change, or a new one.
Follows ==
  /\ fetch' \in {NoFetch} \union Fetches
  /\ fetch'.state # "none" => \E p \in DOMAIN Pages : watched \in MountedFor[p][fetch'.by]
  /\ fetch'.state = "refused" => ~HasPermission(fetch'.as, {Endpoints[EndpointOf(watched)].needs})
  /\ fetch'.state = "served" => fetch'.seen <= version /\ (fetch'.reached \/ fetch'.seen >= told')

\* A fetch under way may follow an answer once it is marked.
LEMMA MarkedFollows ==
  ASSUME WebInv, fetch.state # "none", fetch' = [fetch EXCEPT !.reached = TRUE]
  PROVE  Follows
<1>1. fetch \in Fetches
  BY WebRecords DEF WebInv
<1>2. /\ fetch' \in Fetches /\ fetch'.reached = TRUE /\ fetch'.state = fetch.state
      /\ fetch'.seen = fetch.seen /\ fetch'.by = fetch.by /\ fetch'.as = fetch.as
  BY <1>1 DEF Fetches
<1>3. QED
  BY <1>2 DEF Follows, WebInv, Offered, Current

\* invalidateQueries leaves the entry, marked, and a fetch that may follow an answer.
LEMMA InvalidatedKeeps ==
  ASSUME WebInv, NEW e \in Entries, Invalidated(e)
  PROVE  /\ entry' \in Entries /\ entry'.seen = e.seen /\ entry'.has = e.has
         /\ entry'.has => entry'.invalid
         /\ Follows
<1>1. entry' = [e EXCEPT !.invalid = e.has]
  BY DEF Invalidated
<1>2. CASE fetch.state # "none" /\ fetch' = [fetch EXCEPT !.reached = TRUE]
  BY <1>1, <1>2, MarkedFollows DEF Entries
<1>3. CASE IsMounted(page, known) /\ fetch' = Begin
  <2>1. Begin \in Fetches /\ Begin.by = known /\ Begin.state = "asked"
    BY WebRecords DEF WebInv
  <2>2. Follows
    BY <1>3, <2>1 DEF WebInv, WebTypeOK, Follows, IsMounted
  <2>3. QED
    BY <1>1, <2>2 DEF Entries
<1>4. CASE fetch' = fetch /\ fetch.state = "none"
  <2>1. Follows
    BY <1>4 DEF WebInv, WebTypeOK, Follows
  <2>2. QED
    BY <1>1, <2>1 DEF Entries
<1>5. QED
  BY <1>1, <1>2, <1>3, <1>4 DEF Invalidated

\* Every step of the browser, of the server and of the other members keeps the invariant.
LEMMA WebStep == WebInv /\ [WebNext]_webVars => WebInv'
<1> SUFFICES ASSUME WebInv, [WebNext]_webVars PROVE WebInv'
  OBVIOUS
<1> USE DEF WebInv
<1>0. UNCHANGED webVars => WebInv'
  BY DEF webVars, WebTypeOK, Offered, Current, Guessing, Touches, Key, Hook, Shows
<1>1. ASSUME NEW p \in Screens, Navigate(p) PROVE WebInv'
  <2>1. WebTypeOK'
    BY <1>1, WebRecords DEF WebTypeOK, Navigate, OnMount
  <2>2. Offered'
    BY <1>1, WebRecords DEF WebTypeOK, Offered, IsMounted, Navigate, OnMount
  <2>3. Current'
    BY <1>1, WebRecords DEF WebTypeOK, Current, Guessing, Touches, Shows, Key, Hook, Navigate,
       OnMount
  <2>4. QED
    BY <2>1, <2>2, <2>3
<1>2. CASE FirstMount
  <2>1. WebTypeOK'
    BY <1>2, WebRecords DEF WebTypeOK, FirstMount
  <2>2. Offered'
    BY <1>2, WebRecords DEF WebTypeOK, Offered, IsMounted, FirstMount
  <2>3. Current'
    BY <1>2, WebRecords DEF WebTypeOK, Current, Guessing, Touches, Shows, Key, Hook, FirstMount
  <2>4. QED
    BY <2>1, <2>2, <2>3
<1>3. CASE Ages
  <2>1. WebTypeOK'
    BY <1>3, WebRecords DEF WebTypeOK, Ages, Entries
  <2>2. Offered'
    BY <1>3, WebRecords DEF WebTypeOK, Offered, IsMounted, Ages
  <2>3. Current'
    BY <1>3, WebRecords DEF WebTypeOK, Current, Guessing, Touches, Shows, Key, Hook, Ages
  <2>4. QED
    BY <2>1, <2>2, <2>3
<1>4. CASE Forget
  <2>1. WebTypeOK'
    BY <1>4, WebRecords DEF WebTypeOK, Forget
  <2>2. Offered'
    BY <1>4, WebRecords DEF WebTypeOK, Offered, IsMounted, Forget
  <2>3. Current'
    BY <1>4, WebRecords DEF WebTypeOK, Current, Guessing, Touches, Shows, Key, Hook, Forget, Empty
  <2>4. QED
    BY <2>1, <2>2, <2>3
<1>5. CASE Poll
  <2>1. WebTypeOK'
    BY <1>5, WebRecords DEF WebTypeOK, Poll
  <2>2. Offered'
    BY <1>5, WebRecords DEF WebTypeOK, Offered, IsMounted, Poll
  <2>3. Current'
    BY <1>5, WebRecords DEF WebTypeOK, Current, Guessing, Touches, Shows, Key, Hook, Poll
  <2>4. QED
    BY <2>1, <2>2, <2>3
<1>6. CASE RefreshMe
  <2>1. WebTypeOK'
    BY <1>6, WebRecords DEF WebTypeOK, RefreshMe, OnMount
  <2>2. Offered'
    BY <1>6, WebRecords DEF WebTypeOK, Offered, IsMounted, RefreshMe, OnMount
  <2>3. Current'
    BY <1>6, WebRecords DEF WebTypeOK, Current, Guessing, Touches, Shows, Key, Hook, RefreshMe,
       OnMount
  <2>4. QED
    BY <2>1, <2>2, <2>3
<1>7. ASSUME NEW m \in OfferedTo[page][known], Mutate(m) PROVE WebInv'
  <2>1. m \in HookNames /\ known \in OrgRoles
    BY OfferedMay DEF WebTypeOK, Roles
  <2>2. request.state = "none" /\ ~Guessing
    BY <1>7 DEF Mutate, Guessing
  <2>3. PICK guess \in BOOLEAN :
          /\ guess => Key \in Hook(m).optimistic
          /\ request' = [state |-> "sent", mutation |-> m, by |-> known, as |-> "none",
                         guess |-> guess /\ entry.has,
                         previous |-> IF guess THEN entry ELSE Empty]
          /\ entry' = IF guess /\ entry.has /\ Touches(m)
                        THEN [entry EXCEPT !.seen = version + 1, !.old = FALSE,
                                           !.invalid = FALSE, !.behind = FALSE]
                        ELSE entry
          /\ fetch' \in {NoFetch, fetch}
          /\ UNCHANGED <<role, known, page, watched, version, told>>
    BY <1>7 DEF Mutate
  <2>4. /\ request'.state = "sent" /\ request'.mutation = m /\ request'.by = known
        /\ request'.guess = (guess /\ entry.has)
        /\ request'.previous \in {entry, Empty}
    BY <2>3
  <2>5. WebTypeOK'
    <3>1. request' \in WebRequests
      <4>1. /\ entry \in Entries /\ Empty \in Entries /\ entry.has \in BOOLEAN
            /\ known \in Roles /\ "none" \in Roles
        BY WebRecords DEF WebTypeOK, Entries, Roles
      <4>2. (guess /\ entry.has) \in BOOLEAN /\ (IF guess THEN entry ELSE Empty) \in Entries
        BY <4>1
      <4>3. QED
        BY <2>1, <2>3, <4>1, <4>2 DEF WebRequests
    <3>2. entry' \in Entries
      <4>1. entry \in Entries /\ version + 1 \in Nat
        BY DEF WebTypeOK
      <4>2. [entry EXCEPT !.seen = version + 1, !.old = FALSE, !.invalid = FALSE, !.behind = FALSE]
              \in Entries
        BY <4>1 DEF Entries
      <4>3. QED
        BY <2>3, <4>1, <4>2
    <3>3. QED
      BY <2>3, <3>1, <3>2 DEF WebTypeOK
  <2>6. Offered'
    BY <2>3, <2>4, WebRecords DEF WebTypeOK, Offered
  <2>7. Current'
    <3>1. /\ Key' = Key /\ \A n : Touches(n)' = Touches(n) /\ Hook(n)' = Hook(n)
      BY <2>3 DEF Key, Touches, Shows, Hook
    <3>2. entry.seen <= version /\ Empty.seen <= version
      BY <2>2 DEF Current, WebTypeOK, Empty
    <3>3. request'.previous.seen <= version
      BY <2>4, <3>2
    <3>4. entry'.seen <= version' \/ (Guessing' /\ entry'.seen <= version' + 1)
      <4>1. CASE guess /\ entry.has /\ Touches(m)
        <5>1. entry'.seen = version + 1
          BY <2>3, <4>1 DEF WebTypeOK, Entries
        <5>2. Guessing'
          BY <2>4, <3>1, <4>1 DEF Guessing
        <5>3. QED
          BY <2>3, <5>1, <5>2 DEF WebTypeOK
      <4>2. CASE ~(guess /\ entry.has /\ Touches(m))
        BY <2>3, <3>2, <4>2
      <4>3. QED
        BY <4>1, <4>2
    <3>5. entry'.has => entry'.behind \/ entry'.invalid \/ entry'.seen >= told'
      BY <2>3 DEF Current, WebTypeOK, Entries
    <3>6. fetch'.state = "served" => fetch'.seen <= version' /\ (fetch'.reached \/ fetch'.seen >=
          told')
      BY <2>3, WebRecords DEF Current
    <3>7. (request.guess => Key \in Hook(request.mutation).optimistic)'
      BY <2>3, <2>4, <3>1 DEF Hook
    <3>8. QED
      BY <2>3, <3>3, <3>4, <3>5, <3>6, <3>7 DEF Current, WebTypeOK
  <2>8. QED
    BY <2>5, <2>6, <2>7
<1>8. ASSUME NEW r \in NewRoles, ChangeRole(r) PROVE WebInv'
  <2>1. WebTypeOK'
    BY <1>8, WebAssumption DEF WebTypeOK, ChangeRole, Roles
  <2>2. Offered'
    BY <1>8, WebRecords DEF WebTypeOK, Offered, IsMounted, ChangeRole
  <2>3. Current'
    BY <1>8, WebRecords DEF WebTypeOK, Current, Guessing, Touches, Shows, Key, Hook, ChangeRole
  <2>4. QED
    BY <2>1, <2>2, <2>3
<1>9. CASE Authorize
  <2>1. WebTypeOK'
    BY <1>9, WebRecords DEF WebTypeOK, Authorize, WebRequests
  <2>2. Offered'
    BY <1>9, WebRecords DEF WebTypeOK, Offered, IsMounted, Authorize
  <2>3. Current'
    BY <1>9, WebRecords DEF WebTypeOK, Current, Guessing, Touches, Shows, Key, Hook, Authorize
  <2>4. QED
    BY <2>1, <2>2, <2>3
<1>10. CASE Handle
  <2>1. WebTypeOK'
    BY <1>10, WebRecords DEF WebTypeOK, Handle, WebRequests, Entries
  <2>2. Offered'
    BY <1>10, WebRecords DEF WebTypeOK, Offered, IsMounted, Handle
  <2>3. Current'
    <3>1. /\ Key' = Key /\ \A n : Touches(n)' = Touches(n) /\ Hook(n)' = Hook(n)
      BY <1>10 DEF Handle, Key, Touches, Shows, Hook
    <3>2. /\ request'.state = "done" /\ request'.mutation = request.mutation
          /\ request'.guess = request.guess /\ request'.previous = request.previous
      BY <1>10, WebRecords DEF Handle, WebRequests
    <3>3. version' \in Nat /\ version' >= version /\ (Touches(request.mutation) => version' =
          version + 1)
      BY <1>10 DEF Handle, WebTypeOK
    <3>4. entry.seen <= version'
      BY <1>10, <3>3 DEF Current, Guessing, WebTypeOK, Entries, Handle
    <3>5. request.guess => request.previous.seen <= version /\ request.previous.seen \in Nat
      BY <1>10, WebRecords DEF Handle, Current, WebRequests, Entries
    <3>6. fetch.state = "served" => fetch.seen <= version'
      BY <3>3, WebRecords DEF Current, WebTypeOK, Fetches
    <3>7. QED
      BY <1>10, <3>1, <3>2, <3>3, <3>4, <3>5, <3>6 DEF Current, Handle, WebTypeOK
  <2>4. QED
    BY <2>1, <2>2, <2>3
<1>11. CASE ServeRead
  <2>1. WebTypeOK'
    BY <1>11, WebRecords DEF WebTypeOK, ServeRead, Fetches, Roles
  <2>2. Offered'
    <3>1. fetch \in Fetches /\ fetch.state = "asked" /\ UNCHANGED <<page, known, watched, request>>
      <4>1. fetch.state = "asked" /\ UNCHANGED <<page, known, watched, request>>
        BY <1>11 DEF ServeRead
      <4>2. QED
        BY <4>1, WebRecords
    <3>2. fetch'.by = fetch.by /\ fetch'.as = role
      BY <1>11, <3>1 DEF ServeRead, Fetches
    <3>3. fetch'.state = "refused" => ~HasPermission(role, {Endpoints[EndpointOf(watched)].needs})
      BY <1>11, <3>1 DEF ServeRead, Fetches
    <3>4. QED
      BY <3>1, <3>2, <3>3 DEF Offered
  <2>3. Current'
    BY <1>11, WebRecords DEF WebTypeOK, Current, Guessing, Touches, Shows, Key, Hook, ServeRead
  <2>4. QED
    BY <2>1, <2>2, <2>3
<1>12. CASE Receive
  <2>1. WebTypeOK'
    BY <1>12, WebRecords DEF WebTypeOK, Receive, Entries, Fetches
  <2>2. Offered'
    BY <1>12, WebRecords DEF WebTypeOK, Offered, IsMounted, Receive
  <2>3. Current'
    BY <1>12, WebRecords DEF WebTypeOK, Current, Guessing, Touches, Shows, Key, Hook, Receive
  <2>4. QED
    BY <2>1, <2>2, <2>3
<1>13. CASE Denied
  <2>1. WebTypeOK'
    BY <1>13, WebRecords DEF WebTypeOK, Denied
  <2>2. Offered'
    BY <1>13, WebRecords DEF WebTypeOK, Offered, IsMounted, Denied
  <2>3. Current'
    BY <1>13, WebRecords DEF WebTypeOK, Current, Guessing, Touches, Shows, Key, Hook, Denied
  <2>4. QED
    BY <2>1, <2>2, <2>3
<1>14. CASE Answered
  <2> DEFINE m == request.mutation
             answer == [has |-> TRUE, seen |-> version, invalid |-> FALSE, old |-> FALSE,
                        behind |-> FALSE]
             e == IF Key \in Hook(m).sets THEN answer ELSE entry
             reached == \E k \in Hook(m).invalidates : Reaches(k, Key)
  <2>1. /\ request \in WebRequests /\ request.state = "done" /\ ~Guessing /\ m \in HookNames
        /\ entry.seen <= version
    BY <1>14, WebRecords DEF Answered, Guessing, Current, WebRequests
  <2>2. /\ UNCHANGED <<role, known, page, watched, version>>
        /\ request' = NoRequest
        /\ told' = IF Promises(m) /\ Touches(m) THEN version ELSE told
    BY <1>14 DEF Answered
  <2>3. told' \in Nat /\ told' <= version /\ told' >= told
    BY <2>2 DEF WebTypeOK, Current
  <2>4. e \in Entries /\ e.seen <= version
    BY <2>1 DEF WebTypeOK, Entries
  <2>5. /\ entry' \in Entries /\ entry'.seen <= version
        /\ entry'.has => entry'.behind \/ entry'.invalid \/ entry'.seen >= told'
        /\ Follows
    <3>1. CASE reached
      <4>1. Invalidated(e)
        BY <1>14, <3>1 DEF Answered
      <4>2. QED
        BY <2>4, <4>1, InvalidatedKeeps
    <3>2. CASE ~reached /\ Key \in Hook(m).sets
      <4>1. /\ entry' = answer
            /\ fetch' = IF fetch.state # "none" THEN [fetch EXCEPT !.reached = TRUE] ELSE fetch
        BY <1>14, <3>2 DEF Answered
      <4>2. /\ entry' \in Entries /\ entry'.seen <= version
            /\ entry'.has => entry'.behind \/ entry'.invalid \/ entry'.seen >= told'
        BY <2>3, <4>1 DEF Entries, WebTypeOK
      <4>3. Follows
        <5>1. CASE fetch.state # "none"
          BY <4>1, <5>1, MarkedFollows
        <5>2. CASE fetch.state = "none"
          BY <4>1, <5>2 DEF Follows, WebTypeOK
        <5>3. QED
          BY <5>1, <5>2
      <4>4. QED
        BY <4>2, <4>3
    <3>3. CASE ~reached /\ Key \notin Hook(m).sets
      <4>1. entry' = entry /\ fetch' = fetch
        BY <1>14, <3>3 DEF Answered
      <4>2. ~(Promises(m) /\ Touches(m))
        BY <2>1, <3>3, Kept, WebAssumption DEF Promises, Touches, Key, Hook, WebTypeOK
      <4>3. told' = told
        BY <2>2, <4>2
      <4>4. Follows
        BY <4>1, <4>3, WebRecords DEF Follows, Offered, WebTypeOK, Current
      <4>5. QED
        BY <2>1, <4>1, <4>3, <4>4 DEF WebTypeOK, Current
    <3>4. QED
      BY <3>1, <3>2, <3>3
  <2>6. request'.state = "none"
    BY <2>2, WebRecords
  <2>7. WebTypeOK'
    BY <2>2, <2>3, <2>5 DEF WebTypeOK, Follows
  <2>8. Offered'
    BY <2>2, <2>5, <2>6 DEF Offered, Follows, WebTypeOK
  <2>9. Current'
    BY <2>2, <2>3, <2>5, <2>6 DEF Current, Follows, WebTypeOK
  <2>10. QED
    BY <2>7, <2>8, <2>9
<1>15. CASE Failed
  <2> DEFINE m == request.mutation
             e == IF request.guess THEN request.previous ELSE entry
             reached == \E k \in Hook(m).invalidates : Reaches(k, Key)
  <2>1. /\ request \in WebRequests /\ request.state \in {"refused", "done"} /\ m \in HookNames
        /\ e \in Entries
    BY <1>15, WebRecords DEF Failed, WebRequests, WebTypeOK
  <2>2. /\ UNCHANGED <<role, known, page, watched, version, told>>
        /\ request' = NoRequest
    BY <1>15 DEF Failed
  <2>3. e.seen <= version
    BY <2>1 DEF Current, Guessing
  <2>4. request.guess => Hook(m).optimistic # {} /\ reached
    BY <2>1, GuessReached, WebAssumption DEF Current, Key, Hook, WebTypeOK
  <2>5. /\ entry' \in Entries /\ entry'.seen <= version
        /\ entry'.has => entry'.behind \/ entry'.invalid \/ entry'.seen >= told'
        /\ Follows
    <3>1. CASE Hook(m).optimistic # {} /\ reached
      <4>1. Invalidated(e)
        BY <1>15, <3>1 DEF Failed
      <4>2. QED
        BY <2>1, <2>3, <4>1, InvalidatedKeeps
    <3>2. CASE ~(Hook(m).optimistic # {} /\ reached)
      <4>1. entry' = entry /\ fetch' = fetch
        BY <1>15, <2>4, <3>2 DEF Failed
      <4>2. Follows
        BY <2>2, <4>1, WebRecords DEF Follows, Offered, WebTypeOK, Current
      <4>3. QED
        BY <2>2, <2>3, <2>4, <3>2, <4>1, <4>2 DEF WebTypeOK, Current
    <3>3. QED
      BY <3>1, <3>2
  <2>6. request'.state = "none"
    BY <2>2, WebRecords
  <2>7. WebTypeOK'
    BY <2>2, <2>5 DEF WebTypeOK, Follows
  <2>8. Offered'
    BY <2>2, <2>5, <2>6 DEF Offered, Follows, WebTypeOK
  <2>9. Current'
    BY <2>2, <2>5, <2>6 DEF Current, Follows, WebTypeOK
  <2>10. QED
    BY <2>7, <2>8, <2>9
<1>16. QED
  BY <1>0, <1>1, <1>2, <1>3, <1>4, <1>5, <1>6, <1>7, <1>8, <1>9, <1>10, <1>11, <1>12, <1>13,
     <1>14, <1>15 DEF WebNext

\* The types hold, what is sent was offered, and nothing that is trusted is behind what the member
\* was told of, for every set of queries, any number of changes and of changes of roles.
THEOREM WebInvariant == WebSpec => []WebInv
<1>1. WebInit => WebInv
  BY WebInitInv
<1>2. WebInv /\ [WebNext]_webVars => WebInv'
  BY WebStep
<1>3. QED
  BY <1>1, <1>2, PTL DEF WebSpec

\* Once everything has settled a screen shows what the member was told of, and nothing the server
\* does not hold.
THEOREM ScreensAreCurrent == WebSpec => []ScreenIsCurrent
<1>1. WebInv => ScreenIsCurrent
  BY DEF WebInv, WebTypeOK, Current, Guessing, ScreenIsCurrent
<1>2. QED
  BY <1>1, WebInvariant, PTL

\* The server refuses nothing that a page offered, or mounted, to the role it was refused for,
\* except what no gate protects.
THEOREM OfferedIsAllowed == WebSpec => []NothingOfferedIsRefused
<1>1. WebInv => NothingOfferedIsRefused
  <2>1. SUFFICES ASSUME WebInv PROVE NothingOfferedIsRefused
    OBVIOUS
  <2>2. ASSUME request.state = "refused", request.as = request.by
        PROVE  request.mutation \in UngatedControls
    <3>1. PICK p \in DOMAIN Pages : request.mutation \in OfferedTo[p][request.by]
      BY <2>1, <2>2 DEF WebInv, Offered
    <3>2. request.by \in Roles
      BY <2>1, <2>2, WebRecords DEF WebInv, WebRequests
    <3>3. /\ request.mutation \in HookNames /\ request.by \in OrgRoles
          /\ MayUse(request.by, request.mutation)
      BY <3>1, <3>2, OfferedMay DEF Roles
    <3>4. Endpoints[request.mutation] \in Routes
          /\ Endpoints[request.mutation].name = request.mutation
      BY <3>3, Tables, EveryHookHasRoute
    <3>5. Endpoints[request.mutation].needs \notin RolePermissions[request.by]
      BY <2>1, <2>2, <3>3, RolesMay DEF WebInv, Offered
    <3>6. QED
      BY <3>3, <3>4, <3>5 DEF MayUse
  <2>3. ASSUME fetch.state = "refused", fetch.as = fetch.by
        PROVE  watched \in UngatedQueries
    <3>1. PICK p \in DOMAIN Pages : watched \in MountedFor[p][fetch.by]
      BY <2>1, <2>3 DEF WebInv, Offered
    <3>2. fetch.by \in Roles /\ watched \in QueriesNamed
      BY <2>1, <2>3, WebRecords, WebAssumption DEF WebInv, Fetches, WebTypeOK
    <3>3. fetch.by \in OrgRoles /\ MayAsk(fetch.by, watched)
      BY <3>1, <3>2, OfferedMay DEF Roles
    <3>4. /\ Endpoints[EndpointOf(watched)] \in Routes
          /\ Endpoints[EndpointOf(watched)].name = EndpointOf(watched)
      BY <3>2, Tables, EveryQueryHasRoute
    <3>5. Endpoints[EndpointOf(watched)].needs \notin RolePermissions[fetch.by]
      BY <2>1, <2>3, <3>3, RolesMay DEF WebInv, Offered
    <3>6. QED
      BY <3>3, <3>4, <3>5 DEF MayAsk
  <2>4. QED
    BY <2>2, <2>3 DEF NothingOfferedIsRefused
<1>2. QED
  BY <1>1, WebInvariant, PTL

=============================================================================
