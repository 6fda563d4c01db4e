-------------------------- MODULE StatusPageProofs --------------------------
(***************************************************************************)
(* That a status page tells one story of an incident, that its subscribers *)
(* consented, that a hostname resolves only if its token was published,    *)
(* and that no two components share a position: for every number of        *)
(* incidents, addresses, hostnames, components and requests.               *)
(***************************************************************************)
EXTENDS StatusPage, StatusIncidents, CustomDomain, FiniteSetTheorems, TLAPS

-----------------------------------------------------------------------------
(* Incidents and subscribers.  Both properties are about things at rest: an *)
(* incident no request is updating, an address no request is about.  What  *)
(* carries them from one rest to the next is that at most one request is   *)
(* under way about what is not crossed, and what that request is going to  *)
(* write: the status of the update it has inserted, or what the owner of   *)
(* the address asked for.                                                  *)


Status == IncidentStatus \cup Told

Row ==
  {r \in [is : {"row"}, status : Status, resolved : BOOLEAN, updates : Seq(Status)] :
     r.updates # <<>>}

Rest       == [stage : {"unmade", "over"}]
PostState  == Rest \cup [stage : {"copy", "notify"}, of : Incident, status : Status]
                   \cup [stage : {"mail"}, of : Incident, to : SUBSET Address]
VisitState == Rest \cup [stage : {"subscribe", "verify", "unsubscribe"}, of : Address]
Subscriber == [status : {"NONE", "PENDING", "ACTIVE", "UNSUBSCRIBED"}, token : Visit \cup {None}]

StoryTypeOK ==
  /\ incident \in [Incident -> {NoIncident} \cup Row]
  /\ post \in [Post -> PostState]

ConsentTypeOK ==
  /\ subscriber \in [Address -> Subscriber]
  /\ visit \in [Visit -> VisitState]
  /\ wish \in [Address -> {"nothing", "subscribe", "confirm", "unsubscribe"}]

\* The requests under way about something.
About(x, requests) ==
  {r \in DOMAIN requests : requests[r].stage \notin {"unmade", "over"} /\ requests[r].of = x}

AtMostOne(S) == \A r, q \in S : r = q

\* What is crossed stays so, and what a new request leaves uncrossed had none about it.
LEMMA Crossing ==
  ASSUME NEW x, NEW requests
  PROVE  /\ crossed \subseteq CrossedBy(x, requests)
         /\ x \notin CrossedBy(x, requests) => About(x, requests) = {}
BY DEF CrossedBy, About

-----------------------------------------------------------------------------
(* The incidents *)

Agrees(i) ==
  LET latest == Last(incident[i].updates)
  IN  incident[i].status = latest /\ (incident[i].resolved <=> latest = "RESOLVED")

\* The updates that are inserted and not copied yet.
Pending(i) == {p \in About(i, post) : post[p].stage = "copy"}

\* Such an update is the latest; without one the row agrees with the latest.
StoryIsKept(i) ==
  /\ AtMostOne(About(i, post))
  /\ \A p \in Pending(i) : post[p].status = Last(incident[i].updates)
  /\ Pending(i) = {} => Agrees(i)

StoryInv ==
  /\ StoryTypeOK
  /\ \A i \in Incident : About(i, post) # {} => incident[i] # NoIncident
  /\ \A i \in Incident \ crossed : incident[i] # NoIncident => StoryIsKept(i)

LEMMA StoryInit == ASSUME IncidentsInit PROVE StoryInv
<1>1. StoryTypeOK BY DEF IncidentsInit, StoryTypeOK, PostState, Rest, Unmade
<1>2. \A i \in Incident : About(i, post) = {} BY DEF IncidentsInit, About, Unmade
<1>3. \A i \in Incident : incident[i] = NoIncident BY DEF IncidentsInit
<1>4. QED BY <1>1, <1>2, <1>3 DEF StoryInv

\* Whatever leaves incidents and posts alone.
LEMMA StoryUntouched ==
  ASSUME StoryInv, UNCHANGED <<incident, post>>, crossed \subseteq crossed'
  PROVE  StoryInv'
BY DEF StoryInv, StoryTypeOK, StoryIsKept, About, AtMostOne, Pending, Agrees

\* The incident is new, and so is what is told of it.
LEMMA OpenKeeps ==
  ASSUME StoryInv, NEW p \in Post, NEW i \in Incident, OpenIncident(p, i)
  PROVE  StoryInv'
<1> DEFINE row == [is |-> "row", status |-> "INVESTIGATING", resolved |-> FALSE,
                   updates |-> <<"INVESTIGATING">>]
           v   == [stage |-> "notify", of |-> i, status |-> "INVESTIGATING"]
<1>1. /\ post[p] = Unmade /\ incident[i] = NoIncident
      /\ incident' = [incident EXCEPT ![i] = row] /\ post' = [post EXCEPT ![p] = v]
      /\ crossed' = crossed
  BY DEF OpenIncident
<1>2. /\ row \in Row /\ v \in PostState /\ row # NoIncident /\ row.status = "INVESTIGATING"
      /\ row.resolved = FALSE /\ Last(row.updates) = "INVESTIGATING"
  BY DEF Row, PostState, Status, IncidentStatus, NoIncident, Last
<1> HIDE DEF row
<1>3. StoryTypeOK' BY <1>1, <1>2 DEF StoryInv, StoryTypeOK
<1>4. /\ \A q \in Post : post'[q] = IF q = p THEN v ELSE post[q]
      /\ \A j \in Incident : incident'[j] = IF j = i THEN row ELSE incident[j]
      /\ DOMAIN post = Post /\ DOMAIN post' = Post
  BY <1>1 DEF StoryInv, StoryTypeOK
<1>5. About(i, post) = {} BY <1>1 DEF StoryInv
<1>6. About(i, post)' = {p} /\ Pending(i)' = {}
  <2>1. \A q \in Post \ {p} : ~(post[q].stage \notin {"unmade", "over"} /\ post[q].of = i)
    BY <1>4, <1>5 DEF About
  <2>2. QED BY <1>4, <2>1 DEF About, Pending
<1>7. \A j \in Incident \ {i} : About(j, post)' = About(j, post) /\ Pending(j)' = Pending(j)
  BY <1>1, <1>4 DEF About, Pending, Unmade
<1>8. \A j \in Incident : About(j, post)' # {} => incident'[j] # NoIncident
  BY <1>2, <1>4, <1>7 DEF StoryInv
<1>9. StoryIsKept(i)'
  BY <1>2, <1>4, <1>6 DEF StoryIsKept, AtMostOne, Agrees
<1>10. ASSUME NEW j \in Incident \ crossed, j # i, incident'[j] # NoIncident
       PROVE  StoryIsKept(j)'
  <2>1. StoryIsKept(j) /\ incident'[j] = incident[j] BY <1>4, <1>10 DEF StoryInv
  <2>2. \A q \in Pending(j) : post'[q].status = post[q].status
    BY <1>1, <1>4 DEF Pending, About, Unmade
  <2>3. QED BY <1>7, <1>10, <2>1, <2>2 DEF StoryIsKept, Agrees
<1>11. QED BY <1>1, <1>3, <1>8, <1>9, <1>10 DEF StoryInv

\* The update is the latest now, and the only one that is not copied.
LEMMA InsertKeeps ==
  ASSUME StoryInv, NEW p \in Post, NEW i \in Incident, InsertUpdate(p, i)
  PROVE  StoryInv'
<1>1. PICK s \in Told :
        /\ incident' = [incident EXCEPT ![i].updates = Append(@, s)]
        /\ post' = [post EXCEPT ![p] = [stage |-> "copy", of |-> i, status |-> s]]
  BY DEF InsertUpdate
<1>2. /\ post[p] = Unmade /\ incident[i] # NoIncident /\ crossed' = CrossedBy(i, post)
  BY DEF InsertUpdate
<1> DEFINE v   == [stage |-> "copy", of |-> i, status |-> s]
           row == [incident[i] EXCEPT !.updates = Append(@, s)]
<1>3. incident[i] \in Row /\ s \in Status BY <1>2 DEF StoryInv, StoryTypeOK, Status
<1>4. row \in Row /\ row # NoIncident /\ Last(row.updates) = s
  <2>1. /\ Append(incident[i].updates, s) \in Seq(Status)
        /\ Append(incident[i].updates, s) # <<>>
        /\ Last(Append(incident[i].updates, s)) = s
    BY <1>3 DEF Row, Last
  <2>2. row.is = "row" /\ row.updates = Append(incident[i].updates, s)
    BY <1>3 DEF Row
  <2> DEFINE new == Append(incident[i].updates, s)
  <2> HIDE DEF new
  <2>3. [incident[i] EXCEPT !.updates = new] \in Row
    BY <1>3, <2>1 DEF Row, new
  <2>4. QED
    BY <2>1, <2>2, <2>3 DEF NoIncident, new
<1>5. v \in PostState BY <1>3 DEF PostState
<1>6. StoryTypeOK' BY <1>1, <1>4, <1>5 DEF StoryInv, StoryTypeOK
<1>7. /\ \A q \in Post : post'[q] = IF q = p THEN v ELSE post[q]
      /\ \A j \in Incident : incident'[j] = IF j = i THEN row ELSE incident[j]
      /\ DOMAIN post = Post /\ DOMAIN post' = Post
  BY <1>1 DEF StoryInv, StoryTypeOK
<1> HIDE DEF row
<1>8. \A j \in Incident \ {i} : About(j, post)' = About(j, post) /\ Pending(j)' = Pending(j)
  BY <1>2, <1>7 DEF About, Pending, Unmade
<1>9. \A j \in Incident : About(j, post)' # {} => incident'[j] # NoIncident
  BY <1>4, <1>7, <1>8 DEF StoryInv
<1>10. ASSUME i \notin crossed' PROVE StoryIsKept(i)'
  <2>1. About(i, post) = {} BY <1>2, <1>10, Crossing
  <2>2. \A q \in Post \ {p} : ~(post[q].stage \notin {"unmade", "over"} /\ post[q].of = i)
    BY <1>7, <2>1 DEF About
  <2>3. About(i, post)' = {p} /\ Pending(i)' = {p} BY <1>7, <2>2 DEF About, Pending
  <2>4. QED BY <1>4, <1>7, <2>3 DEF StoryIsKept, AtMostOne
<1>11. ASSUME NEW j \in Incident \ crossed', j # i, incident'[j] # NoIncident
       PROVE  StoryIsKept(j)'
  <2>1. j \notin crossed BY <1>2, <1>11, Crossing
  <2>2. StoryIsKept(j) /\ incident'[j] = incident[j] BY <1>7, <1>11, <2>1 DEF StoryInv
  <2>3. \A q \in Pending(j) : post'[q].status = post[q].status
    BY <1>2, <1>7 DEF Pending, About, Unmade
  <2>4. QED BY <1>8, <1>11, <2>2, <2>3 DEF StoryIsKept, Agrees
<1>12. QED BY <1>6, <1>9, <1>10, <1>11 DEF StoryInv

\* The incident takes the status of the one update that was not copied.
LEMMA CopyKeeps ==
  ASSUME StoryInv, NEW p \in Post, CopyStatus(p)
  PROVE  StoryInv'
<1>0. PICK i \in Incident, s \in Status :
        post[p].stage = "copy" /\ post[p].of = i /\ post[p].status = s
  BY DEF CopyStatus, StoryInv, StoryTypeOK, PostState, Rest
<1> DEFINE row == [incident[i] EXCEPT !.status = s, !.resolved = s = "RESOLVED"]
           v   == [post[p] EXCEPT !.stage = "notify"]
<1>1. /\ crossed' = crossed
      /\ incident' = [incident EXCEPT ![i] = row] /\ post' = [post EXCEPT ![p] = v]
  BY <1>0 DEF CopyStatus
<1>2. p \in About(i, post) /\ incident[i] # NoIncident
  BY <1>0 DEF StoryInv, StoryTypeOK, About
<1>3. incident[i] \in Row BY <1>2 DEF StoryInv, StoryTypeOK
<1>4. /\ row \in Row /\ row # NoIncident /\ row.updates = incident[i].updates
      /\ row.status = s /\ (row.resolved <=> s = "RESOLVED")
  BY <1>2, <1>3 DEF Row, NoIncident
<1>5. v \in PostState /\ v.stage = "notify" /\ v.of = i
  BY <1>0 DEF StoryInv, StoryTypeOK, PostState, Rest
<1>6. StoryTypeOK' BY <1>1, <1>4, <1>5 DEF StoryInv, StoryTypeOK
<1>7. /\ \A q \in Post : post'[q] = IF q = p THEN v ELSE post[q]
      /\ \A j \in Incident : incident'[j] = IF j = i THEN row ELSE incident[j]
      /\ DOMAIN post = Post /\ DOMAIN post' = Post
  BY <1>1 DEF StoryInv, StoryTypeOK
<1> HIDE DEF row, v
<1>8. \A j \in Incident : About(j, post)' = About(j, post)
  BY <1>2, <1>5, <1>7 DEF About
<1>9. \A j \in Incident \ {i} : Pending(j)' = Pending(j)
  BY <1>5, <1>7, <1>8 DEF Pending, About
<1>10. \A j \in Incident : About(j, post)' # {} => incident'[j] # NoIncident
  BY <1>4, <1>7, <1>8 DEF StoryInv
<1>11. ASSUME i \notin crossed PROVE StoryIsKept(i)'
  <2>1. StoryIsKept(i) BY <1>2, <1>11 DEF StoryInv
  <2>2. s = Last(incident[i].updates) BY <1>0, <1>2, <2>1 DEF StoryIsKept, Pending
  <2>3. \A q \in About(i, post) : q = p BY <1>2, <2>1 DEF StoryIsKept, AtMostOne
  <2>4. Pending(i)' = {} BY <1>5, <1>7, <1>8, <2>3 DEF Pending
  <2>5. Agrees(i)' BY <1>4, <1>7, <2>2 DEF Agrees
  <2>6. QED BY <1>8, <2>1, <2>4, <2>5 DEF StoryIsKept
<1>12. ASSUME NEW j \in Incident \ crossed, j # i, incident'[j] # NoIncident
       PROVE  StoryIsKept(j)'
  <2>1. StoryIsKept(j) /\ incident'[j] = incident[j] BY <1>7, <1>12 DEF StoryInv
  <2>2. \A q \in Pending(j) : post'[q].status = post[q].status
    BY <1>0, <1>7, <1>12 DEF Pending, About
  <2>3. QED BY <1>8, <1>9, <1>12, <2>1, <2>2 DEF StoryIsKept, Agrees
<1>13. QED BY <1>1, <1>6, <1>10, <1>11, <1>12 DEF StoryInv

\* A post that has copied its update, or needs not, goes on with its mails.
LEMMA MailingKeeps ==
  ASSUME StoryInv, NEW p \in Post, NEW v \in PostState,
         post' = [post EXCEPT ![p] = v], UNCHANGED <<incident, crossed>>,
         post[p].stage \in {"notify", "mail"}, v.stage \in {"mail", "over"},
         v.stage = "mail" => v.of = post[p].of
  PROVE  StoryInv'
<1>1. StoryTypeOK' BY DEF StoryInv, StoryTypeOK
<1>2. /\ \A q \in Post : post'[q] = IF q = p THEN v ELSE post[q]
      /\ DOMAIN post = Post /\ DOMAIN post' = Post
  BY DEF StoryInv, StoryTypeOK
<1>3. \A j \in Incident : About(j, post)' \subseteq About(j, post) /\ Pending(j)' = Pending(j)
  BY <1>2 DEF About, Pending
<1>4. \A j \in Incident : \A q \in Pending(j) : post'[q].status = post[q].status
  BY <1>2 DEF Pending, About
<1>5. ASSUME NEW j \in Incident \ crossed, incident[j] # NoIncident PROVE StoryIsKept(j)'
  <2>1. StoryIsKept(j) BY <1>5 DEF StoryInv
  <2>2. AtMostOne(About(j, post))' BY <1>3, <1>5, <2>1 DEF StoryIsKept, AtMostOne
  <2>3. QED BY <1>3, <1>4, <1>5, <2>1, <2>2 DEF StoryIsKept, Agrees
<1>6. \A j \in Incident : About(j, post)' # {} => incident[j] # NoIncident
  BY <1>3 DEF StoryInv
<1>7. QED BY <1>1, <1>5, <1>6 DEF StoryInv

LEMMA ReadKeeps == ASSUME StoryInv, NEW p \in Post, ReadSubscribers(p) PROVE StoryInv'
<1> DEFINE v == [stage |-> "mail", of |-> post[p].of,
                 to |-> {a \in Address : subscriber[a].status = "ACTIVE"}]
<1>1. /\ post' = [post EXCEPT ![p] = v] /\ post[p].stage = "notify"
      /\ UNCHANGED <<incident, crossed>>
  BY DEF ReadSubscribers
<1>2. post[p].of \in Incident BY <1>1 DEF StoryInv, StoryTypeOK, PostState, Rest
<1>3. v \in PostState BY <1>2 DEF PostState
<1>4. QED BY <1>1, <1>3, MailingKeeps

LEMMA QueueKeeps == ASSUME StoryInv, NEW p \in Post, QueueMail(p) PROVE StoryInv'
<1>1. post[p].stage = "mail" /\ UNCHANGED <<incident, crossed>> BY DEF QueueMail
<1>2. post[p] \in [stage : {"mail"}, of : Incident, to : SUBSET Address]
  BY <1>1 DEF StoryInv, StoryTypeOK, PostState, Rest
<1>3. CASE post' = [post EXCEPT ![p] = Over]
  <2>1. Over \in PostState /\ Over.stage = "over" BY DEF Over, PostState, Rest
  <2>2. QED BY <1>1, <1>3, <2>1, MailingKeeps
<1>4. ASSUME NEW a \in post[p].to, post' = [post EXCEPT ![p].to = @ \ {a}]
      PROVE  StoryInv'
  <2> DEFINE v == [post[p] EXCEPT !.to = @ \ {a}]
  <2>1. v \in PostState /\ v.stage = "mail" /\ v.of = post[p].of BY <1>2 DEF PostState
  <2>2. post' = [post EXCEPT ![p] = v] BY <1>4
  <2>3. QED BY <1>1, <2>1, <2>2, MailingKeeps
<1>5. QED BY <1>3, <1>4 DEF QueueMail

\* What dies half way is crossed.
LEMMA PostDiesKeeps == ASSUME StoryInv, NEW p \in Post, PostDies(p) PROVE StoryInv'
<1>1. /\ post' = [post EXCEPT ![p] = Over] /\ crossed' = crossed \cup {post[p].of}
      /\ incident' = incident
  BY DEF PostDies
<1>2. StoryTypeOK' BY <1>1 DEF StoryInv, StoryTypeOK, PostState, Rest, Over
<1>3. /\ \A q \in Post : post'[q] = IF q = p THEN Over ELSE post[q]
      /\ DOMAIN post = Post /\ DOMAIN post' = Post
  BY <1>1 DEF StoryInv, StoryTypeOK
<1>4. \A j \in Incident : About(j, post)' \subseteq About(j, post)
  BY <1>3 DEF About, Over
<1>5. \A j \in Incident \ crossed' : About(j, post)' = About(j, post) /\ Pending(j)' = Pending(j)
  BY <1>1, <1>3 DEF About, Pending, Over
<1>6. ASSUME NEW j \in Incident \ crossed', incident[j] # NoIncident PROVE StoryIsKept(j)'
  <2>1. StoryIsKept(j) BY <1>1, <1>6 DEF StoryInv
  <2>2. \A q \in Pending(j) : post'[q].status = post[q].status
    BY <1>1, <1>3, <1>6 DEF Pending, About
  <2>3. QED BY <1>1, <1>5, <1>6, <2>1, <2>2 DEF StoryIsKept, Agrees
<1>7. QED BY <1>1, <1>2, <1>4, <1>6 DEF StoryInv

\* No step of a request, of either kind, and no change of the page disturbs it.
LEMMA StoryKept == ASSUME StoryInv, IncidentsNext PROVE StoryInv'
<1>1. ASSUME NEW p \in Post, NEW i \in Incident, OpenIncident(p, i) PROVE StoryInv'
  BY <1>1, OpenKeeps
<1>2. ASSUME NEW p \in Post, NEW i \in Incident, InsertUpdate(p, i) PROVE StoryInv'
  BY <1>2, InsertKeeps
<1>3. ASSUME NEW p \in Post, CopyStatus(p) PROVE StoryInv' BY <1>3, CopyKeeps
<1>4. ASSUME NEW p \in Post, ReadSubscribers(p) PROVE StoryInv' BY <1>4, ReadKeeps
<1>5. ASSUME NEW p \in Post, QueueMail(p) PROVE StoryInv' BY <1>5, QueueKeeps
<1>6. ASSUME NEW p \in Post, PostDies(p) PROVE StoryInv' BY <1>6, PostDiesKeeps
<1>7. ASSUME NEW v \in Visit, NEW a \in Address,
             Subscribe(v, a) \/ FindByToken(v, a) \/ FindByUnsubscribe(v, a)
      PROVE  StoryInv'
  <2>1. UNCHANGED <<incident, post>>
    BY <1>7 DEF Subscribe, FindByToken, FindByUnsubscribe, storyVars
  <2>2. crossed' = crossed \/ crossed' = CrossedBy(a, visit)
    BY <1>7 DEF Subscribe, FindByToken, FindByUnsubscribe, Begins
  <2>3. QED BY <2>1, <2>2, Crossing, StoryUntouched
<1>8. ASSUME NEW v \in Visit,
             UpsertPending(v) \/ Activate(v) \/ MarkUnsubscribed(v) \/ VisitDies(v)
      PROVE  StoryInv'
  <2>1. UNCHANGED <<incident, post>> /\ crossed \subseteq crossed'
    BY <1>8 DEF UpsertPending, Activate, MarkUnsubscribed, VisitDies, storyVars
  <2>2. QED BY <2>1, StoryUntouched
<1>9. CASE PageNext /\ UNCHANGED incidentVars
  BY <1>9, StoryUntouched DEF incidentVars, storyVars
<1>10. QED
  BY <1>1, <1>2, <1>3, <1>4, <1>5, <1>6, <1>7, <1>8, <1>9 DEF IncidentsNext

\* A page lists an incident as active exactly while its latest update does not say
\* RESOLVED, unless updates of it overlapped or one died half way (addIncidentUpdate
\* and updateIncident of status-page.service.ts).
THEOREM OneStoryKept == IncidentsSpec => []OneStory
<1>1. PageInit /\ IncidentsInit => StoryInv BY StoryInit
<1>2. ASSUME StoryInv, UNCHANGED <<page, incidentVars>> PROVE StoryInv'
  BY <1>2, StoryUntouched DEF incidentVars, storyVars
<1>3. StoryInv /\ [IncidentsNext]_<<page, incidentVars>> => StoryInv'
  BY <1>2, StoryKept
<1>4. StoryInv => OneStory
  <2> SUFFICES ASSUME StoryInv, NEW i \in Incident, incident[i] # NoIncident, Quiet(i, post)
               PROVE  Agrees(i)
    BY DEF OneStory, Agrees
  <2>1. Pending(i) = {} BY DEF Quiet, Pending, About
  <2>2. StoryIsKept(i) BY DEF StoryInv, Quiet
  <2>3. QED BY <2>1, <2>2 DEF StoryIsKept
<1>5. QED BY <1>1, <1>3, <1>4, PTL DEF IncidentsSpec

-----------------------------------------------------------------------------
(* The subscribers *)

\* What the owner of an address asks for with a request.
Asked(stage) ==
  IF stage = "subscribe" THEN "subscribe"
  ELSE IF stage = "verify" THEN "confirm" ELSE "unsubscribe"

\* The one request under way is what its owner did last; without one the row agrees.
ConsentIsKept(a) ==
  /\ AtMostOne(About(a, visit))
  /\ \A v \in About(a, visit) : wish[a] = Asked(visit[v].stage)
  /\ About(a, visit) = {} => (subscriber[a].status = "ACTIVE" <=> wish[a] = "confirm")

ConsentInv == ConsentTypeOK /\ \A a \in Address \ crossed : ConsentIsKept(a)

LEMMA ConsentInit == ASSUME IncidentsInit PROVE ConsentInv
<1>1. ConsentTypeOK
  BY DEF IncidentsInit, ConsentTypeOK, VisitState, Rest, Unmade, Subscriber
<1>2. \A a \in Address : About(a, visit) = {} BY DEF IncidentsInit, About, Unmade
<1>3. QED BY <1>1, <1>2 DEF ConsentInv, ConsentIsKept, AtMostOne, IncidentsInit

\* Whatever leaves subscribers and visits alone.
LEMMA ConsentUntouched ==
  ASSUME ConsentInv, UNCHANGED subscriberVars, crossed \subseteq crossed'
  PROVE  ConsentInv'
BY DEF ConsentInv, ConsentTypeOK, ConsentIsKept, About, AtMostOne, subscriberVars

\* A request has read the row: it is the only one about its address, or crosses it.
LEMMA BeginsKeeps ==
  ASSUME ConsentInv, NEW v \in Visit, NEW a \in Address,
         NEW stage \in {"subscribe", "verify", "unsubscribe"}, Begins(v, a, stage),
         wish' = [wish EXCEPT ![a] = Asked(stage)], subscriber' = subscriber
  PROVE  ConsentInv'
<1> DEFINE w == [stage |-> stage, of |-> a]
<1>1. visit[v] = Unmade /\ visit' = [visit EXCEPT ![v] = w] /\ crossed' = CrossedBy(a, visit)
  BY DEF Begins
<1>2. w \in VisitState BY DEF VisitState
<1>3. ConsentTypeOK' BY <1>1, <1>2 DEF ConsentInv, ConsentTypeOK, Asked
<1>4. /\ \A u \in Visit : visit'[u] = IF u = v THEN w ELSE visit[u]
      /\ \A b \in Address : wish'[b] = IF b = a THEN Asked(stage) ELSE wish[b]
      /\ DOMAIN visit = Visit /\ DOMAIN visit' = Visit
  BY <1>1 DEF ConsentInv, ConsentTypeOK
<1>5. ASSUME a \notin crossed' PROVE ConsentIsKept(a)'
  <2>1. About(a, visit) = {} BY <1>1, <1>5, Crossing
  <2>2. \A u \in Visit \ {v} : ~(visit[u].stage \notin {"unmade", "over"} /\ visit[u].of = a)
    BY <1>4, <2>1 DEF About
  <2>3. About(a, visit)' = {v} BY <1>4, <2>2 DEF About
  <2>4. QED BY <1>4, <2>3 DEF ConsentIsKept, AtMostOne
<1>6. ASSUME NEW b \in Address \ crossed', b # a PROVE ConsentIsKept(b)'
  <2>1. ConsentIsKept(b) BY <1>1, <1>6, Crossing DEF ConsentInv
  <2>2. /\ About(b, visit)' = About(b, visit) /\ wish'[b] = wish[b]
        /\ \A u \in About(b, visit) : visit'[u].stage = visit[u].stage
    BY <1>1, <1>4, <1>6 DEF About, Unmade
  <2>3. QED BY <2>1, <2>2 DEF ConsentIsKept
<1>7. QED BY <1>3, <1>5, <1>6 DEF ConsentInv

\* A request writes what its owner asked for.
LEMMA EndsKeeps ==
  ASSUME ConsentInv, NEW v \in Visit, NEW a \in Address, NEW row \in Subscriber,
         visit[v].stage \in {"subscribe", "verify", "unsubscribe"}, visit[v].of = a,
         subscriber' = [subscriber EXCEPT ![a] = row], visit' = [visit EXCEPT ![v] = Over],
         row.status = "ACTIVE" <=> Asked(visit[v].stage) = "confirm",
         UNCHANGED <<wish, crossed>>
  PROVE  ConsentInv'
<1>1. Over \in VisitState BY DEF Over, VisitState, Rest
<1>2. ConsentTypeOK' BY <1>1 DEF ConsentInv, ConsentTypeOK
<1>3. /\ \A u \in Visit : visit'[u] = IF u = v THEN Over ELSE visit[u]
      /\ \A b \in Address : subscriber'[b] = IF b = a THEN row ELSE subscriber[b]
      /\ DOMAIN visit = Visit /\ DOMAIN visit' = Visit
  BY DEF ConsentInv, ConsentTypeOK
<1>4. v \in About(a, visit) BY <1>3 DEF About
<1>5. ASSUME a \notin crossed PROVE ConsentIsKept(a)'
  <2>1. ConsentIsKept(a) BY <1>5 DEF ConsentInv
  <2>2. \A u \in About(a, visit) : u = v BY <1>4, <2>1 DEF ConsentIsKept, AtMostOne
  <2>3. About(a, visit)' = {} BY <1>3, <2>2 DEF About, Over
  <2>4. wish[a] = Asked(visit[v].stage) BY <1>4, <2>1 DEF ConsentIsKept
  <2>5. QED BY <1>3, <2>3, <2>4 DEF ConsentIsKept, AtMostOne
<1>6. ASSUME NEW b \in Address \ crossed, b # a PROVE ConsentIsKept(b)'
  <2>1. ConsentIsKept(b) BY <1>6 DEF ConsentInv
  <2>2. /\ About(b, visit)' = About(b, visit) /\ subscriber'[b] = subscriber[b]
        /\ \A u \in About(b, visit) : visit'[u].stage = visit[u].stage
    BY <1>3, <1>6 DEF About, Over
  <2>3. QED BY <2>1, <2>2 DEF ConsentIsKept
<1>7. QED BY <1>2, <1>5, <1>6 DEF ConsentInv

\* Subscribing asks someone active for nothing, and anyone else to confirm.
LEMMA SubscribeKeeps ==
  ASSUME ConsentInv, NEW v \in Visit, NEW a \in Address, Subscribe(v, a)
  PROVE  ConsentInv'
<1>1. visit[v] = Unmade /\ subscriber' = subscriber BY DEF Subscribe
<1>2. CASE subscriber[a].status = "ACTIVE"
  <2>1. visit' = [visit EXCEPT ![v] = Over] /\ UNCHANGED <<wish, crossed>>
    BY <1>2 DEF Subscribe
  <2>2. ConsentTypeOK' BY <1>1, <2>1 DEF ConsentInv, ConsentTypeOK, VisitState, Rest, Over
  <2>3. \A b \in Address : About(b, visit)' = About(b, visit)
    BY <1>1, <2>1 DEF ConsentInv, ConsentTypeOK, About, Over, Unmade
  <2>4. \A b \in Address : \A u \in About(b, visit) : visit'[u].stage = visit[u].stage
    BY <1>1, <2>1 DEF ConsentInv, ConsentTypeOK, About, Unmade
  <2>5. ASSUME NEW b \in Address \ crossed' PROVE ConsentIsKept(b)'
    <3>1. ConsentIsKept(b) BY <2>1, <2>5 DEF ConsentInv
    <3>2. QED BY <1>1, <2>1, <2>3, <2>4, <2>5, <3>1 DEF ConsentIsKept
  <2>6. QED BY <2>2, <2>5 DEF ConsentInv
<1>3. CASE subscriber[a].status # "ACTIVE"
  <2>1. Begins(v, a, "subscribe") /\ wish' = [wish EXCEPT ![a] = Asked("subscribe")]
    BY <1>3 DEF Subscribe, Asked
  <2>2. QED BY <1>1, <2>1, BeginsKeeps
<1>4. QED BY <1>2, <1>3

\* What dies half way is crossed.
LEMMA VisitDiesKeeps == ASSUME ConsentInv, NEW v \in Visit, VisitDies(v) PROVE ConsentInv'
<1>1. /\ visit' = [visit EXCEPT ![v] = Over] /\ crossed' = crossed \cup {visit[v].of}
      /\ UNCHANGED <<subscriber, wish>>
  BY DEF VisitDies
<1>2. ConsentTypeOK' BY <1>1 DEF ConsentInv, ConsentTypeOK, VisitState, Rest, Over
<1>3. \A b \in Address \ crossed' :
        /\ About(b, visit)' = About(b, visit)
        /\ \A u \in About(b, visit) : visit'[u].stage = visit[u].stage
  BY <1>1 DEF ConsentInv, ConsentTypeOK, About, Over
<1>4. ASSUME NEW b \in Address \ crossed' PROVE ConsentIsKept(b)'
  <2>1. ConsentIsKept(b) BY <1>1, <1>4 DEF ConsentInv
  <2>2. QED BY <1>1, <1>3, <1>4, <2>1 DEF ConsentIsKept
<1>5. QED BY <1>2, <1>4 DEF ConsentInv

\* A request that writes finds what it asks for in its stage.
LEMMA VisitKeeps ==
  ASSUME ConsentInv, NEW v \in Visit, UpsertPending(v) \/ Activate(v) \/ MarkUnsubscribed(v)
  PROVE  ConsentInv'
<1>1. PICK a \in Address : visit[v].of = a
  BY DEF UpsertPending, Activate, MarkUnsubscribed, ConsentInv, ConsentTypeOK, VisitState, Rest
<1>2. CASE UpsertPending(v)
  <2> DEFINE row == [status |-> "PENDING", token |-> v]
  <2>1. /\ visit[v].stage = "subscribe" /\ subscriber' = [subscriber EXCEPT ![a] = row]
        /\ visit' = [visit EXCEPT ![v] = Over] /\ UNCHANGED <<wish, crossed>>
    BY <1>1, <1>2 DEF UpsertPending
  <2>2. row \in Subscriber /\ row.status # "ACTIVE" /\ Asked("subscribe") # "confirm"
    BY DEF Subscriber, Asked
  <2>3. QED BY <1>1, <2>1, <2>2, EndsKeeps
<1>3. CASE Activate(v)
  <2> DEFINE row == [status |-> "ACTIVE", token |-> None]
  <2>1. /\ visit[v].stage = "verify" /\ subscriber' = [subscriber EXCEPT ![a] = row]
        /\ visit' = [visit EXCEPT ![v] = Over] /\ UNCHANGED <<wish, crossed>>
    BY <1>1, <1>3 DEF Activate
  <2>2. row \in Subscriber /\ row.status = "ACTIVE" /\ Asked("verify") = "confirm"
    BY DEF Subscriber, Asked
  <2>3. QED BY <1>1, <2>1, <2>2, EndsKeeps
<1>4. CASE MarkUnsubscribed(v)
  <2> DEFINE row == [subscriber[a] EXCEPT !.status = "UNSUBSCRIBED"]
  <2>1. /\ visit[v].stage = "unsubscribe" /\ subscriber' = [subscriber EXCEPT ![a] = row]
        /\ visit' = [visit EXCEPT ![v] = Over] /\ UNCHANGED <<wish, crossed>>
    BY <1>1, <1>4 DEF MarkUnsubscribed
  <2>2. row \in Subscriber /\ row.status # "ACTIVE" /\ Asked("unsubscribe") # "confirm"
    BY DEF ConsentInv, ConsentTypeOK, Subscriber, Asked
  <2>3. QED BY <1>1, <2>1, <2>2, EndsKeeps
<1>5. QED BY <1>2, <1>3, <1>4

\* No step of a request, of either kind, and no change of the page disturbs it.
LEMMA ConsentStays == ASSUME ConsentInv, IncidentsNext PROVE ConsentInv'
<1>1. ASSUME NEW p \in Post, NEW i \in Incident, OpenIncident(p, i) \/ InsertUpdate(p, i)
      PROVE  ConsentInv'
  <2>1. UNCHANGED subscriberVars /\ (crossed' = crossed \/ crossed' = CrossedBy(i, post))
    BY <1>1 DEF OpenIncident, InsertUpdate
  <2>2. QED BY <2>1, Crossing, ConsentUntouched
<1>2. ASSUME NEW p \in Post,
             CopyStatus(p) \/ ReadSubscribers(p) \/ QueueMail(p) \/ PostDies(p)
      PROVE  ConsentInv'
  <2>1. UNCHANGED subscriberVars /\ crossed \subseteq crossed'
    BY <1>2 DEF CopyStatus, ReadSubscribers, QueueMail, PostDies
  <2>2. QED BY <2>1, ConsentUntouched
<1>3. ASSUME NEW v \in Visit, NEW a \in Address, Subscribe(v, a) PROVE ConsentInv'
  BY <1>3, SubscribeKeeps
<1>4. ASSUME NEW v \in Visit, NEW a \in Address, FindByToken(v, a) PROVE ConsentInv'
  <2>1. /\ Begins(v, a, "verify") /\ subscriber' = subscriber
        /\ wish' = [wish EXCEPT ![a] = Asked("verify")]
    BY <1>4 DEF FindByToken, Asked
  <2>2. QED BY <2>1, BeginsKeeps
<1>5. ASSUME NEW v \in Visit, NEW a \in Address, FindByUnsubscribe(v, a) PROVE ConsentInv'
  <2>1. /\ Begins(v, a, "unsubscribe") /\ subscriber' = subscriber
        /\ wish' = [wish EXCEPT ![a] = Asked("unsubscribe")]
    BY <1>5 DEF FindByUnsubscribe, Asked
  <2>2. QED BY <2>1, BeginsKeeps
<1>6. ASSUME NEW v \in Visit, UpsertPending(v) \/ Activate(v) \/ MarkUnsubscribed(v)
      PROVE  ConsentInv'
  BY <1>6, VisitKeeps
<1>7. ASSUME NEW v \in Visit, VisitDies(v) PROVE ConsentInv' BY <1>7, VisitDiesKeeps
<1>8. CASE PageNext /\ UNCHANGED incidentVars
  BY <1>8, ConsentUntouched DEF incidentVars
<1>9. QED
  BY <1>1, <1>2, <1>3, <1>4, <1>5, <1>6, <1>7, <1>8 DEF IncidentsNext

\* An address is mailed about incidents exactly when its owner confirmed it and did not
\* unsubscribe since, unless requests about it overlapped or one died half way
\* (subscribe, verifySubscriber and unsubscribe of status-page.service.ts).
THEOREM ConsentKept == IncidentsSpec => []Consent
<1>1. PageInit /\ IncidentsInit => ConsentInv BY ConsentInit
<1>2. ASSUME ConsentInv, UNCHANGED <<page, incidentVars>> PROVE ConsentInv'
  BY <1>2, ConsentUntouched DEF incidentVars
<1>3. ConsentInv /\ [IncidentsNext]_<<page, incidentVars>> => ConsentInv'
  BY <1>2, ConsentStays
<1>4. ConsentInv => Consent
  <2> SUFFICES ASSUME ConsentInv, NEW a \in Address, Quiet(a, visit)
               PROVE  subscriber[a].status = "ACTIVE" <=> wish[a] = "confirm"
    BY DEF Consent
  <2>1. About(a, visit) = {}
    BY DEF Quiet, About, ConsentInv, ConsentTypeOK, VisitState, Rest
  <2>2. QED BY <2>1 DEF ConsentInv, ConsentIsKept, Quiet
<1>5. QED BY <1>1, <1>3, <1>4, PTL DEF IncidentsSpec

-----------------------------------------------------------------------------
(* Hostnames.  ResolvedIsProven says nothing of a lookup that has its      *)
(* answer and not written it yet, nor of a row that is deleted now: a      *)
(* lookup under way may still write both.  DomainInv speaks of every row,  *)
(* deleted or not, of every answer on its way, and of the records.         *)


\* What the records hold, the answers say and the rows keep was published.
RecordsArePublished == \A d \in Domain : txt[d] = "token" => d \in published

AnswersArePublished ==
  \A l \in Lookup : lookup[l].stage = "write" /\ lookup[l].status = "VERIFIED" =>
    lookup[l].of \in published

RowsAreProven ==
  \A d \in Domain : domain[d].is # "none" /\ domain[d].status = "VERIFIED" =>
    d \in published /\ domain[d].verifiedAt

\* A lookup is about a row that was there, and rows are deleted but never gone.
LookupsHaveRows ==
  \A l \in Lookup : lookup[l].stage # "idle" => domain[lookup[l].of].is # "none"

DomainInv ==
  /\ DomainTypeOK
  /\ RecordsArePublished /\ AnswersArePublished /\ RowsAreProven /\ LookupsHaveRows

-----------------------------------------------------------------------------
LEMMA DomainInvInit == ASSUME DomainInit PROVE DomainInv
BY DEF DomainInit, DomainInv, DomainTypeOK, RecordsArePublished, AnswersArePublished,
       RowsAreProven, LookupsHaveRows

\* A new row is not verified.
LEMMA CreateKeeps == ASSUME DomainInv, NEW d \in Domain, CreateDomain(d) PROVE DomainInv'
<1>1. /\ domain' = [domain EXCEPT ![d] = [is |-> "row", status |-> "PENDING", verifiedAt |-> FALSE]]
      /\ UNCHANGED <<txt, lookup, published>>
  BY DEF CreateDomain
<1>2. DomainTypeOK' BY <1>1 DEF DomainInv, DomainTypeOK, Outcome
<1>3. \A e \in Domain : domain'[e] = IF e = d
                          THEN [is |-> "row", status |-> "PENDING", verifiedAt |-> FALSE]
                          ELSE domain[e]
  BY <1>1 DEF DomainInv, DomainTypeOK
<1>4. RowsAreProven' BY <1>1, <1>3 DEF DomainInv, RowsAreProven
<1>5. LookupsHaveRows'
  <2>1. \A l \in Lookup : lookup[l].stage # "idle" => lookup[l].of \in Domain
    BY DEF DomainInv, DomainTypeOK
  <2>2. QED BY <1>1, <1>3, <2>1 DEF DomainInv, LookupsHaveRows
<1>6. RecordsArePublished' /\ AnswersArePublished'
  BY <1>1 DEF DomainInv, RecordsArePublished, AnswersArePublished
<1>7. QED BY <1>2, <1>4, <1>5, <1>6 DEF DomainInv

\* Deleting changes nothing else of the row.
LEMMA RemoveKeeps == ASSUME DomainInv, NEW d \in Domain, RemoveDomain(d) PROVE DomainInv'
<1>1. /\ domain[d].is = "row"
      /\ domain' = [domain EXCEPT ![d].is = "deleted"]
      /\ UNCHANGED <<txt, lookup, published>>
  BY DEF RemoveDomain
<1>2. domain[d] \in [is : {"row", "deleted"}, status : Outcome, verifiedAt : BOOLEAN]
  BY <1>1 DEF DomainInv, DomainTypeOK
<1>3. DomainTypeOK' BY <1>1, <1>2 DEF DomainInv, DomainTypeOK
<1>4. \A e \in Domain :
        /\ domain'[e].is # "none" <=> domain[e].is # "none"
        /\ domain[e].is # "none" => /\ domain'[e].status = domain[e].status
                                    /\ domain'[e].verifiedAt = domain[e].verifiedAt
  BY <1>1, <1>2 DEF DomainInv, DomainTypeOK
<1>5. RowsAreProven' BY <1>1, <1>4 DEF DomainInv, RowsAreProven
<1>6. LookupsHaveRows'
  <2>1. \A l \in Lookup : lookup[l].stage # "idle" => lookup[l].of \in Domain
    BY DEF DomainInv, DomainTypeOK
  <2>2. QED BY <1>1, <1>4, <2>1 DEF DomainInv, LookupsHaveRows
<1>7. RecordsArePublished' /\ AnswersArePublished'
  BY <1>1 DEF DomainInv, RecordsArePublished, AnswersArePublished
<1>8. QED BY <1>3, <1>5, <1>6, <1>7 DEF DomainInv

\* Nothing that was published is forgotten, and a token that appears is noted.
LEMMA TxtKeeps == ASSUME DomainInv, NEW d \in Domain, TxtChanges(d) PROVE DomainInv'
<1>1. PICK t \in {"nothing", "other", "token"} :
        /\ txt' = [txt EXCEPT ![d] = t]
        /\ published' = IF t = "token" THEN published \cup {d} ELSE published
        /\ UNCHANGED <<domain, lookup>>
  BY DEF TxtChanges
<1>2. published \subseteq published' BY <1>1
<1>3. DomainTypeOK' BY <1>1 DEF DomainInv, DomainTypeOK
<1>4. RecordsArePublished' BY <1>1, <1>2 DEF DomainInv, DomainTypeOK, RecordsArePublished
<1>5. AnswersArePublished' BY <1>1, <1>2 DEF DomainInv, AnswersArePublished
<1>6. RowsAreProven' BY <1>1, <1>2 DEF DomainInv, RowsAreProven
<1>7. LookupsHaveRows' BY <1>1 DEF DomainInv, LookupsHaveRows
<1>8. QED BY <1>3, <1>4, <1>5, <1>6, <1>7 DEF DomainInv

\* A lookup begins at a row that is there, without an answer.
LEMMA BeginKeeps ==
  ASSUME DomainInv, NEW l \in Lookup, NEW d \in Domain, BeginVerify(l, d) PROVE DomainInv'
<1> DEFINE v == [stage |-> "ask", of |-> d, verifiedAt |-> domain[d].verifiedAt]
<1>1. /\ domain[d].is = "row" /\ lookup' = [lookup EXCEPT ![l] = v]
      /\ UNCHANGED <<domain, txt, published>>
  BY DEF BeginVerify
<1>2. domain[d].verifiedAt \in BOOLEAN BY <1>1 DEF DomainInv, DomainTypeOK
<1>3. DomainTypeOK' BY <1>1, <1>2 DEF DomainInv, DomainTypeOK
<1>4. \A k \in Lookup : lookup'[k] = IF k = l THEN v ELSE lookup[k]
  BY <1>1 DEF DomainInv, DomainTypeOK
<1>5. AnswersArePublished' BY <1>1, <1>4 DEF DomainInv, AnswersArePublished
<1>6. LookupsHaveRows' BY <1>1, <1>4 DEF DomainInv, LookupsHaveRows
<1>7. RecordsArePublished' /\ RowsAreProven'
  BY <1>1 DEF DomainInv, RecordsArePublished, RowsAreProven
<1>8. QED BY <1>3, <1>5, <1>6, <1>7 DEF DomainInv

\* Only the token makes the verdict VERIFIED, and a record that holds it was published.
LEMMA AskKeeps == ASSUME DomainInv, NEW l \in Lookup, Ask(l) PROVE DomainInv'
<1> DEFINE d == lookup[l].of
<1>1. PICK answer \in {txt[d], "error"} :
        lookup' = [lookup EXCEPT ![l] =
          [stage |-> "write", of |-> d, verifiedAt |-> @.verifiedAt, status |-> Verdict(answer)]]
  BY DEF Ask
<1>2. /\ lookup[l].stage = "ask" /\ UNCHANGED <<domain, txt, published>>
      /\ d \in Domain /\ lookup[l].verifiedAt \in BOOLEAN
  BY DEF Ask, DomainInv, DomainTypeOK
<1> DEFINE v == [stage |-> "write", of |-> d, verifiedAt |-> lookup[l].verifiedAt,
                 status |-> Verdict(answer)]
<1>3. answer \in {"nothing", "other", "token", "error"} BY <1>1, <1>2 DEF DomainInv, DomainTypeOK
<1>4. Verdict(answer) \in Outcome /\ (Verdict(answer) = "VERIFIED" => answer = "token")
  BY <1>3 DEF Verdict, Outcome
<1>5. answer = "token" => d \in published BY <1>1, <1>2 DEF DomainInv, RecordsArePublished
<1>6. DomainTypeOK' BY <1>1, <1>2, <1>4 DEF DomainInv, DomainTypeOK
<1>7. \A k \in Lookup : lookup'[k] = IF k = l THEN v ELSE lookup[k]
  BY <1>1 DEF DomainInv, DomainTypeOK
<1>8. AnswersArePublished' BY <1>2, <1>4, <1>5, <1>7 DEF DomainInv, AnswersArePublished
<1>9. LookupsHaveRows' BY <1>2, <1>7 DEF DomainInv, LookupsHaveRows
<1>10. RecordsArePublished' /\ RowsAreProven'
  BY <1>2 DEF DomainInv, RecordsArePublished, RowsAreProven
<1>11. QED BY <1>6, <1>8, <1>9, <1>10 DEF DomainInv

\* The verdict that is written is published, and remembered by its date.
LEMMA WriteKeeps == ASSUME DomainInv, NEW l \in Lookup, WriteVerdict(l) PROVE DomainInv'
<1> DEFINE d == lookup[l].of
           s == lookup[l].status
           v == lookup[l].verifiedAt \/ s = "VERIFIED"
<1>1. /\ lookup[l].stage = "write"
      /\ domain' = [domain EXCEPT ![d].status = s, ![d].verifiedAt = v]
      /\ lookup' = [lookup EXCEPT ![l] = [stage |-> "idle"]]
      /\ UNCHANGED <<txt, published>>
  BY DEF WriteVerdict
<1>2. /\ d \in Domain /\ s \in Outcome /\ v \in BOOLEAN
      /\ domain[d] \in [is : {"row", "deleted"}, status : Outcome, verifiedAt : BOOLEAN]
  <2>1. d \in Domain /\ s \in Outcome /\ v \in BOOLEAN
    BY <1>1 DEF DomainInv, DomainTypeOK
  <2>2. domain[d].is # "none" BY <1>1 DEF DomainInv, LookupsHaveRows
  <2>3. QED BY <2>1, <2>2 DEF DomainInv, DomainTypeOK
<1>3. s = "VERIFIED" => d \in published /\ v BY <1>1 DEF DomainInv, AnswersArePublished
<1> HIDE DEF d, s, v
<1>4. DomainTypeOK' BY <1>1, <1>2 DEF DomainInv, DomainTypeOK
<1>5. /\ domain'[d].is = domain[d].is /\ domain'[d].status = s /\ domain'[d].verifiedAt = v
      /\ \A e \in Domain : e # d => domain'[e] = domain[e]
  BY <1>1, <1>2 DEF DomainInv, DomainTypeOK
<1>6. \A k \in Lookup : lookup'[k] = IF k = l THEN [stage |-> "idle"] ELSE lookup[k]
  BY <1>1 DEF DomainInv, DomainTypeOK
<1>7. RowsAreProven' BY <1>1, <1>3, <1>5 DEF DomainInv, RowsAreProven
<1>8. AnswersArePublished' BY <1>1, <1>6 DEF DomainInv, AnswersArePublished
<1>9. LookupsHaveRows'
  <2>1. \A k \in Lookup : lookup[k].stage # "idle" => lookup[k].of \in Domain
    BY DEF DomainInv, DomainTypeOK
  <2>2. QED BY <1>2, <1>5, <1>6, <2>1 DEF DomainInv, LookupsHaveRows
<1>10. RecordsArePublished' BY <1>1 DEF DomainInv, RecordsArePublished
<1>11. QED BY <1>4, <1>7, <1>8, <1>9, <1>10 DEF DomainInv

-----------------------------------------------------------------------------
LEMMA DomainInvAlways == DomainSpec => []DomainInv
<1>1. DomainInit => DomainInv BY DomainInvInit
<1>2. DomainInv /\ [DomainNext]_<<page, domainVars>> => DomainInv'
  <2>1. SUFFICES ASSUME DomainInv, [DomainNext]_<<page, domainVars>> PROVE DomainInv' OBVIOUS
  <2>2. CASE DomainNext /\ ~UNCHANGED domainVars
    BY <2>1, <2>2, CreateKeeps, RemoveKeeps, TxtKeeps, BeginKeeps, AskKeeps, WriteKeeps DEF DomainNext
  <2>3. CASE UNCHANGED domainVars
    BY <2>1, <2>3 DEF domainVars, DomainInv, DomainTypeOK, RecordsArePublished,
                      AnswersArePublished, RowsAreProven, LookupsHaveRows
  <2>4. QED BY <2>1, <2>2, <2>3
<1>3. QED BY <1>1, <1>2, PTL DEF DomainSpec

\* Rows, records and lookups keep their types.
THEOREM DomainTypeCorrect == DomainSpec => []DomainTypeOK
<1>1. DomainInv => DomainTypeOK BY DEF DomainInv
<1>2. QED BY <1>1, DomainInvAlways, PTL

\* However lookups overlap, whatever the DNS holds or fails to say, and whenever rows
\* are deleted: a hostname resolves only if its token was published there once.
THEOREM ResolvedProven == DomainSpec => []ResolvedIsProven
<1>1. DomainInv => ResolvedIsProven
  BY DEF DomainInv, RowsAreProven, ResolvedIsProven, resolve
<1>2. QED BY <1>1, DomainInvAlways, PTL


-----------------------------------------------------------------------------
(* Components.  NoTies speaks of rows alone; a request that has read the   *)
(* last position inserts a row there later.  As long as nothing was        *)
(* overtaken, it is the only one, and no row shares the position it keeps  *)
(* but those whose position a request asked for.                           *)

\* A finite set of numbers has a greatest one: the least set without one would have
\* one once an element of it is put aside.
LEMMA FiniteMax ==
  ASSUME NEW S \in SUBSET Nat, IsFiniteSet(S), S # {}
  PROVE  \E top \in S : \A x \in S : x <= top
<1> DEFINE Bad == {T \in FiniteSubsetsOf(Nat) : T # {} /\ ~\E top \in T : \A x \in T : x <= top}
<1> SUFFICES Bad = {}
  BY DEF FiniteSubsetsOf
<1> SUFFICES ASSUME Bad # {} PROVE FALSE
  OBVIOUS
<1>1. IsWellFoundedOn(StrictSubsetOrdering(Nat), FiniteSubsetsOf(Nat))
  BY FS_StrictSubsetOrderingWellFounded
<1>2. Bad \subseteq FiniteSubsetsOf(Nat)
  OBVIOUS
<1>3. PICK T \in Bad : \A U \in Bad : <<U, T>> \notin StrictSubsetOrdering(Nat)
  <2> HIDE DEF Bad
  <2> QED
    BY <1>1, <1>2, WFMin
<1>4. PICK x \in T : TRUE
  OBVIOUS
<1>5. T \in SUBSET Nat /\ IsFiniteSet(T)
  BY DEF FiniteSubsetsOf
<1> DEFINE U == T \ {x}
<1>6. U \in FiniteSubsetsOf(Nat) /\ U \subseteq T /\ U # T
  BY <1>5, FS_RemoveElement DEF FiniteSubsetsOf
<1>7. <<U, T>> \in StrictSubsetOrdering(Nat)
  BY <1>5, <1>6 DEF StrictSubsetOrdering
<1>8. U = {} \/ \E top \in U : \A y \in U : y <= top
  BY <1>3, <1>6, <1>7
<1>9. CASE U = {}
  <2>1. \A y \in T : y <= x
    BY <1>5, <1>9
  <2>2. QED
    BY <2>1
<1>10. ASSUME NEW top \in U, \A y \in U : y <= top PROVE FALSE
  <2>1. top \in T /\ top \in Nat /\ x \in Nat /\ x \in T
    BY <1>4, <1>5
  <2>2. CASE x <= top
    <3>1. \A y \in T : y <= top
      BY <1>10, <2>2
    <3>2. QED
      BY <2>1, <3>1
  <2>3. CASE ~(x <= top)
    <3>1. \A y \in T : y <= x
      BY <1>5, <1>10, <2>1, <2>3
    <3>2. QED
      BY <2>1, <3>1
  <2>4. QED
    BY <2>2, <2>3
<1>11. QED
  BY <1>8, <1>9, <1>10

\* What FiniteSetsExt chooses is that one.
LEMMA MaxIsGreatest ==
  ASSUME NEW S \in SUBSET Nat, IsFiniteSet(S), S # {}
  PROVE  Max(S) \in S /\ \A x \in S : x <= Max(S)
<1>1. PICK top \in S : \A x \in S : x <= top
  BY FiniteMax
<1>2. \A x \in S : top >= x
  BY <1>1
<1>3. Max(S) \in S /\ \A x \in S : Max(S) >= x
  BY <1>2 DEF Max
<1>4. QED
  BY <1>3


RowOf(positions) ==
  [is : {"row"}, monitor : Monitor \cup {NoMonitor}, status : ComponentStatus,
   position : positions, placed : BOOLEAN, born : Nat]

BoardRow == RowOf(Nat)

\* An order names each component at most once.
Order == {ids \in Seq(Component) : \A i, j \in DOMAIN ids : ids[i] = ids[j] => i = j}

BoardTypeOK ==
  /\ component \in [Component -> {Absent} \cup [is : {"deleted"}] \cup BoardRow]
  /\ editor \in [Editor -> {Idle} \cup [stage : {"create"}, position : Nat, placed : BOOLEAN]
                                  \cup [stage : {"reorder"}, ids : Order]]
  /\ raced \in BOOLEAN
  /\ IsFiniteSet(Component \ Fresh)

\* The rows no request chose the position of.
Fallen == {c \in Rows : ~component[c].placed}

DistinctPositions == \A c, d \in Fallen : Position(c) = Position(d) => c = d

\* The position a request keeps is no other row's that fell to its own.
KeptIsFree ==
  /\ \A e, f \in Falling : e = f
  /\ \A e \in Falling, c \in Fallen : Position(c) # editor[e].position

BoardInv == BoardTypeOK /\ (~raced => DistinctPositions /\ KeptIsFree)

\* The list of the components of a set, each once.
LEMMA Lists ==
  ASSUME NEW S \in SUBSET Component, IsFiniteSet(S), NEW ids \in SetToSeqs(S)
  PROVE  ids \in Order /\ ToSet(ids) \subseteq S
<1>1. Cardinality(S) \in Nat /\ ids \in [1..Cardinality(S) -> S]
  BY FS_CardinalityType DEF SetToSeqs
<1>2. \A i, j \in DOMAIN ids : ids[i] = ids[j] => i = j
  BY DEF SetToSeqs
<1>3. ids \in Seq(Component)
  BY <1>1
<1>4. QED
  BY <1>1, <1>2, <1>3 DEF Order, ToSet

\* The index of a component in an order that has it.
LEMMA Turns ==
  ASSUME NEW ids \in Order, NEW c \in ToSet(ids)
  PROVE  Turn(ids, c) \in Nat /\ Turn(ids, c) < Len(ids) /\ ids[Turn(ids, c) + 1] = c
<1> DEFINE i == CHOOSE i \in DOMAIN ids : ids[i] = c
<1>1. i \in DOMAIN ids /\ ids[i] = c
  BY DEF ToSet
<1>2. DOMAIN ids = 1..Len(ids) /\ Len(ids) \in Nat
  BY DEF Order
<1>3. Turn(ids, c) = i - 1
  BY DEF Turn
<1> HIDE DEF i
<1>4. QED
  BY <1>1, <1>2, <1>3

\* The lists a page can be created with are as finite as the components.
LEMMA BoardInvInit == ASSUME IsFiniteSet(Component), BoardInit PROVE BoardInv
<1>1. PICK first \in UNION {SetToSeqs(known) : known \in SUBSET Component},
           m \in [Component -> Monitor \cup {NoMonitor}], asked \in SUBSET Component :
        \E at \in [asked -> Place] :
          component = [c \in Component |->
            IF c \notin ToSet(first) THEN Absent
            ELSE ComponentRow(m[c], "OPERATIONAL", IF c \in asked THEN at[c] ELSE Turn(first, c),
                     c \in asked, 0)]
  BY DEF BoardInit
<1>2. PICK at \in [asked -> Place] :
        component = [c \in Component |->
          IF c \notin ToSet(first) THEN Absent
          ELSE ComponentRow(m[c], "OPERATIONAL", IF c \in asked THEN at[c] ELSE Turn(first, c),
                   c \in asked, 0)]
  BY <1>1
<1>3. /\ editor = [e \in Editor |-> Idle] /\ raced = FALSE
      /\ first \in Order /\ \A c \in asked : at[c] \in Nat
  <2>1. PICK known \in SUBSET Component : first \in SetToSeqs(known)
    OBVIOUS
  <2>2. IsFiniteSet(known)
    BY FS_Subset
  <2>3. first \in Order
    BY <2>1, <2>2, Lists
  <2>4. QED
    BY <2>3, StatusPageAssumption DEF BoardInit
<1>4. ASSUME NEW c \in Component
      PROVE  \/ c \notin ToSet(first) /\ component[c] = Absent
             \/ /\ c \in ToSet(first) /\ component[c] \in BoardRow
                /\ c \in asked => component[c].placed = TRUE
                /\ c \notin asked => component[c].position = Turn(first, c)
  <2>1. CASE c \notin ToSet(first)
    BY <1>2, <2>1
  <2>2. CASE c \in ToSet(first)
    <3> DEFINE place == IF c \in asked THEN at[c] ELSE Turn(first, c)
               chosen == c \in asked
    <3>1. place \in Nat
      BY <1>3, <2>2, Turns
    <3>2. component[c] = ComponentRow(m[c], "OPERATIONAL", place, chosen, 0)
      BY <1>2, <2>2
    <3>3. c \notin asked => place = Turn(first, c)
      OBVIOUS
    <3>4. m[c] \in Monitor \cup {NoMonitor} /\ chosen \in BOOLEAN /\ (c \in asked => chosen = TRUE)
      OBVIOUS
    <3> HIDE DEF place, chosen
    <3>5. QED
      BY <2>2, <3>1, <3>2, <3>3, <3>4 DEF ComponentRow, RowOf, BoardRow, ComponentStatus
  <2>3. QED
    BY <2>1, <2>2
<1>5. BoardTypeOK
  <2>1. IsFiniteSet(Component \ Fresh)
    BY FS_Subset
  <2>2. component \in [Component -> {Absent} \cup [is : {"deleted"}] \cup BoardRow]
    <3>1. component = [c \in Component |-> component[c]]
      BY <1>2
    <3>2. QED
      BY <1>4, <3>1
  <2>3. QED
    BY <1>3, <2>1, <2>2 DEF BoardTypeOK
<1>6. \A c \in Fallen : c \in ToSet(first) /\ Position(c) = Turn(first, c)
  <2> TAKE c \in Fallen
  <2>1. c \in Component /\ component[c].is = "row" /\ ~component[c].placed
    BY DEF Fallen, Rows
  <2>2. component[c] # Absent
    BY <2>1 DEF Absent
  <2>3. QED
    BY <1>4, <2>1, <2>2 DEF Position
<1>7. DistinctPositions
  BY <1>3, <1>6, Turns DEF DistinctPositions
<1>8. KeptIsFree
  BY <1>3 DEF KeptIsFree, Falling, Idle
<1>9. QED
  BY <1>5, <1>7, <1>8 DEF BoardInv

\* The rows are finitely many, and so are their positions.
LEMMA FiniteRows ==
  ASSUME BoardTypeOK
  PROVE  /\ IsFiniteSet(Rows)
         /\ \A c \in Rows : component[c] \in BoardRow /\ Position(c) \in Nat
         /\ {Position(c) : c \in Rows} \in SUBSET Nat
         /\ IsFiniteSet({Position(c) : c \in Rows})
<1>1. Rows \subseteq Component \ Fresh
  BY DEF Rows, Fresh
<1>2. IsFiniteSet(Rows)
  BY <1>1, FS_Subset DEF BoardTypeOK
<1>3. \A c \in Rows : component[c] \in BoardRow /\ Position(c) \in Nat
  BY DEF BoardTypeOK, Rows, Absent, RowOf, BoardRow, Position
<1> DEFINE Positions == {Position(c) : c \in Rows}
           at == [c \in Rows |-> Position(c)]
<1>4. at \in Surjection(Rows, Positions)
  BY DEF Surjection
<1>5. IsFiniteSet(Positions)
  <2> HIDE DEF Positions, at
  <2> QED
    BY <1>2, <1>4, FS_Surjection
<1>6. QED
  BY <1>2, <1>3, <1>5

\* The bottom is below every row.
LEMMA BottomIsFree ==
  ASSUME BoardTypeOK
  PROVE  Bottom \in Nat /\ \A c \in Rows : Position(c) < Bottom
<1>1. CASE Rows = {}
  BY <1>1 DEF Bottom
<1>2. CASE Rows # {}
  <2> DEFINE Positions == {Position(c) : c \in Rows}
  <2>1. Positions # {} /\ Positions \in SUBSET Nat /\ IsFiniteSet(Positions)
    BY <1>2, FiniteRows
  <2>2. Max(Positions) \in Positions /\ \A x \in Positions : x <= Max(Positions)
    <3> HIDE DEF Positions
    <3> QED
      BY <2>1, MaxIsGreatest
  <2>3. Max(Positions) \in Nat
    BY <2>1, <2>2
  <2>4. \A c \in Rows : Position(c) \in Nat /\ Position(c) <= Max(Positions)
    BY <2>2, FiniteRows
  <2>5. Bottom = Max(Positions) + 1
    BY <1>2 DEF Bottom
  <2> HIDE DEF Positions
  <2>6. QED
    BY <2>3, <2>4, <2>5
<1>3. QED
  BY <1>1, <1>2

\* What leaves the rows and the requests alone.
LEMMA BoardQuiet == ASSUME BoardInv, UNCHANGED <<component, editor, raced>> PROVE BoardInv'
BY DEF BoardInv, BoardTypeOK, DistinctPositions, KeptIsFree, Falling, Fallen, Rows, Fresh, Position

LEMMA ReadLastPositionStep ==
  ASSUME BoardInv, NEW e \in Editor, ReadLastPosition(e) PROVE BoardInv'
<1>1. /\ Rows' = Rows /\ Fallen' = Fallen /\ Fresh' = Fresh /\ component' = component
      /\ \A c : Position(c)' = Position(c)
  BY DEF ReadLastPosition, Rows, Fallen, Position, Fresh
<1>2. \A p \in Place : p \in Nat
  BY StatusPageAssumption
<1>3. ASSUME editor' = [editor EXCEPT ![e] = Creating(Bottom, FALSE)],
             raced' = (raced \/ Falling # {})
      PROVE  BoardInv'
  <2>1. Bottom \in Nat /\ \A c \in Rows : Position(c) < Bottom /\ Position(c) \in Nat
    BY BottomIsFree, FiniteRows DEF BoardInv
  <2>2. BoardTypeOK'
    BY <1>1, <1>3, <2>1 DEF BoardInv, BoardTypeOK, Creating
  <2>3. ASSUME ~raced' PROVE (DistinctPositions /\ KeptIsFree)'
    <3>1. ~raced /\ Falling = {}
      BY <1>3, <2>3
    <3>2. Falling' = {e} /\ editor'[e].position = Bottom
      BY <1>3, <3>1 DEF Falling, Creating, BoardInv, BoardTypeOK
    <3>3. DistinctPositions
      BY <3>1 DEF BoardInv
    <3>4. \A c \in Fallen : Position(c) # Bottom
      BY <2>1 DEF Fallen
    <3>5. QED
      BY <1>1, <3>2, <3>3, <3>4 DEF DistinctPositions, KeptIsFree
  <2>4. QED
    BY <2>2, <2>3 DEF BoardInv
<1>4. ASSUME NEW p \in Place, editor' = [editor EXCEPT ![e] = Creating(p, TRUE)],
             raced' = raced, editor[e] = Idle
      PROVE  BoardInv'
  <2>1. BoardTypeOK'
    BY <1>1, <1>2, <1>4 DEF BoardInv, BoardTypeOK, Creating
  <2>2. Falling' = Falling /\ \A f \in Falling : editor'[f] = editor[f]
    BY <1>4 DEF Falling, Creating, Idle, BoardInv, BoardTypeOK
  <2>3. ASSUME ~raced' PROVE (DistinctPositions /\ KeptIsFree)'
    BY <1>1, <1>4, <2>2, <2>3 DEF BoardInv, DistinctPositions, KeptIsFree
  <2>4. QED
    BY <2>1, <2>3 DEF BoardInv
<1>5. QED
  BY <1>3, <1>4 DEF ReadLastPosition

LEMMA InsertComponentStep ==
  ASSUME BoardInv, NEW e \in Editor, NEW c \in Component, InsertComponent(e, c) PROVE BoardInv'
<1>1. /\ editor[e].stage = "create" /\ editor[e].position \in Nat
      /\ editor[e].placed \in BOOLEAN /\ c \in Fresh /\ c \notin Rows
  BY DEF InsertComponent, BoardInv, BoardTypeOK, Idle, Fresh, Rows
<1> DEFINE count == Cardinality(Component \ Fresh)
<1>2. count \in Nat
  BY FS_CardinalityType DEF BoardInv, BoardTypeOK
<1> HIDE DEF count
<1>3. PICK m \in Monitor \cup {NoMonitor}, s \in Manual \cup {"OPERATIONAL"} :
        component' = [component EXCEPT ![c] =
          ComponentRow(m, s, editor[e].position, editor[e].placed, count)]
  BY DEF InsertComponent, count
<1>4. editor' = [editor EXCEPT ![e] = Idle] /\ raced' = raced
  BY DEF InsertComponent
<1>5. /\ component'[c] \in BoardRow /\ component'[c].position = editor[e].position
      /\ component'[c].placed = editor[e].placed
  <2>1. component'[c] = ComponentRow(m, s, editor[e].position, editor[e].placed, count)
    BY <1>3 DEF BoardInv, BoardTypeOK
  <2>2. s \in ComponentStatus
    BY StatusPageAssumption DEF ComponentStatus
  <2>3. QED
    BY <1>1, <1>2, <2>1, <2>2 DEF ComponentRow, RowOf, BoardRow
<1>6. \A d \in Component : d # c => component'[d] = component[d]
  BY <1>3 DEF BoardInv, BoardTypeOK
<1>7. /\ Position(c)' = editor[e].position
      /\ \A d \in Rows : Position(d)' = Position(d)
      /\ Fallen' = Fallen \cup (IF editor[e].placed THEN {} ELSE {c})
      /\ (Component \ Fresh)' = (Component \ Fresh) \cup {c}
  <2>1. component'[c].is = "row"
    BY <1>5 DEF RowOf, BoardRow
  <2>2. Rows' = Rows \cup {c} /\ (Component \ Fresh)' = (Component \ Fresh) \cup {c}
    BY <1>1, <1>6, <2>1 DEF Rows, Fresh
  <2>3. \A d \in Rows : d # c /\ component'[d] = component[d]
    BY <1>1, <1>6 DEF Rows
  <2>4. QED
    BY <1>5, <2>2, <2>3 DEF Position, Fallen
<1>8. BoardTypeOK'
  <2>1. IsFiniteSet((Component \ Fresh)')
    BY <1>7, FS_AddElement DEF BoardInv, BoardTypeOK
  <2>2. component' \in [Component -> {Absent} \cup [is : {"deleted"}] \cup BoardRow]
    BY <1>3, <1>5 DEF BoardInv, BoardTypeOK
  <2>3. QED
    BY <1>4, <2>1, <2>2 DEF BoardInv, BoardTypeOK
<1>9. Falling' = Falling \ {e} /\ \A f \in Falling' : editor'[f] = editor[f]
  BY <1>4 DEF Falling, Idle, BoardInv, BoardTypeOK
<1>10. ASSUME ~raced' PROVE (DistinctPositions /\ KeptIsFree)'
  <2>1. DistinctPositions /\ KeptIsFree /\ Fallen \subseteq Rows
    BY <1>4, <1>10 DEF BoardInv, Fallen
  <2>2. \A d \in Fallen : Position(d)' = Position(d)
    BY <1>7, <2>1
  <2>3. CASE editor[e].placed
    BY <1>7, <1>9, <2>1, <2>2, <2>3 DEF DistinctPositions, KeptIsFree
  <2>4. CASE ~editor[e].placed
    <3>1. e \in Falling
      BY <1>1, <2>4 DEF Falling
    <3>2. Falling' = {}
      BY <1>9, <2>1, <3>1 DEF KeptIsFree
    <3>3. \A d \in Fallen : Position(d) # editor[e].position
      BY <2>1, <3>1 DEF KeptIsFree
    <3>4. Fallen' = Fallen \cup {c}
      BY <1>7, <2>4
    <3>5. QED
      BY <1>7, <2>1, <2>2, <3>2, <3>3, <3>4 DEF DistinctPositions, KeptIsFree
  <2>5. QED
    BY <2>3, <2>4
<1>11. QED
  BY <1>8, <1>10 DEF BoardInv

LEMMA UpdateComponentStep ==
  ASSUME BoardInv, NEW c \in Component, UpdateComponent(c) PROVE BoardInv'
<1>1. PICK s \in Manual \cup {component[c].status}, m \in Monitor \cup {NoMonitor},
           p \in Place \cup {Position(c)} :
        component' = [component EXCEPT ![c] =
          ComponentRow(m, s, p, component[c].placed \/ p # Position(c), component[c].born)]
  BY DEF UpdateComponent
<1>2. c \in Rows /\ editor' = editor /\ raced' = raced
  BY DEF UpdateComponent
<1>3. component[c] \in BoardRow /\ Position(c) \in Nat
  BY <1>2, FiniteRows DEF BoardInv
<1> DEFINE asked == component[c].placed \/ p # Position(c)
<1>4. /\ component'[c] \in BoardRow /\ component'[c].position = p
      /\ component'[c].placed = asked
  <2>1. component'[c] = ComponentRow(m, s, p, asked, component[c].born)
    BY <1>1 DEF BoardInv, BoardTypeOK
  <2>2. /\ s \in ComponentStatus /\ p \in Nat /\ asked \in BOOLEAN
        /\ component[c].born \in Nat
    BY <1>3, StatusPageAssumption DEF RowOf, BoardRow
  <2> HIDE DEF asked
  <2>3. QED
    BY <2>1, <2>2 DEF ComponentRow, RowOf, BoardRow
<1>5. \A d \in Component : d # c => component'[d] = component[d]
  BY <1>1 DEF BoardInv, BoardTypeOK
<1>6. Rows' = Rows /\ Fresh' = Fresh
  BY <1>2, <1>3, <1>4, <1>5 DEF Rows, Fresh, RowOf, BoardRow
<1>7. Fallen' \subseteq Fallen /\ \A d \in Fallen' : Position(d)' = Position(d)
  <2>1. c \in Fallen' => ~component[c].placed /\ p = Position(c)
    BY <1>4 DEF Fallen
  <2>2. \A d \in Rows : d # c => component'[d] = component[d]
    BY <1>5 DEF Rows
  <2>3. QED
    BY <1>2, <1>4, <1>6, <2>1, <2>2 DEF Fallen, Position
<1>8. component' \in [Component -> {Absent} \cup [is : {"deleted"}] \cup BoardRow]
  BY <1>1, <1>4, <1>5 DEF BoardInv, BoardTypeOK
<1>9. BoardTypeOK'
  BY <1>2, <1>6, <1>8 DEF BoardInv, BoardTypeOK
<1>10. ASSUME ~raced PROVE (DistinctPositions /\ KeptIsFree)'
  <2>1. Falling' = Falling
    BY <1>2 DEF Falling
  <2>2. QED
    BY <1>2, <1>7, <1>10, <2>1 DEF BoardInv, DistinctPositions, KeptIsFree
<1>11. QED
  BY <1>2, <1>9, <1>10 DEF BoardInv

LEMMA DeleteComponentStep ==
  ASSUME BoardInv, NEW c \in Component, DeleteComponent(c) PROVE BoardInv'
<1>1. /\ component' = [component EXCEPT ![c] = [is |-> "deleted"]]
      /\ c \in Rows /\ editor' = editor /\ raced' = raced
  BY DEF DeleteComponent
<1>2. component'[c] = [is |-> "deleted"] /\ \A d \in Component : d # c => component'[d] = component[d]
  BY <1>1 DEF BoardInv, BoardTypeOK
<1>3. Rows' = Rows \ {c} /\ Fresh' = Fresh
  BY <1>1, <1>2 DEF Rows, Fresh
<1>4. Fallen' \subseteq Fallen /\ \A d \in Fallen' : Position(d)' = Position(d)
  BY <1>2, <1>3 DEF Rows, Fallen, Position
<1>5. BoardTypeOK'
  BY <1>1, <1>2, <1>3 DEF BoardInv, BoardTypeOK
<1>6. ASSUME ~raced PROVE (DistinctPositions /\ KeptIsFree)'
  <2>1. Falling' = Falling
    BY <1>1 DEF Falling
  <2>2. QED
    BY <1>1, <1>4, <1>6, <2>1 DEF BoardInv, DistinctPositions, KeptIsFree
<1>7. QED
  BY <1>1, <1>5, <1>6 DEF BoardInv

LEMMA BeginReorderStep ==
  ASSUME BoardInv, NEW e \in Editor, BeginReorder(e) PROVE BoardInv'
<1>1. PICK known \in SUBSET (Component \ Fresh) : \E ids \in SetToSeqs(known \cap Rows) :
        editor' = [editor EXCEPT ![e] = [stage |-> "reorder", ids |-> ids]]
  BY DEF BeginReorder
<1> DEFINE kept == known \cap Rows
<1>2. PICK ids \in SetToSeqs(kept) :
        editor' = [editor EXCEPT ![e] = [stage |-> "reorder", ids |-> ids]]
  BY <1>1
<1>3. component' = component /\ raced' = raced /\ editor[e] = Idle
  BY DEF BeginReorder
<1>4. ids \in Order
  <2>1. kept \in SUBSET Component /\ IsFiniteSet(kept)
    BY FiniteRows, FS_Subset DEF BoardInv, Rows
  <2> HIDE DEF kept
  <2>2. QED
    BY <2>1, Lists
<1>5. Rows' = Rows /\ Fallen' = Fallen /\ Fresh' = Fresh /\ \A c : Position(c)' = Position(c)
  BY <1>3 DEF Rows, Fallen, Fresh, Position
<1>6. BoardTypeOK'
  BY <1>2, <1>3, <1>4, <1>5 DEF BoardInv, BoardTypeOK
<1>7. Falling' = Falling /\ \A f \in Falling : editor'[f] = editor[f]
  BY <1>2, <1>3 DEF Falling, Idle, BoardInv, BoardTypeOK
<1>8. ASSUME ~raced PROVE (DistinctPositions /\ KeptIsFree)'
  BY <1>5, <1>7, <1>8 DEF BoardInv, DistinctPositions, KeptIsFree
<1>9. QED
  BY <1>3, <1>6, <1>8 DEF BoardInv

LEMMA WriteOrderStep ==
  ASSUME BoardInv, NEW e \in Editor, WriteOrder(e) PROVE BoardInv'
<1> DEFINE ids == editor[e].ids
           written == ToSet(ids) \subseteq Rows
<1>1. /\ editor[e].stage = "reorder"
      /\ editor' = [editor EXCEPT ![e] = Idle]
      /\ raced' = \/ raced
                  \/ written /\ ToSet(ids) # Rows
                  \/ written /\ \E f \in Falling : editor[f].position < Len(ids)
      /\ ~written => component' = component
      /\ written => component' = [c \in Component |->
           IF c \in ToSet(ids)
             THEN [component[c] EXCEPT !.position = Turn(ids, c), !.placed = FALSE]
             ELSE component[c]]
  BY DEF WriteOrder
<1>2. ids \in Order
  <2>1. editor[e].stage = "reorder"
    BY <1>1
  <2>2. editor[e] \in [stage : {"reorder"}, ids : Order]
    BY <2>1 DEF BoardInv, BoardTypeOK, Idle
  <2>3. QED
    BY <2>2
<1> HIDE DEF ids, written
<1>3. Falling' = Falling /\ \A f \in Falling : editor'[f] = editor[f]
  BY <1>1 DEF Falling, Idle, BoardInv, BoardTypeOK
<1>4. CASE ~written
  <2>1. /\ component' = component /\ raced' = raced /\ Rows' = Rows /\ Fallen' = Fallen
        /\ Fresh' = Fresh /\ \A c : Position(c)' = Position(c)
    BY <1>1, <1>4 DEF Rows, Fallen, Fresh, Position, BoardInv, BoardTypeOK
  <2>2. BoardTypeOK'
    BY <1>1, <2>1 DEF BoardInv, BoardTypeOK
  <2>3. QED
    BY <1>3, <2>1, <2>2 DEF BoardInv, DistinctPositions, KeptIsFree
<1>5. CASE written
  <2>1. ToSet(ids) \subseteq Rows
    BY <1>5 DEF written
  <2>2. ASSUME NEW c \in ToSet(ids)
        PROVE  /\ component'[c] \in BoardRow /\ ~component'[c].placed
               /\ component'[c].position = Turn(ids, c)
    <3>1. component[c] \in BoardRow /\ c \in Component
      BY <2>1, FiniteRows DEF BoardInv, Rows
    <3>2. component'[c] = [component[c] EXCEPT !.position = Turn(ids, c), !.placed = FALSE]
      BY <1>1, <1>5, <3>1
    <3>3. Turn(ids, c) \in Nat
      BY <1>2, Turns
    <3>4. QED
      BY <3>1, <3>2, <3>3 DEF RowOf, BoardRow
  <2>3. \A c \in Component : c \notin ToSet(ids) => component'[c] = component[c]
    BY <1>1, <1>5
  <2>4. Rows' = Rows /\ Fresh' = Fresh
    BY <2>1, <2>2, <2>3 DEF Rows, Fresh, RowOf, BoardRow
  <2>5. component' \in [Component -> {Absent} \cup [is : {"deleted"}] \cup BoardRow]
    <3>1. component \in [Component -> {Absent} \cup [is : {"deleted"}] \cup BoardRow]
      BY DEF BoardInv, BoardTypeOK
    <3>2. component' = [c \in Component |-> component'[c]]
      BY <1>1, <1>5
    <3>3. \A c \in Component : component'[c] \in {Absent} \cup [is : {"deleted"}] \cup BoardRow
      BY <2>2, <2>3, <3>1
    <3>4. QED
      BY <3>2, <3>3
  <2>6. BoardTypeOK'
    <3>1. raced' \in BOOLEAN
      BY <1>1 DEF BoardInv, BoardTypeOK
    <3>2. QED
      BY <1>1, <2>4, <2>5, <3>1 DEF BoardInv, BoardTypeOK
  <2>7. ASSUME ~raced' PROVE (DistinctPositions /\ KeptIsFree)'
    <3>1. ~raced /\ ToSet(ids) = Rows /\ \A f \in Falling : ~(editor[f].position < Len(ids))
      BY <1>1, <1>5, <2>7
    <3>2. KeptIsFree
      BY <3>1 DEF BoardInv
    <3>3. \A c \in Rows : Position(c)' = Turn(ids, c)
      BY <2>2, <3>1 DEF Position
    <3>4. DistinctPositions'
      BY <1>2, <2>4, <3>1, <3>3, Turns DEF DistinctPositions, Fallen
    <3>5. \A f \in Falling : editor[f].position \in Nat
      BY DEF Falling, BoardInv, BoardTypeOK, Idle
    <3>6. \A f \in Falling, c \in Rows : Position(c)' # editor'[f].position
      BY <1>2, <1>3, <3>1, <3>3, <3>5, Turns
    <3>7. QED
      BY <1>3, <2>4, <3>2, <3>4, <3>6 DEF KeptIsFree, Fallen
  <2>8. QED
    BY <2>6, <2>7 DEF BoardInv
<1>6. QED
  BY <1>4, <1>5

\* createComponent, updateComponent and reorderComponents together: components share a
\* position only where a request asked for it, unless a creation or an order was
\* overtaken in one of the three ways of NoTies.
THEOREM PositionsDiffer ==
  ASSUME IsFiniteSet(Component)
  PROVE  BoardSpec => []NoTies
<1>1. PageInit /\ BoardInit => BoardInv
  BY BoardInvInit
<1>2. BoardInv /\ [BoardNext]_<<page, boardVars>> => BoardInv'
  <2> SUFFICES ASSUME BoardInv, [BoardNext]_<<page, boardVars>> PROVE BoardInv'
    OBVIOUS
  <2>1. ASSUME NEW m \in Monitor, HealthChanges(m) PROVE BoardInv'
    BY <2>1, BoardQuiet DEF HealthChanges
  <2>2. ASSUME NEW e \in Editor, ReadLastPosition(e) PROVE BoardInv'
    BY <2>2, ReadLastPositionStep
  <2>3. ASSUME NEW e \in Editor, BeginReorder(e) PROVE BoardInv'
    BY <2>3, BeginReorderStep
  <2>4. ASSUME NEW e \in Editor, WriteOrder(e) PROVE BoardInv'
    BY <2>4, WriteOrderStep
  <2>5. ASSUME NEW e \in Editor, NEW c \in Component, InsertComponent(e, c) PROVE BoardInv'
    BY <2>5, InsertComponentStep
  <2>6. ASSUME NEW c \in Component, UpdateComponent(c) PROVE BoardInv'
    BY <2>6, UpdateComponentStep
  <2>7. ASSUME NEW c \in Component, DeleteComponent(c) PROVE BoardInv'
    BY <2>7, DeleteComponentStep
  <2>8. ASSUME UNCHANGED boardVars PROVE BoardInv'
    BY <2>8, BoardQuiet DEF boardVars
  <2>9. QED
    BY <2>1, <2>2, <2>3, <2>4, <2>5, <2>6, <2>7, <2>8 DEF BoardNext
<1>3. BoardInv => NoTies
  BY DEF BoardInv, DistinctPositions, Fallen, NoTies
<1>4. QED
  BY <1>1, <1>2, <1>3, PTL DEF BoardSpec

=============================================================================
