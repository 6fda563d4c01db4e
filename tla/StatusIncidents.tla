--------------------------- MODULE StatusIncidents ---------------------------
(***************************************************************************)
(* The incidents an operator tells of on a status page, the people who     *)
(* subscribed to them, and the mails they get: services/                   *)
(* status-page.service.ts and services/status-notifier.ts.                 *)
(*                                                                         *)
(* An update is inserted and then copied to its incident by a statement of *)
(* its own; then the active subscribers are read and a mail job is queued  *)
(* for each.  Subscribing, confirming and unsubscribing each read the row  *)
(* and then write it.  Requests overlap between any two statements, and    *)
(* one may die there.                                                      *)
(***************************************************************************)
EXTENDS Page, Naturals, Sequences, SequencesExt, FiniteSets

CONSTANTS
  Incident,
  Post,        \* requests of operators, each made at most once
  Address,     \* normalized addresses
  Told,        \* the statuses operators report
  Visit,       \* requests of subscribers, each made at most once
  None

IncidentStatus == {"INVESTIGATING", "IDENTIFIED", "MONITORING", "RESOLVED"}

VARIABLES
  incident,    \* the rows with their updates
  post,
  subscriber,  \* the rows
  visit,
  links,       \* confirmation links mailed
  mails,       \* mail jobs about incidents, by their id: update and address
  wish,        \* what the owner of an address did last
  crossed      \* incidents and addresses whose requests overlapped or died

storyVars      == <<incident, post, mails>>
subscriberVars == <<subscriber, visit, links, wish>>
incidentVars   == <<storyVars, subscriberVars, crossed>>

NoIncident == [is |-> "none"]
Unmade == [stage |-> "unmade"]
Over   == [stage |-> "over"]

IncidentsInit ==
  /\ incident = [i \in Incident |-> NoIncident]
  /\ post = [p \in Post |-> Unmade]
  /\ subscriber = [a \in Address |-> [status |-> "NONE", token |-> None]]
  /\ visit = [v \in Visit |-> Unmade]
  /\ links = {}
  /\ mails = {}
  /\ wish = [a \in Address |-> "nothing"]
  /\ crossed = {}

\* Requests differ in nothing but their names, so the next one is any one.
IsNext(r, requests) == r = CHOOSE q \in DOMAIN requests : requests[q] = Unmade

\* Requests about the same thing overlap when one begins before another is over.
CrossedBy(x, requests) ==
  IF \E r \in DOMAIN requests : requests[r].stage \notin {"unmade", "over"} /\ requests[r].of = x
    THEN crossed \cup {x} ELSE crossed

-----------------------------------------------------------------------------
(* Incidents and their updates *)

\* openIncident: the incident and its first update in one statement.
OpenIncident(p, i) ==
  /\ post[p] = Unmade /\ IsNext(p, post) /\ ~page.deleted
  /\ incident[i] = NoIncident
  /\ incident' = [incident EXCEPT ![i] =
       [is |-> "row", status |-> "INVESTIGATING", resolved |-> FALSE,
        updates |-> <<"INVESTIGATING">>]]
  /\ post' = [post EXCEPT ![p] = [stage |-> "notify", of |-> i, status |-> "INVESTIGATING"]]
  /\ UNCHANGED <<page, mails, subscriberVars, crossed>>

\* addIncidentUpdate: the update ...
InsertUpdate(p, i) ==
  /\ post[p] = Unmade /\ IsNext(p, post) /\ ~page.deleted
  /\ incident[i] # NoIncident
  /\ \E s \in Told :
       /\ incident' = [incident EXCEPT ![i].updates = Append(@, s)]
       /\ post' = [post EXCEPT ![p] = [stage |-> "copy", of |-> i, status |-> s]]
  /\ crossed' = CrossedBy(i, post)
  /\ UNCHANGED <<page, mails, subscriberVars>>

\* Mutant of CopyStatus: resolvedAt is set and never cleared.
CopyStatusOnly(p) ==
  /\ post[p].stage = "copy"
  /\ LET s == post[p].status
     IN  incident' = [incident EXCEPT ![post[p].of] =
           [@ EXCEPT !.status = s, !.resolved = @ \/ s = "RESOLVED"]]
  /\ post' = [post EXCEPT ![p].stage = "notify"]
  /\ UNCHANGED <<page, mails, subscriberVars, crossed>>

\* ... then the incident, which a later status opens again.
CopyStatus(p) ==
  /\ post[p].stage = "copy"
  /\ LET s == post[p].status
     IN  incident' = [incident EXCEPT ![post[p].of] =
           [@ EXCEPT !.status = s, !.resolved = s = "RESOLVED"]]
  /\ post' = [post EXCEPT ![p].stage = "notify"]
  /\ UNCHANGED <<page, mails, subscriberVars, crossed>>

\* notifyIncident: those active now ...
ReadSubscribers(p) ==
  /\ post[p].stage = "notify"
  /\ post' = [post EXCEPT ![p] =
       [stage |-> "mail", of |-> @.of, to |-> {a \in Address : subscriber[a].status = "ACTIVE"}]]
  /\ UNCHANGED <<page, incident, mails, subscriberVars, crossed>>

\* ... get a mail each; one that cannot be queued is logged and given up.
QueueMail(p) ==
  /\ post[p].stage = "mail"
  /\ IF post[p].to = {}
       THEN post' = [post EXCEPT ![p] = Over] /\ UNCHANGED mails
       ELSE \E a \in post[p].to :
              /\ post' = [post EXCEPT ![p].to = @ \ {a}]
              /\ mails' \in {mails, mails \cup {<<p, a>>}}
  /\ UNCHANGED <<page, incident, subscriberVars, crossed>>

\* A statement fails, or the process stops, half way.
PostDies(p) ==
  /\ post[p].stage \in {"copy", "notify", "mail"}
  /\ post' = [post EXCEPT ![p] = Over]
  /\ crossed' = crossed \cup {post[p].of}
  /\ UNCHANGED <<page, incident, mails, subscriberVars>>

-----------------------------------------------------------------------------
(* Subscribers *)

Begins(v, a, stage) ==
  /\ visit[v] = Unmade /\ IsNext(v, visit)
  /\ visit' = [visit EXCEPT ![v] = [stage |-> stage, of |-> a]]
  /\ crossed' = CrossedBy(a, visit)

\* Mutant of Subscribe: an active one is asked to confirm again.
SubscribeAgain(v, a) ==
  /\ visit[v] = Unmade /\ IsNext(v, visit) /\ Served
  /\ Begins(v, a, "subscribe")
  /\ wish' = [wish EXCEPT ![a] = IF subscriber[a].status = "ACTIVE" THEN @ ELSE "subscribe"]
  /\ UNCHANGED <<page, storyVars, subscriber, links>>

\* subscribe: nothing is done for an active one ...
Subscribe(v, a) ==
  /\ visit[v] = Unmade /\ IsNext(v, visit) /\ Served
  /\ IF subscriber[a].status = "ACTIVE"
       THEN /\ visit' = [visit EXCEPT ![v] = Over]
            /\ UNCHANGED <<wish, crossed>>
       ELSE /\ Begins(v, a, "subscribe")
            /\ wish' = [wish EXCEPT ![a] = "subscribe"]
  /\ UNCHANGED <<page, storyVars, subscriber, links>>

\* ... anyone else becomes pending, whatever the row says by now; a new token
\* takes the place of the old one, and is mailed if the queue accepts it.
UpsertPending(v) ==
  LET a == visit[v].of
  IN  /\ visit[v].stage = "subscribe"
      /\ subscriber' = [subscriber EXCEPT ![a] = [status |-> "PENDING", token |-> v]]
      /\ links' \in {links, links \cup {<<v, a>>}}
      /\ visit' = [visit EXCEPT ![v] = Over]
      /\ UNCHANGED <<page, storyVars, wish, crossed>>

\* verifySubscriber: the link of a mail is opened; only the latest token is found.
FindByToken(v, a) ==
  /\ ~page.deleted
  /\ \E link \in links : link[2] = a /\ subscriber[a].token = link[1]
  /\ Begins(v, a, "verify")
  /\ wish' = [wish EXCEPT ![a] = "confirm"]
  /\ UNCHANGED <<page, storyVars, subscriber, links>>

Activate(v) ==
  /\ visit[v].stage = "verify"
  /\ subscriber' = [subscriber EXCEPT ![visit[v].of] = [status |-> "ACTIVE", token |-> None]]
  /\ visit' = [visit EXCEPT ![v] = Over]
  /\ UNCHANGED <<page, storyVars, links, wish, crossed>>

\* unsubscribe: the link of any mail about an incident, old or new.
FindByUnsubscribe(v, a) ==
  /\ ~page.deleted
  /\ \E mail \in mails : mail[2] = a
  /\ Begins(v, a, "unsubscribe")
  /\ wish' = [wish EXCEPT ![a] = "unsubscribe"]
  /\ UNCHANGED <<page, storyVars, subscriber, links>>

\* The confirmation token of a subscription that is pending stays.
MarkUnsubscribed(v) ==
  /\ visit[v].stage = "unsubscribe"
  /\ subscriber' = [subscriber EXCEPT ![visit[v].of].status = "UNSUBSCRIBED"]
  /\ visit' = [visit EXCEPT ![v] = Over]
  /\ UNCHANGED <<page, storyVars, links, wish, crossed>>

VisitDies(v) ==
  /\ visit[v].stage \in {"subscribe", "verify", "unsubscribe"}
  /\ visit' = [visit EXCEPT ![v] = Over]
  /\ crossed' = crossed \cup {visit[v].of}
  /\ UNCHANGED <<page, storyVars, subscriber, links, wish>>

IncidentsNext ==
  \/ \E p \in Post : \/ \E i \in Incident : OpenIncident(p, i) \/ InsertUpdate(p, i)
                     \/ CopyStatus(p) \/ ReadSubscribers(p) \/ QueueMail(p) \/ PostDies(p)
  \/ \E v \in Visit : \/ \E a \in Address : \/ Subscribe(v, a) \/ FindByToken(v, a)
                                            \/ FindByUnsubscribe(v, a)
                      \/ UpsertPending(v) \/ Activate(v) \/ MarkUnsubscribed(v) \/ VisitDies(v)
  \/ PageNext /\ UNCHANGED incidentVars

IncidentsSpec ==
  PageInit /\ IncidentsInit /\ [][IncidentsNext]_<<page, incidentVars>>

-----------------------------------------------------------------------------
(* What it is checked for *)

Quiet(x, requests) ==
  x \notin crossed /\ \A r \in DOMAIN requests : requests[r].stage \in {"copy", "subscribe", "verify",
                                                    "unsubscribe"} => requests[r].of # x

\* The page lists an incident as active exactly while its latest update does not say
\* RESOLVED, through any sequence of updates that closes it and opens it again, as
\* long as no two of them overlap and none dies half way.
OneStory ==
  \A i \in Incident : incident[i] # NoIncident /\ Quiet(i, post) =>
    LET latest == Last(incident[i].updates)
    IN  incident[i].status = latest /\ (incident[i].resolved <=> latest = "RESOLVED")

\* Mails go to the addresses whose owners confirmed them and did not unsubscribe
\* since, and to all of these, whatever links, old or new, were opened in whatever
\* order, as long as no two requests about an address overlap and none dies.
Consent ==
  \A a \in Address : Quiet(a, visit) =>
    (subscriber[a].status = "ACTIVE" <=> wish[a] = "confirm")

=============================================================================
