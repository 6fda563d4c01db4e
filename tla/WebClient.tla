------------------------------ MODULE WebClient ------------------------------
(***************************************************************************)
(* One member at the dashboard, and the API it talks to.                   *)
(*                                                                         *)
(* The cache entries of different queries do not depend on one another, so *)
(* the model follows one of them, `watched`, whichever it is.  What it     *)
(* shows is a version: the number of this member's own changes to the      *)
(* facts behind it.  The member's role changes on the server (somebody     *)
(* else changes it, or removes them) while the browser goes on with the    *)
(* role it read last.  A request reads the role, is checked, is handled    *)
(* and answered in steps of their own, and its answer may be lost.         *)
(***************************************************************************)
EXTENDS WebPages

CONSTANTS Queries,      \* the queries followed, one per behaviour
          Away,         \* the page that stands for those without the query
          NewRoles,     \* what a role may be changed to; "none" is a removal
          MaxWrites,    \* bounds the changes the member makes
          MaxRoleChanges

ASSUME WebAssumption ==
    /\ Queries \subseteq QueriesNamed
    /\ Away \in DOMAIN Pages
    /\ NewRoles \subseteq OrgRoles \union {"none"}
    /\ MaxWrites \in Nat
    /\ MaxRoleChanges \in Nat

VARIABLES role,     \* the member's role in the database, "none" once removed
          known,    \* the role the browser read last, with /v1/me
          page,     \* the screen
          watched,  \* the query followed
          version,  \* how many of the member's changes its facts have seen
          told,     \* the version the member has been told of
          entry,    \* the cache entry: what it shows, and whether to trust it
          fetch,    \* its fetch under way
          request,  \* the member's change under way
          writes, roleChanges \* counters for the bounds

webVars == <<role, known, page, watched, version, told, entry, fetch, request, writes, roleChanges>>

NoFetch == [state |-> "none"]

NoRequest == [state |-> "none"]

Empty == [has |-> FALSE, seen |-> 0, invalid |-> FALSE, old |-> FALSE, behind |-> FALSE]

\* The pages the member visits: those with the query on them, and another.
ScreensOf ==
    [q \in Queries |-> {p \in DOMAIN Pages : q \in {r[1] : r \in Pages[p].reads}} \union {Away}]

Screens == ScreensOf[watched]

WebInit ==
    /\ role \in OrgRoles
    /\ known = role
    /\ watched \in Queries
    /\ page \in Screens
    /\ version = 0 /\ told = 0
    /\ entry = Empty
    /\ fetch = NoFetch
    /\ request = NoRequest
    /\ writes = 0 /\ roleChanges = 0

Hook(m) == MutationHooks[m]

\* Changes that some screen offers beside a query they do not fetch again:
\* the history of deliveries, after a test.
NotRefreshed == {<<"testIntegration", "deliveries">>, <<"testWebhook", "deliveries">>}

\* Whether m changes what the watched query shows.
Touches(m) == Endpoints[m].affects \intersect Shows(watched) # {}

\* Whether the answer to m promises that the watched query is current.
Promises(m) == watched \in Together[m] /\ <<m, watched>> \notin NotRefreshed

Key == QueryKeys[watched]

\* The queries whose hooks ask again on a timer, while they are mounted; the
\* overview asks for everything again on one of its own.
Polled == {"incidents", "incidentSummary", "incident", "whoIsOnCall"}

IsMounted(p, r) == watched \in MountedFor[p][r]

\* A fetch of the watched query begins; it shows what the server will hold
\* when it reads.
Begin == [state |-> "asked", seen |-> 0, reached |-> FALSE, by |-> known, as |-> "none"]

\* A mounting screen fetches what it does not have, or cannot trust.
OnMount(p, r) ==
    IF IsMounted(p, r) /\ ~IsMounted(page, known) /\ fetch.state = "none"
         /\ (~entry.has \/ entry.invalid \/ entry.old)
      THEN fetch' = [Begin EXCEPT !.by = r]
      ELSE UNCHANGED fetch

---------------------------------------------------------------------------
(* The browser                                                             *)

\* The member opens another screen.
Navigate(p) ==
    /\ p # page
    /\ page' = p
    /\ OnMount(p, known)
    /\ UNCHANGED <<role, known, watched, version, told, entry, request, writes, roleChanges>>

\* The first screen, or one whose query a new role has just enabled.
FirstMount ==
    /\ IsMounted(page, known) /\ ~entry.has /\ fetch.state = "none"
    /\ fetch' = Begin
    /\ UNCHANGED <<role, known, page, watched, version, told, entry, request, writes, roleChanges>>

\* Fifteen seconds pass: an entry is stale, and fetched on the next mount.
Ages ==
    /\ entry.has /\ ~entry.old
    /\ entry' = [entry EXCEPT !.old = TRUE]
    /\ UNCHANGED <<role, known, page, watched, version, told, fetch, request, writes, roleChanges>>

\* An entry no screen uses is dropped in the end.
Forget ==
    /\ entry.has /\ ~IsMounted(page, known) /\ fetch.state = "none"
    /\ entry' = Empty
    /\ UNCHANGED <<role, known, page, watched, version, told, fetch, request, writes, roleChanges>>

\* A timer asks again: the query's own, or the overview's.
Poll ==
    /\ IsMounted(page, known) /\ fetch.state = "none" /\ entry.has
    /\ watched \in Polled \/ page = "dashboard"
    /\ fetch' = Begin
    /\ UNCHANGED <<role, known, page, watched, version, told, entry, request, writes, roleChanges>>

\* /v1/me is read again: the browser learns the member's role.
RefreshMe ==
    /\ known # role
    /\ known' = role
    /\ OnMount(page, role)
    /\ UNCHANGED <<role, page, watched, version, told, entry, request, writes, roleChanges>>

\* The member uses a control: the request leaves, and an optimistic hook
\* stops the fetches of what it changes and shows the change at once.
Mutate(m) ==
    /\ request.state = "none" /\ writes < MaxWrites
    /\ LET guess == Key \in Hook(m).optimistic
           stops == \E k \in Hook(m).optimistic : Reaches(k, Key)
       IN /\ request' = [state |-> "sent", mutation |-> m, by |-> known, as |-> "none",
                         guess |-> guess /\ entry.has,
                         previous |-> IF guess THEN entry ELSE Empty]
          /\ entry' = IF guess /\ entry.has /\ Touches(m)
                        THEN [entry EXCEPT !.seen = version + 1, !.old = FALSE,
                                           !.invalid = FALSE, !.behind = FALSE]
                        ELSE entry
          /\ fetch' = IF stops THEN NoFetch ELSE fetch
    /\ writes' = writes + 1
    /\ UNCHANGED <<role, known, page, watched, version, told, roleChanges>>

---------------------------------------------------------------------------
(* The server                                                              *)

\* Somebody changes the member's role, or removes them.
ChangeRole(r) ==
    /\ roleChanges < MaxRoleChanges /\ r # role /\ role # "none"
    /\ role' = r
    /\ roleChanges' = roleChanges + 1
    /\ UNCHANGED <<known, page, watched, version, told, entry, fetch, request, writes>>

\* authenticate, orgContext, requirePermission: the membership is read from
\* the database for every request, and the endpoint's guard decides.
Authorize ==
    /\ request.state = "sent"
    /\ LET allowed == HasPermission(role, {Endpoints[request.mutation].needs})
       IN request' = [request EXCEPT !.as = role,
                                     !.state = IF allowed THEN "allowed" ELSE "refused"]
    /\ UNCHANGED <<role, known, page, watched, version, told, entry, fetch, writes, roleChanges>>

\* The handler changes its facts.
Handle ==
    /\ request.state = "allowed"
    /\ request' = [request EXCEPT !.state = "done"]
    /\ version' = IF Touches(request.mutation) THEN version + 1 ELSE version
    /\ UNCHANGED <<role, known, page, watched, told, entry, fetch, writes, roleChanges>>

\* The same for a read: what it shows is what the server holds now.
ServeRead ==
    /\ fetch.state = "asked"
    /\ LET allowed == HasPermission(role, {Endpoints[EndpointOf(watched)].needs})
       IN fetch' = [fetch EXCEPT !.as = role, !.seen = version,
                                 !.state = IF allowed THEN "served" ELSE "refused"]
    /\ UNCHANGED <<role, known, page, watched, version, told, entry, request, writes, roleChanges>>

---------------------------------------------------------------------------
(* The answers                                                             *)

\* A fetch is answered.
Receive ==
    /\ fetch.state = "served"
    /\ entry' = [has |-> TRUE, seen |-> fetch.seen, invalid |-> FALSE, old |-> FALSE,
                 behind |-> fetch.reached]
    /\ fetch' = NoFetch
    /\ UNCHANGED <<role, known, page, watched, version, told, request, writes, roleChanges>>

\* A refused fetch leaves the entry as it was; it is asked once more, then
\* when the query is mounted anew (here: at any time).
Denied ==
    /\ fetch.state = "refused"
    /\ fetch' = NoFetch
    /\ UNCHANGED <<role, known, page, watched, version, told, entry, request, writes, roleChanges>>

\* Invalidating the entry e: it is fetched at once when a screen shows it.  A
\* fetch under way is dropped for a new one, unless it is the entry's first
\* or no screen shows the entry: such a fetch goes on, and its answer, read
\* before the change perhaps, makes the entry valid again.
Invalidated(e) ==
    LET shown  == IsMounted(page, known)
        goesOn == fetch.state # "none" /\ (~shown \/ ~e.has)
    IN /\ entry' = [e EXCEPT !.invalid = e.has]
       /\ fetch' = IF goesOn THEN [fetch EXCEPT !.reached = TRUE]
                   ELSE IF shown THEN Begin
                   ELSE fetch

\* The change was made: the hook puts the answer in its entry and invalidates
\* its keys.  A hook that only puts the answer leaves a fetch on its way, which
\* will overwrite it.
Answered ==
    /\ request.state = "done"
    /\ LET hook == Hook(request.mutation)
           e    == IF Key \in hook.sets
                     THEN [has |-> TRUE, seen |-> version, invalid |-> FALSE, old |-> FALSE,
                           behind |-> FALSE]
                     ELSE entry
       IN IF \E k \in hook.invalidates : Reaches(k, Key)
            THEN Invalidated(e)
            ELSE /\ entry' = e
                 /\ fetch' = IF Key \in hook.sets /\ fetch.state # "none"
                               THEN [fetch EXCEPT !.reached = TRUE] ELSE fetch
    /\ told' = IF Promises(request.mutation) /\ Touches(request.mutation) THEN version ELSE told
    /\ request' = NoRequest
    /\ UNCHANGED <<role, known, page, watched, version, writes, roleChanges>>

\* The change was refused, or its answer was lost: an optimistic hook takes
\* back what it showed and invalidates its keys; the others do nothing.
Failed ==
    /\ request.state \in {"refused", "done"}
    /\ LET hook == Hook(request.mutation)
           e    == IF request.guess THEN request.previous ELSE entry
       IN IF hook.optimistic # {} /\ \E k \in hook.invalidates : Reaches(k, Key)
            THEN Invalidated(e)
            ELSE entry' = e /\ UNCHANGED fetch
    /\ request' = NoRequest
    /\ UNCHANGED <<role, known, page, watched, version, told, writes, roleChanges>>

WebNext ==
    \/ \E p \in Screens : Navigate(p)
    \/ FirstMount \/ Ages \/ Forget \/ Poll \/ RefreshMe
    \/ \E m \in OfferedTo[page][known] : Mutate(m)
    \/ \E r \in NewRoles : ChangeRole(r)
    \/ Authorize \/ Handle \/ ServeRead
    \/ Receive \/ Denied \/ Answered \/ Failed

WebSpec == WebInit /\ [][WebNext]_webVars

---------------------------------------------------------------------------
(* The properties                                                          *)

\* Controls and queries that ask for less than the endpoints behind them: the
\* maintenance page has no gate, and the names of the members are asked for
\* on screens that a developer, who may not read them, can open.
UngatedControls == {"createWindow", "deleteWindow"}

UngatedQueries == {"members"}

\* What a screen offers or asks for is refused only when the role has changed
\* since the browser read it: the dashboard's gates and the API's guards read
\* one matrix, each in its own way.
NothingOfferedIsRefused ==
    /\ request.state = "refused" =>
         request.as # request.by \/ request.mutation \in UngatedControls
    /\ fetch.state = "refused" => fetch.as # fetch.by \/ watched \in UngatedQueries

\* Once everything has settled, a screen that was told of a change shows it:
\* no hook forgets a query that is mounted beside its control, no earlier
\* fetch overwrites a later change, no guess outlives the server's answer.
\* The exceptions are the fetches the change overtakes and nobody stops
\* (entry.behind): a first load, one no screen waits for, and one whose entry
\* is given the answer without being invalidated.
ScreenIsCurrent ==
    (/\ request.state = "none" /\ fetch.state = "none"
     /\ IsMounted(page, known) /\ entry.has /\ ~entry.behind /\ ~entry.invalid
     /\ known = role)
    => entry.seen >= told /\ entry.seen <= version
=============================================================================
