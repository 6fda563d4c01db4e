------------------------------ MODULE WebHooks ------------------------------
(***************************************************************************)
(* What the dashboard remembers of the server: apps/web/lib.  A query is   *)
(* the cache entry of one endpoint's answer, under a key; keys are         *)
(* sequences, and invalidating a key invalidates every entry whose key     *)
(* begins with it.  A mutation is a write and what its hook does to the    *)
(* cache: the keys it invalidates once answered, the entries it replaces   *)
(* by the answer, and the entries it changes before the answer             *)
(* (optimistic).  The keys leave out the leading "org", organisation: one  *)
(* organisation is active at a time.  One monitor, incident, schedule,     *)
(* policy and page stands for the one a screen is about.                   *)
(***************************************************************************)
EXTENDS ApiRoutes, Sequences

Query(name, key) == [name |-> name, key |-> key]

\* The hooks that invalidate the same keys and do nothing else.
Mutations(names, invalidates) ==
    {[name |-> n, invalidates |-> invalidates, sets |-> {}, optimistic |-> {}] : n \in names}

Mutation(name, invalidates) == Mutations({name}, invalidates)

Setting(hooks, keys) == {[h EXCEPT !.sets = keys] : h \in hooks}

Optimistic(hooks, keys) == {[h EXCEPT !.optimistic = keys] : h \in hooks}

\* Whether invalidating `prefix` reaches the entry under `key`.
Reaches(prefix, key) ==
    Len(prefix) <= Len(key) /\ SubSeq(key, 1, Len(prefix)) = prefix

---------------------------------------------------------------------------
(* lib/monitors.ts: a monitor's checks, windows and incidents live under   *)
(* the key of its list, so that invalidating the list reaches them all.    *)

MonitorKeys ==
    [all |-> <<"monitors">>, detail |-> <<"monitors", "id">>]

MonitorQueries ==
    { Query("monitors", MonitorKeys.all),
      Query("monitor", MonitorKeys.detail),
      Query("checkResults", <<"monitors", "id", "check-results">>),
      Query("monitorWindows", <<"monitors", "id", "maintenance-windows">>),
      Query("monitorIncidents", <<"monitors", "id", "incidents">>) }

UseCreateMonitor == Mutation("createMonitor", {MonitorKeys.all})

UseUpdateMonitor ==
    Setting(Mutation("updateMonitor", {MonitorKeys.all}), {MonitorKeys.detail})

UseDeleteMonitor == Mutation("deleteMonitor", {MonitorKeys.all})

\* A mutant of UseToggleMonitorState: only the entry it guessed is fetched
\* again.
UseToggleMonitorStateInPlace ==
    Optimistic(Mutations({"pauseMonitor", "resumeMonitor"}, {}), {MonitorKeys.all})

\* The list shows the new state at once; it is fetched again whatever the
\* outcome.
UseToggleMonitorState ==
    Optimistic(Mutations({"pauseMonitor", "resumeMonitor"}, {MonitorKeys.all, MonitorKeys.detail}),
               {MonitorKeys.all})

\* Binding channels reaches the monitor and what hangs from it, not the list.
UseSetMonitorChannels == Mutation("setChannels", {MonitorKeys.detail})

(* lib/incidents.ts *)

IncidentDetailKey == <<"incidents", "detail", "id">>

IncidentQueries ==
    { Query("incidents", <<"incidents", "list">>),
      Query("incidentSummary", <<"incidents", "summary">>),
      Query("incident", IncidentDetailKey) }

InvalidateIncidents == {<<"incidents">>, MonitorKeys.all, IncidentDetailKey}

UseAcknowledgeIncident ==
    Setting(Mutation("acknowledge", InvalidateIncidents), {IncidentDetailKey})

UseResolveIncident ==
    Setting(Mutation("resolve", InvalidateIncidents), {IncidentDetailKey})

UseCommentIncident == Mutation("comment", InvalidateIncidents)

(* lib/maintenance-windows.ts *)

WindowQueries ==
    { Query("windows", <<"maintenance-windows">>) }

WindowMutations == Mutations({"createWindow", "deleteWindow"}, {<<"maintenance-windows">>})

(* lib/alert-channels.ts, and the smaller reading of lib/monitors.ts, whose *)
(* key is the prefix of the other's.                                       *)

ChannelQueries ==
    { Query("channels", <<"alert-channels", "list">>),
      Query("channel", <<"alert-channels", "detail", "id">>),
      Query("monitorChannels", <<"alert-channels">>) }

ChannelMutations ==
    Mutations({"createChannel", "updateChannel", "deleteChannel", "enableChannel",
               "disableChannel", "testChannel"}, {<<"alert-channels">>})

(* lib/escalation-policies.ts, and again a smaller reading of its list.    *)

PolicyQueries ==
    { Query("policies", <<"escalation-policies", "list">>),
      Query("policy", <<"escalation-policies", "detail", "id">>),
      Query("monitorPolicies", <<"escalation-policies">>) }

PolicyMutations ==
    Mutations({"createPolicy", "updatePolicy", "deletePolicy"}, {<<"escalation-policies">>})

(* lib/oncall-schedules.ts *)

OnCallKeys ==
    [ all       |-> <<"oncall-schedules">>,
      list      |-> <<"oncall-schedules", "list">>,
      detail    |-> <<"oncall-schedules", "detail", "id">>,
      onCall    |-> <<"oncall-schedules", "on-call", "id">>,
      overrides |-> <<"oncall-schedules", "overrides", "id">> ]

OnCallQueries ==
    { Query("schedules", OnCallKeys.list),
      Query("schedule", OnCallKeys.detail),
      Query("whoIsOnCall", OnCallKeys.onCall),
      Query("overrides", OnCallKeys.overrides) }

ScheduleMutations ==
    Mutations({"createSchedule", "updateSchedule", "deleteSchedule"}, {OnCallKeys.all})

\* An override decides who is on call: that entry is fetched again too.
OverrideMutations ==
    Mutations({"addOverride", "removeOverride"}, {OnCallKeys.overrides, OnCallKeys.onCall})

(* lib/integrations.ts.  The history of deliveries is not under the key    *)
(* that the integrations' own changes invalidate.                          *)

IntegrationQueries ==
    { Query("slack", <<"integrations", "slack">>),
      Query("discord", <<"integrations", "discord">>),
      Query("webhooks", <<"integrations", "webhooks">>),
      Query("deliveries", <<"integration-deliveries">>) }

IntegrationMutations ==
    Mutations({"createIntegration", "deleteIntegration", "testIntegration",
               "createWebhook", "deleteWebhook", "testWebhook"}, {<<"integrations">>})

(* lib/status-pages.ts: everything of a page is under the list's key.      *)

StatusPageKeys ==
    [ all         |-> <<"status-pages">>,
      detail      |-> <<"status-pages", "id">>,
      components  |-> <<"status-pages", "id", "components">>,
      incidents   |-> <<"status-pages", "id", "incidents">>,
      subscribers |-> <<"status-pages", "id", "subscribers">> ]

StatusPageQueries ==
    { Query("pages", StatusPageKeys.all),
      Query("page", StatusPageKeys.detail),
      Query("components", StatusPageKeys.components),
      Query("pageIncidents", StatusPageKeys.incidents),
      Query("subscribers", StatusPageKeys.subscribers) }

UseCreateStatusPage == Mutation("createPage", {StatusPageKeys.all})

UseUpdateStatusPage == Mutation("updatePage", {StatusPageKeys.all, StatusPageKeys.detail})

UseDeleteStatusPage == Mutation("deletePage", {StatusPageKeys.all})

\* A copy is made by reading the components and creating a page with them:
\* the write is that of a creation.
UseDuplicateStatusPage == UseCreateStatusPage

UseCreateComponent == Mutation("createComponent", {StatusPageKeys.components})

UseUpdateComponent ==
    Optimistic(Mutation("updateComponent", {StatusPageKeys.components}),
               {StatusPageKeys.components})

UseDeleteComponent == Mutation("deleteComponent", {StatusPageKeys.components})

\* The new order is shown at once, and fetched again whatever the outcome.
UseReorderComponents ==
    Optimistic(Mutation("reorderComponents", {StatusPageKeys.components}),
               {StatusPageKeys.components})

UseOpenIncident == Mutation("openIncident", {StatusPageKeys.incidents})

UseAddIncidentUpdate == Mutation("addIncidentUpdate", {StatusPageKeys.incidents})

(* lib/custom-domains.ts *)

DomainQueries ==
    { Query("domains", <<"custom-domains">>) }

DomainMutations ==
    Mutations({"addDomain", "verifyDomain", "removeDomain"}, {<<"custom-domains">>})

(* lib/analytics.ts: one entry per report and range. *)

AnalyticsQueries ==
    { Query("summary", <<"analytics", "summary">>),
      Query("timeseries", <<"analytics", "timeseries">>),
      Query("regions", <<"analytics", "regions">>),
      Query("incidentReport", <<"analytics", "incidents">>),
      Query("sla", <<"analytics", "sla">>),
      Query("monitorReport", <<"analytics", "monitor", "id">>) }

(* lib/billing.ts: a checkout or the portal leaves the site instead. *)

BillingQueries ==
    { Query("billing", <<"billing", "summary">>),
      Query("plans", <<"billing", "plans">>),
      Query("invoices", <<"billing", "invoices">>) }

BillingMutations ==
           Mutations({"changePlan", "cancelSubscription"}, {<<"billing">>})
    \union Mutations({"startCheckout", "openPortal"}, {})

(* lib/api-keys.ts, lib/audit-logs.ts, lib/organization.ts, lib/queries.ts *)

ApiKeyQueries ==
    { Query("apiKeys", <<"api-keys">>) }

ApiKeyMutations == Mutations({"createKey", "revokeKey"}, {<<"api-keys">>})

AuditLogQueries ==
    { Query("auditLogList", <<"audit-logs", "list">>),
      Query("auditLogs", <<"audit-logs", "6">>) }

SettingsQueries ==
    { Query("settings", <<"settings">>) }

UseUpdateOrgSettings ==
    Setting(Mutation("updateSettings", {<<"me">>, <<"overview">>}), {<<"settings">>})

OrganizationQueries ==
    { Query("overview", <<"overview">>),
      Query("members", <<"members">>),
      Query("invitations", <<"invitations">>) }

\* useInvalidateOrg, which every change of the membership ends with:
\* everything of the organisation.
MemberMutations ==
    Mutations({"inviteMember", "cancelInvitation", "updateMemberRole", "removeMember"}, {<<>>})

---------------------------------------------------------------------------

QueryRows ==
    UNION {MonitorQueries, IncidentQueries, WindowQueries, ChannelQueries, PolicyQueries,
           OnCallQueries, IntegrationQueries, StatusPageQueries, DomainQueries,
           AnalyticsQueries, BillingQueries, ApiKeyQueries, AuditLogQueries,
           SettingsQueries, OrganizationQueries}

\* The endpoint a query reads, where it is not its own name.
EndpointOf(q) ==
    CASE q \in {"slack", "discord"} -> "integrations"
      [] q = "incidentSummary" -> "incidents"
      [] q = "monitorChannels" -> "channels"
      [] q = "monitorPolicies" -> "policies"
      [] q = "auditLogList" -> "auditLogs"
      [] OTHER -> q

Hooks ==
    UNION {UseCreateMonitor, UseUpdateMonitor, UseDeleteMonitor, UseToggleMonitorState,
           UseSetMonitorChannels, UseAcknowledgeIncident, UseResolveIncident,
           UseCommentIncident, WindowMutations, ChannelMutations, PolicyMutations,
           ScheduleMutations, OverrideMutations, IntegrationMutations,
           UseCreateStatusPage, UseUpdateStatusPage, UseDeleteStatusPage,
           UseCreateComponent, UseUpdateComponent, UseDeleteComponent,
           UseReorderComponents, UseOpenIncident, UseAddIncidentUpdate, DomainMutations,
           BillingMutations, ApiKeyMutations, UseUpdateOrgSettings, MemberMutations}

QueriesNamed == {r.name : r \in QueryRows}

QueryKeys == [q \in QueriesNamed |-> (CHOOSE r \in QueryRows : r.name = q).key]

MutationHooks == [m \in {h.name : h \in Hooks} |-> CHOOSE h \in Hooks : h.name = m]

Shows(q) == Endpoints[EndpointOf(q)].shows
=============================================================================
