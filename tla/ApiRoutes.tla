----------------------------- MODULE ApiRoutes -----------------------------
(***************************************************************************)
(* The organisation's REST surface: one definition per router of           *)
(* apps/api/src/routes, a set of rows: the name of an endpoint, the        *)
(* permission its guard asks for, the facts its answer shows and the facts *)
(* its handler changes.  A fact is a table, or the part of one that the    *)
(* screens tell apart: "windows" are maintenance windows, "pageIncidents"  *)
(* the incidents written on a status page, "deliveries" the history of an  *)
(* integration.  Checks, incidents and deliveries also change by           *)
(* themselves, from the worker: those changes are not listed here.         *)
(***************************************************************************)
EXTENDS Permissions

Read(name, resource, shows) ==
    [name |-> name, needs |-> <<resource, "read">>, shows |-> shows, affects |-> {}]

Write(name, resource, action, affects) ==
    [name |-> name, needs |-> <<resource, action>>, shows |-> {}, affects |-> affects]

\* routes/monitors.ts.  Deleting a monitor takes its rows out of every list
\* that joins it; its incidents stay.
MonitorsRouter ==
    { Read("monitors", "monitor", {"monitors", "checks"}),
      Read("monitor", "monitor", {"monitors", "monitorChannels"}),
      Read("checkResults", "monitor", {"checks"}),
      Read("monitorWindows", "monitor", {"windows"}),
      Read("monitorIncidents", "monitor", {"incidents"}),
      Write("createMonitor", "monitor", "create", {"monitors", "monitorChannels"}),
      Write("updateMonitor", "monitor", "update", {"monitors", "monitorChannels"}),
      Write("pauseMonitor", "monitor", "update", {"monitors"}),
      Write("resumeMonitor", "monitor", "update", {"monitors"}),
      Write("setChannels", "monitor", "update", {"monitorChannels"}),
      Write("deleteMonitor", "monitor", "delete", {"monitors"}) }

\* routes/incidents.ts: incidents have no resource of their own, they are
\* guarded as monitors are.
IncidentsRouter ==
    { Read("incidents", "monitor", {"incidents"}),
      Read("incident", "monitor", {"incidents", "timeline"}),
      Write("acknowledge", "monitor", "update", {"incidents", "timeline"}),
      Write("resolve", "monitor", "update", {"incidents", "timeline"}),
      Write("comment", "monitor", "update", {"timeline"}) }

\* routes/maintenance.ts: so are maintenance windows.
MaintenanceWindowsRouter ==
    { Read("windows", "monitor", {"windows"}),
      Write("createWindow", "monitor", "update", {"windows"}),
      Write("deleteWindow", "monitor", "update", {"windows"}) }

\* routes/alert-channels.ts.  A test send that arrives marks the row
\* verified.
AlertChannelsRouter ==
    { Read("channels", "alertChannel", {"channels"}),
      Read("channel", "alertChannel", {"channels"}),
      Write("createChannel", "alertChannel", "create", {"channels"}),
      Write("updateChannel", "alertChannel", "update", {"channels"}),
      Write("enableChannel", "alertChannel", "update", {"channels"}),
      Write("disableChannel", "alertChannel", "update", {"channels"}),
      Write("testChannel", "alertChannel", "update", {"channels"}),
      Write("deleteChannel", "alertChannel", "delete", {"channels"}) }

\* routes/escalation-policies.ts
EscalationPoliciesRouter ==
    { Read("policies", "escalationPolicy", {"policies"}),
      Read("policy", "escalationPolicy", {"policies"}),
      Write("createPolicy", "escalationPolicy", "create", {"policies"}),
      Write("updatePolicy", "escalationPolicy", "update", {"policies"}),
      Write("deletePolicy", "escalationPolicy", "delete", {"policies"}) }

\* routes/oncall-schedules.ts.  Who is on call is computed from the schedule
\* and its overrides.
OnCallSchedulesRouter ==
    { Read("schedules", "onCallSchedule", {"schedules"}),
      Read("schedule", "onCallSchedule", {"schedules"}),
      Read("whoIsOnCall", "onCallSchedule", {"schedules", "overrides"}),
      Read("overrides", "onCallSchedule", {"overrides"}),
      Write("createSchedule", "onCallSchedule", "create", {"schedules"}),
      Write("updateSchedule", "onCallSchedule", "update", {"schedules"}),
      Write("deleteSchedule", "onCallSchedule", "delete", {"schedules"}),
      Write("addOverride", "onCallSchedule", "update", {"overrides"}),
      Write("removeOverride", "onCallSchedule", "update", {"overrides"}) }

\* routes/integrations/router.ts, mounted once per provider.  A test is
\* queued: the history gains a row at once and the outcome later.
IntegrationsRouter ==
    { Read("integrations", "alertChannel", {"integrations"}),
      Write("createIntegration", "alertChannel", "create", {"integrations"}),
      Write("updateIntegration", "alertChannel", "update", {"integrations"}),
      Write("deleteIntegration", "alertChannel", "delete", {"integrations"}),
      Write("testIntegration", "alertChannel", "update", {"deliveries"}) }

\* routes/integrations/webhook.ts: the same endpoints over outgoing webhooks,
\* whose signing secret is shown once, when the webhook is created.
WebhookIntegrationRouter ==
    { Read("webhooks", "alertChannel", {"integrations"}),
      Write("createWebhook", "alertChannel", "create", {"integrations"}),
      Write("updateWebhook", "alertChannel", "update", {"integrations"}),
      Write("deleteWebhook", "alertChannel", "delete", {"integrations"}),
      Write("testWebhook", "alertChannel", "update", {"deliveries"}) }

\* routes/integrations/deliveries.ts
IntegrationDeliveriesRouter ==
    { Read("deliveries", "alertChannel", {"deliveries"}) }

\* routes/status-pages.authed.ts, the page itself.  A page is created with
\* its components.
StatusPagesRouter ==
    { Read("pages", "statusPage", {"pages", "components", "subscribers"}),
      Read("page", "statusPage", {"pages"}),
      Read("subscribers", "statusPage", {"subscribers"}),
      Write("createPage", "statusPage", "create", {"pages", "components"}),
      Write("updatePage", "statusPage", "update", {"pages"}),
      Write("deletePage", "statusPage", "delete", {"pages"}) }

\* ... and its components and incidents.  A component's status on the page
\* may come from its monitor, whose health changes by itself.
StatusPageContentRouter ==
    { Read("components", "statusPage", {"components"}),
      Read("pageIncidents", "statusPage", {"pageIncidents"}),
      Write("createComponent", "statusPage", "update", {"components"}),
      Write("updateComponent", "statusPage", "update", {"components"}),
      Write("reorderComponents", "statusPage", "update", {"components"}),
      Write("deleteComponent", "statusPage", "update", {"components"}),
      Write("openIncident", "statusPage", "update", {"pageIncidents"}),
      Write("addIncidentUpdate", "statusPage", "update", {"pageIncidents"}) }

\* routes/custom-domains.ts: guarded as status pages are.
CustomDomainsRouter ==
    { Read("domains", "statusPage", {"domains"}),
      Write("addDomain", "statusPage", "create", {"domains"}),
      Write("verifyDomain", "statusPage", "update", {"domains"}),
      Write("removeDomain", "statusPage", "delete", {"domains"}) }

\* routes/analytics.ts: every report is guarded by the reading of monitors.
AnalyticsRouter ==
    { Read("summary", "monitor", {"checks", "incidents"}),
      Read("timeseries", "monitor", {"checks"}),
      Read("regions", "monitor", {"checks"}),
      Read("incidentReport", "monitor", {"incidents"}),
      Read("sla", "monitor", {"checks", "incidents"}),
      Read("monitorReport", "monitor", {"checks", "incidents"}) }

\* routes/billing/router.ts.  The writes go to the provider: the local rows
\* follow when its webhook arrives, so the handlers change no fact here.
BillingRouter ==
    { Read("billing", "billing", {"subscription"}),
      Read("plans", "billing", {"plans"}),
      Read("invoices", "billing", {"invoices"}),
      Write("startCheckout", "billing", "manage", {}),
      Write("openPortal", "billing", "manage", {}),
      Write("changePlan", "billing", "manage", {}),
      Write("cancelSubscription", "billing", "manage", {}) }

\* routes/api-keys.ts
ApiKeysRouter ==
    { Read("apiKeys", "apiKey", {"apiKeys"}),
      Write("createKey", "apiKey", "create", {"apiKeys"}),
      Write("revokeKey", "apiKey", "revoke", {"apiKeys"}) }

\* routes/organization-settings.ts: the name is the organisation's row, the
\* rest is kept in its metadata.
OrganizationSettingsRouter ==
    { Read("settings", "organization", {"organization", "settings"}),
      Write("updateSettings", "organization", "update", {"organization", "settings"}) }

\* routes/organizations.ts.  The overview counts members, invitations,
\* monitors, incidents and audit events.
OrganizationsRouter ==
    { Read("members", "member", {"members"}),
      Read("invitations", "invitation", {"invitations"}),
      Read("auditLogs", "auditLog", {"auditLogs"}),
      Read("overview", "organization",
           {"members", "invitations", "monitors", "incidents", "auditLogs"}) }

\* The organisation endpoints of the authentication library, which is given
\* the same matrix.
AuthOrganizationEndpoints ==
    { Write("inviteMember", "invitation", "create", {"invitations"}),
      Write("cancelInvitation", "invitation", "cancel", {"invitations"}),
      Write("updateMemberRole", "member", "update", {"members"}),
      Write("removeMember", "member", "delete", {"members"}) }

\* server.ts: everything mounted under /v1/organizations/:organizationId.
Routes ==
    UNION {MonitorsRouter, IncidentsRouter, MaintenanceWindowsRouter, AlertChannelsRouter,
           EscalationPoliciesRouter, OnCallSchedulesRouter, IntegrationsRouter,
           WebhookIntegrationRouter, IntegrationDeliveriesRouter, StatusPagesRouter,
           StatusPageContentRouter, CustomDomainsRouter, AnalyticsRouter, BillingRouter,
           ApiKeysRouter, OrganizationSettingsRouter, OrganizationsRouter,
           AuthOrganizationEndpoints}

Endpoints == [n \in {r.name : r \in Routes} |-> CHOOSE r \in Routes : r.name = n]
=============================================================================
