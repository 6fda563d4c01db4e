------------------------------ MODULE WebPages ------------------------------
(***************************************************************************)
(* The dashboard's screens: apps/web/app/dashboard and the components they *)
(* are made of.  A view is what a screen does with the server: the queries *)
(* it mounts and the mutations its controls offer, each under its gate,    *)
(* the permissions the role known to the browser must have.  The empty     *)
(* gate lets every role through.  Early returns gate what is below them,   *)
(* not the queries mounted above.                                          *)
(***************************************************************************)
EXTENDS WebHooks

Mounts(queries, gate) == [reads |-> queries \X {gate}, offers |-> {}]

Offers(mutations, gate) == [reads |-> {}, offers |-> mutations \X {gate}]

\* Two views on one screen.
v ++ w == [reads |-> v.reads \union w.reads, offers |-> v.offers \union w.offers]

\* A view shown only where the gate lets through.
Within(gate, view) ==
    [ reads  |-> {<<r[1], r[2] \union gate>> : r \in view.reads},
      offers |-> {<<o[1], o[2] \union gate>> : o \in view.offers} ]

Everyone == {}

Can(resource, actions) == {resource} \X actions

CanRead(resource) == Can(resource, {"read"})

CanManage(resource) == Can(resource, {"create", "update", "delete"})

---------------------------------------------------------------------------
(* The frame around every page: its palette lists the monitors, for        *)
(* everyone, open or not.                                                  *)

CommandPalette == Mounts({"monitors"}, Everyone)

DashboardLayout(page) == CommandPalette ++ page

(* The overview. *)

\* Four steps, each looked up whatever the role.
OnboardingChecklist == Mounts({"monitors", "monitorChannels", "pages", "members"}, Everyone)

DashboardOverviewPage ==
    Mounts({"overview"}, Everyone) ++ Mounts({"monitors"}, CanRead("monitor"))
    ++ Mounts({"auditLogs"}, CanRead("auditLog")) ++ OnboardingChecklist

(* Monitors. *)

MonitorsPage ==
    Mounts({"monitors"}, CanRead("monitor"))
    ++ Within(CanRead("monitor"),
               Offers({"pauseMonitor", "resumeMonitor", "deleteMonitor"}, CanManage("monitor")))

MonitorAnalytics == Mounts({"monitorReport"}, Everyone)

MonitorDetailPage ==
    Mounts({"monitor", "checkResults", "monitorWindows", "monitorIncidents", "monitorChannels"},
           CanRead("monitor"))
    ++ Within(CanRead("monitor"),
               Offers({"pauseMonitor", "resumeMonitor", "deleteMonitor"}, CanManage("monitor"))
               ++ MonitorAnalytics)

NewMonitorPage ==
    Within(Can("monitor", {"create"}),
           Mounts({"monitorChannels", "monitorPolicies"}, Everyone)
           ++ Offers({"createMonitor"}, Everyone))

EditMonitorPage ==
    Within(Can("monitor", {"update"}),
           Mounts({"monitor", "monitorChannels", "monitorPolicies"}, Everyone)
           ++ Offers({"updateMonitor"}, Everyone))

(* Incidents. *)

IncidentStatsBar == Mounts({"incidentSummary", "monitors"}, Everyone)

IncidentsPage ==
    Within(CanRead("monitor"), Mounts({"incidents"}, Everyone) ++ IncidentStatsBar)

IncidentActions == Offers({"acknowledge", "resolve", "pauseMonitor"}, CanManage("monitor"))

CommentForm == Offers({"comment"}, Everyone)

\* The names of the actors come from the members, asked for by whoever may
\* read monitors; the monitor is known once the incident is.
IncidentDetailPage ==
    Within(CanRead("monitor"),
           Mounts({"incident", "monitor", "checkResults", "monitorWindows", "members"}, Everyone)
           ++ IncidentActions ++ Within(CanManage("monitor"), CommentForm))

(* Maintenance: no gate at all. *)

CreateWindowDialog == Mounts({"monitors"}, Everyone) ++ Offers({"createWindow"}, Everyone)

MaintenanceWindowsPage ==
    Mounts({"windows"}, Everyone) ++ Offers({"deleteWindow"}, Everyone) ++ CreateWindowDialog

(* Analytics. *)

MonitoringSection == Mounts({"timeseries"}, Everyone)

RegionalSection == Mounts({"regions"}, Everyone)

IncidentsSection == Mounts({"incidentReport"}, Everyone)

SlaReportSection == Mounts({"sla"}, Everyone)

AnalyticsReports ==
    MonitoringSection ++ RegionalSection ++ IncidentsSection ++ SlaReportSection

AnalyticsPage ==
    Mounts({"summary"}, CanRead("monitor")) ++ Within(CanRead("monitor"), AnalyticsReports)

(* Billing. *)

BillingPage ==
    Mounts({"billing", "plans", "invoices"}, CanRead("billing"))
    ++ Within(CanRead("billing"),
               Offers({"startCheckout", "openPortal", "changePlan", "cancelSubscription"},
                      Can("billing", {"manage"})))

(* Status pages. *)

StatusPagesPage ==
    Mounts({"pages"}, CanRead("statusPage"))
    ++ Within(CanRead("statusPage"),
               Offers({"createPage", "deletePage"}, CanManage("statusPage")))

NewStatusPage == Offers({"createPage"}, Can("statusPage", {"create"}))

OverviewTab == Mounts({"components", "pageIncidents", "subscribers"}, Everyone)

ComponentsTab ==
    Mounts({"components"}, Everyone) ++ Mounts({"monitors"}, CanManage("statusPage"))
    ++ Offers({"createComponent", "updateComponent", "deleteComponent", "reorderComponents"},
               CanManage("statusPage"))

\* One board serves the incidents and the maintenance tab.
IncidentBoardTab ==
    Mounts({"pageIncidents"}, Everyone)
    ++ Offers({"openIncident", "addIncidentUpdate"}, CanManage("statusPage"))

SubscribersTab == Mounts({"subscribers"}, Everyone)

PageDomainsSection ==
    Mounts({"domains"}, Everyone) ++ Offers({"addDomain", "verifyDomain", "removeDomain"}, Everyone)

SettingsTab ==
    Within(CanManage("statusPage"),
           Offers({"updatePage", "deletePage"}, Everyone) ++ PageDomainsSection)

\* The page of one status page shows one tab at a time.
StatusPageDetail(tab) ==
    Mounts({"page"}, CanRead("statusPage")) ++ Within(CanRead("statusPage"), tab)

(* Settings. *)

\* The provider's integrations are the choices of a channel's form.
ChannelModal(gate) ==
    Mounts({"slack", "discord", "webhooks"}, gate)
    ++ Offers({"createChannel"}, Can("alertChannel", {"create"}))
    ++ Offers({"updateChannel"}, Can("alertChannel", {"update"}))

AlertChannelsPage ==
    Mounts({"channels"}, CanRead("alertChannel"))
    ++ Within(CanRead("alertChannel"),
               Offers({"testChannel", "enableChannel", "disableChannel"},
                      Can("alertChannel", {"update"}))
               ++ Offers({"deleteChannel"}, Can("alertChannel", {"delete"}))
               ++ ChannelModal(CanRead("alertChannel")))

\* The form asks for the members and the channels whatever the role.
PolicyModal ==
    Mounts({"policy", "members", "channels"}, Everyone)
    ++ Offers({"createPolicy"}, Can("escalationPolicy", {"create"}))
    ++ Offers({"updatePolicy"}, Can("escalationPolicy", {"update"}))

EscalationPoliciesPage ==
    Mounts({"policies"}, CanRead("escalationPolicy"))
    ++ Within(CanRead("escalationPolicy"),
               Offers({"deletePolicy"}, Can("escalationPolicy", {"delete"}))
               ++ Within(Can("escalationPolicy", {"create"}), PolicyModal))

ScheduleModal ==
    Mounts({"schedule", "members"}, Everyone)
    ++ Offers({"createSchedule"}, Can("onCallSchedule", {"create"}))
    ++ Offers({"updateSchedule"}, Can("onCallSchedule", {"update"}))

OnCallSchedulesPage ==
    Mounts({"schedules"}, CanRead("onCallSchedule"))
    ++ Within(CanRead("onCallSchedule"),
               Offers({"deleteSchedule"}, Can("onCallSchedule", {"delete"}))
               ++ Within(Can("onCallSchedule", {"create"}), ScheduleModal))

AddOverrideModal == Offers({"addOverride"}, Everyone)

\* The schedule and the members are asked for above the gate.
OnCallScheduleDetailPage ==
    Mounts({"schedule", "members"}, Everyone)
    ++ Mounts({"whoIsOnCall", "overrides"}, CanRead("onCallSchedule"))
    ++ Within(CanRead("onCallSchedule") \union Can("onCallSchedule", {"update"}),
               Offers({"removeOverride"}, Everyone) ++ AddOverrideModal)

ChatSection(provider) ==
    Mounts({provider}, Everyone)
    ++ Offers({"createIntegration", "deleteIntegration", "testIntegration"},
               CanManage("alertChannel"))

WebhookSection ==
    Mounts({"webhooks"}, Everyone)
    ++ Offers({"createWebhook", "deleteWebhook", "testWebhook"}, CanManage("alertChannel"))

IntegrationsPage ==
    Mounts({"deliveries"}, CanRead("alertChannel"))
    ++ Within(CanRead("alertChannel"),
               ChatSection("slack") ++ ChatSection("discord") ++ WebhookSection)

\* A mutant of MembersPage: whoever may see the team is given its controls.
MembersPageForAll ==
    Mounts({"members"}, CanRead("member"))
    ++ Within(CanRead("member"),
               Mounts({"invitations"}, CanManage("member"))
               ++ Offers({"inviteMember", "cancelInvitation", "updateMemberRole", "removeMember"},
                          Everyone))

\* The controls ask for every action on members, which is more than each of
\* the endpoints behind them asks for.
MembersPage ==
    Mounts({"members"}, CanRead("member"))
    ++ Within(CanRead("member"),
               Mounts({"invitations"}, CanManage("member"))
               ++ Offers({"inviteMember", "cancelInvitation", "updateMemberRole", "removeMember"},
                          CanManage("member")))

ApiKeysPage ==
    Mounts({"apiKeys"}, CanRead("apiKey"))
    ++ Within(CanRead("apiKey"),
               Offers({"createKey"}, Can("apiKey", {"create"}))
               ++ Offers({"revokeKey"}, Can("apiKey", {"revoke"})))

AuditLogsPage == Mounts({"auditLogList"}, CanRead("auditLog"))

CustomDomainsPage ==
    Mounts({"domains", "pages"}, CanRead("statusPage"))
    ++ Within(CanRead("statusPage"),
               Offers({"addDomain", "verifyDomain", "removeDomain"}, CanManage("statusPage")))

OrganizationSettingsPage ==
    Mounts({"settings", "monitorPolicies"}, CanRead("organization"))
    ++ Within(CanRead("organization"),
               Offers({"updateSettings"}, Can("organization", {"update"})))

---------------------------------------------------------------------------

Pages ==
  [ dashboard |-> DashboardOverviewPage, monitors |-> MonitorsPage,
    monitor |-> MonitorDetailPage, newMonitor |-> NewMonitorPage,
    editMonitor |-> EditMonitorPage, incidents |-> IncidentsPage,
    incident |-> IncidentDetailPage, maintenance |-> MaintenanceWindowsPage,
    analytics |-> AnalyticsPage, billing |-> BillingPage,
    statusPages |-> StatusPagesPage, newStatusPage |-> NewStatusPage,
    pageOverview |-> StatusPageDetail(OverviewTab),
    pageComponents |-> StatusPageDetail(ComponentsTab),
    pageIncidents |-> StatusPageDetail(IncidentBoardTab),
    pageSubscribers |-> StatusPageDetail(SubscribersTab),
    pageSettings |-> StatusPageDetail(SettingsTab),
    channels |-> AlertChannelsPage, policies |-> EscalationPoliciesPage,
    schedules |-> OnCallSchedulesPage, schedule |-> OnCallScheduleDetailPage,
    integrations |-> IntegrationsPage, members |-> MembersPage, apiKeys |-> ApiKeysPage,
    auditLogs |-> AuditLogsPage, domains |-> CustomDomainsPage,
    settings |-> OrganizationSettingsPage ]

\* The queries a page mounts, and the mutations it offers, to a role.
MountedFor ==
  [p \in DOMAIN Pages |-> [role \in OrgRoles \union {"none"} |->
      {r[1] : r \in {x \in DashboardLayout(Pages[p]).reads : HasPermission(role, x[2])}}]]

OfferedTo ==
  [p \in DOMAIN Pages |-> [role \in OrgRoles \union {"none"} |->
      {o[1] : o \in {x \in Pages[p].offers : HasPermission(role, x[2])}}]]

\* The queries that some screen mounts beside the mutation.
Together ==
  [m \in DOMAIN MutationHooks |->
      UNION {{r[1] : r \in DashboardLayout(Pages[p]).reads} :
               p \in {x \in DOMAIN Pages : m \in {o[1] : o \in Pages[x].offers}}}]
=============================================================================
