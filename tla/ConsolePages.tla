---------------------------- MODULE ConsolePages ----------------------------
(***************************************************************************)
(* The list pages of the superadmin console (frontend/superadmin) and of   *)
(* the employee portal (frontend/employee-portal), in the vocabulary of    *)
(* PageFacts.  The portal's QueryClient polls every query (providers.tsx). *)
(***************************************************************************)
EXTENDS PageFacts

NoFilters == [c \in {} |-> "stay"]

(* organizations/page.tsx *)
OrgsQueries == {Query("orgs", All, All)}
OrgsSaves ==
  [create |-> Save("add", {"orgs"}, {"orgs"}, {"form"}),
   update |-> Save("change", {"orgs"}, {"orgs"}, {"form"}),
   delete |-> Save("remove", {"orgs"}, {"orgs"}, {"delete"})]
OrgsFilters ==
  [search |-> "first", status |-> "first", plan |-> "first", sort |-> "first"]
OrgsTable == Table(OrgsFilters, ServerPaged)
OrgsForm == {Dialog("create", "form", {"new"}), Dialog("update", "form", {"row"})}
OrgsDelete == {Dialog("delete", "delete", {"row"})}

(* organizations/[id]/page.tsx: one organisation and its invoices *)
OrgQueries ==
  {Query("org-detail", {"filter"}, {"filter"}), Query("org-billing", {"filter"}, {"filter"})}
OrgSaves ==
  [createInvoice |-> Save("add", {"org-billing"}, {"org-billing"}, {"invoice"}),
   refreshBilling |-> Save("change", {"org-billing"}, {"org-billing"}, {}),
   purge |-> Save("change", {}, {}, {"invoice", "purge"})]
OrgActions == {Dialog("purge", "purge", {"new"})}
OrgInvoices == {Free(Button("refreshBilling")), Dialog("createInvoice", "invoice", {"new"})}
OrgTable == Table(NoFilters, Unpaged)

(* waitlist/page.tsx: a list and a drawer for the entry opened *)
WaitlistQueries == {Polling(Query("waitlist", {"filter"}, {"filter"}))}
WaitlistSaves ==
  [invite |-> Save("change", {"waitlist"}, {"waitlist", "sa-overview"}, {}),
   update |-> Save("change", {"waitlist"}, {"waitlist", "sa-overview"}, {}),
   remove |-> Save("remove", {"waitlist"}, {"waitlist", "sa-overview"}, {"drawer"})]
WaitlistTable == Table([status |-> "stay", search |-> "late"], Unpaged)
WaitlistRow == {Button("invite")}
WaitlistDrawer ==
  {Alone(Dialog("update", "drawer", {"row"})), Alone(Dialog("remove", "drawer", {"row"}))}

(* demo-requests/page.tsx *)
DemosQueries == {Polling(Query("demo-requests", {"filter"}, {"filter"}))}
DemosSaves == [update |-> Save("change", {"demo-requests"}, {"demo-requests"}, {})]
DemosTable == Table([status |-> "stay", search |-> "late"], Unpaged)
DemosDrawer == {Dialog("update", "drawer", {"row"})}

(* applications/page.tsx: the catalogue, filtered in the browser *)
CatalogQueries == {Query("app-catalog", {}, {})}
CatalogSaves ==
  [delete |-> Save("remove", {"app-catalog"}, {"app-catalog"}, {"delete"}),
   create |-> Save("add", {"app-catalog"}, {"app-catalog"}, {"form"}),
   update |-> Save("change", {"app-catalog"}, {"app-catalog"}, {"form"})]
CatalogTable == Table([search |-> "stay", category |-> "stay"], Unpaged)
CatalogDelete == {Dialog("delete", "delete", {"row"})}
CatalogForm == {Dialog("create", "form", {"new"}), Dialog("update", "form", {"row"})}

(* team/page.tsx: after an invitation the dialog stays, with the password *)
AdminsQueries == {Query("superadmin-team", {}, {})}
AdminsSaves ==
  [invite |-> Save("add", {"superadmin-team"}, {"superadmin-team"}, {}),
   update |-> Save("change", {"superadmin-team"}, {"superadmin-team"}, {}),
   remove |-> Save("remove", {"superadmin-team"}, {"superadmin-team"}, {"remove"})]
AdminsTable == Table(NoFilters, Unpaged)
AdminsRow == {Button("update")}
AdminsDialogs == {Dialog("invite", "invite", {"new"}), Dialog("remove", "remove", {"row"})}

(* tickets/page.tsx: the inbox and the ticket opened beside it *)
TicketsQueries == {Polling(Query("sa-tickets", {"filter"}, {"filter"}))}
TicketQueries == {Polling(Query("sa-ticket", {"filter"}, {"filter"})), Query("sa-team", {}, {})}
TicketSaves ==
  [update |-> Save("change", {"sa-ticket", "sa-tickets"}, {"sa-ticket", "sa-tickets"}, {}),
   reply |-> Save("change", {"sa-ticket", "sa-tickets"}, {"sa-ticket", "sa-tickets"}, {})]
TicketPane == {Free(Button("update")), Button("reply")}
TicketsTable == Table([view |-> "stay", priority |-> "stay", search |-> "late"], Unpaged)

(* activity/page.tsx, audit-log/page.tsx, billing/page.tsx *)
ActivityQueries == {Polling(Query("global-activity", All, All))}
ActivityTable == Table([search |-> "first", days |-> "first", action |-> "first"], ServerPaged)
AuditQueries == {Query("audit-log", All, All)}
AuditTable == Table([resource |-> "first", action |-> "first"], ServerPaged)
BillingQueries == {Query("billing-list", All, All), Query("revenue-analytics", {}, {})}
BillingSaves ==
  [refresh |-> Save("change", {"billing-list", "revenue-analytics"}, {"billing-list"}, {})]
BillingTable == Table([status |-> "first"], ServerPaged)
BillingRow == {Free(Button("refresh"))}

(* feature-flags/page.tsx, announcements/page.tsx, threat-intel/page.tsx *)
FlagsQueries == {Query("feature-flags", {}, {}), Query("orgs-for-flags", {}, {})}
FlagsSaves ==
  [create |-> Save("add", {"feature-flags"}, {"feature-flags"}, {"form"}),
   toggle |-> Save("change", {"feature-flags"}, {"feature-flags"}, {}),
   delete |-> Save("remove", {"feature-flags"}, {"feature-flags"}, {}),
   enableOrg |-> Save("change", {"feature-flags"}, {"feature-flags"}, {}),
   disableOrg |-> Save("change", {"feature-flags"}, {"feature-flags"}, {})]
FlagsTable == Table(NoFilters, Unpaged)
FlagsRow ==
  {Free(Button("toggle")), Free(Button("delete")), Free(Button("enableOrg")), Free(Button("disableOrg"))}
FlagsForm == {Dialog("create", "form", {"new"})}
NoticesQueries == {Query("announcements", {}, {})}
NoticesSaves ==
  [create |-> Save("add", {"announcements"}, {"announcements"}, {"form"}),
   toggle |-> Save("change", {"announcements"}, {"announcements"}, {}),
   delete |-> Save("remove", {"announcements"}, {"announcements"}, {})]
NoticesRow == {Free(Button("toggle")), Free(Button("delete"))}
NoticesForm == {Dialog("create", "form", {"new"})}
BlocklistQueries == {Query("blocklist", {}, {}), Query("threat-feeds", {}, {})}
BlocklistSaves ==
  [create |-> Save("add", {"blocklist"}, {"blocklist"}, {"form"}),
   toggle |-> Save("change", {"blocklist"}, {"blocklist"}, {}),
   delete |-> Save("remove", {"blocklist"}, {"blocklist"}, {})]
BlocklistRow == {Free(Button("toggle")), Free(Button("delete"))}
BlocklistForm == {Dialog("create", "form", {"new"})}

(* content/[kind]/page.tsx, system-health/page.tsx, page.tsx *)
ContentQueries == {Query("content", {"filter"}, {"filter"})}
ContentTable == Table([status |-> "stay", q |-> "stay"], Unpaged)
HealthQueries == {Polling(Query("system-health", {}, {}))}
CommandQueries == {Polling(Query("sa-overview", {}, {})), Polling(Query("sa-health", {}, {}))}

(* agent-versions/page.tsx *)
PackagesQueries ==
  {Polling(Query("agent-packages-manifest", {}, {})), Query("agent-packages-history", {}, {}),
   Query("agent-packages-build-status", {}, {})}
PackagesSaves ==
  [rollback |-> Save("change", {"agent-packages-manifest", "agent-packages-history"},
                     {"agent-packages-manifest", "agent-packages-history"}, {"rollback"}),
   upload |-> Save("add", {"agent-packages-manifest", "agent-packages-history"},
                   {"agent-packages-manifest", "agent-packages-history"}, {"upload"}),
   triggerBuild |-> Save("change", {"agent-packages-build-status"},
                         {"agent-packages-build-status"}, {"trigger"})]
PackagesCards == {Dialog("rollback", "rollback", {"row"})}
PackagesUpload == {Dialog("upload", "upload", {"new"})}
PackagesTrigger == {Dialog("triggerBuild", "trigger", {"new"})}

(* employee portal: dashboard/page.tsx, devices/page.tsx, download/page.tsx *)
PortalQueries == {Polling(Keeping(Query("portal-overview", {"filter"}, {"filter"})))}
PortalCards == Table([period |-> "stay"], Unpaged)
MyDevicesQueries == {Polling(Query("portal-devices", {}, {}))}
MyDevicesSaves == [delete |-> Save("remove", {"portal-devices"}, {"portal-devices"}, {})]
MyDevicesRow == {Free(Button("delete"))}
DownloadQueries == {Polling(Query("portal-installers", {}, {})), Polling(Query("portal-devices", {}, {}))}

(* employee portal: activity/page.tsx, layout/NotificationBell.tsx,        *)
(* screenshots/page.tsx; a message on the socket invalidates the query     *)
MyActivityQueries ==
  {Polling(Refetching(Query("portal-activity", All, All))),
   Polling(Refetching(Query("portal-activity-stats", {"filter"}, {"filter"}))),
   Polling(Query("my-access-requests", {}, {}))}
MyActivityRoots == {"portal-activity", "portal-activity-stats", "my-access-requests"}
MyActivitySaves ==
  [withdraw |-> Save("change", MyActivityRoots, MyActivityRoots, {}),
   request |-> Save("change", MyActivityRoots, MyActivityRoots, {"request"})]
MyActivityTable ==
  Table([source |-> "first", action |-> "first", search |-> "first", days |-> "first"], ServerPaged)
MyActivityRequest == {Dialog("request", "request", {"row"})}
MyActivityRequests == {Button("withdraw")}
MyBellQueries == {Polling(Refetching(Query("portal-notifications", {}, {})))}
MyBellSaves ==
  [markAll |-> Settling(Save("change", {"portal-notifications"}, {"portal-notifications"}, {})),
   markOne |-> Settling(Save("change", {"portal-notifications"}, {"portal-notifications"}, {}))]
MyBellPanel == {Free(PageButton("markAll")), Free(Button("markOne"))}
MyCapturesQueries == {Polling(Query("portal-screenshots", {"filter"}, {"filter"}))}
MyCapturesControls == Table([date |-> "stay"], Unpaged)
MyCapturesSaves ==
  [reason |-> Save("change", {"portal-screenshots"}, {"portal-screenshots"}, {"reason"})]
MyCapturesReason == {Dialog("reason", "reason", {"row"})}

Unfiltered == Table(NoFilters, Unpaged)

ConsolePages ==
  {Page(OrgsQueries, OrgsTable, OrgsSaves, OrgsForm \cup OrgsDelete),
   Page(OrgQueries, OrgTable, OrgSaves, OrgActions \cup OrgInvoices),
   Page(WaitlistQueries, WaitlistTable, WaitlistSaves, WaitlistRow \cup WaitlistDrawer),
   Page(DemosQueries, DemosTable, DemosSaves, DemosDrawer),
   Page(CatalogQueries, CatalogTable, CatalogSaves, CatalogDelete \cup CatalogForm),
   Page(AdminsQueries, AdminsTable, AdminsSaves, AdminsRow \cup AdminsDialogs),
   Page(TicketsQueries \cup TicketQueries, TicketsTable, TicketSaves, TicketPane),
   Page(ActivityQueries, ActivityTable, NoSaves, {}),
   Page(AuditQueries, AuditTable, NoSaves, {}),
   Page(BillingQueries, BillingTable, BillingSaves, BillingRow),
   Page(FlagsQueries, FlagsTable, FlagsSaves, FlagsRow \cup FlagsForm),
   Page(NoticesQueries, Unfiltered, NoticesSaves, NoticesRow \cup NoticesForm),
   Page(BlocklistQueries, Unfiltered, BlocklistSaves, BlocklistRow \cup BlocklistForm),
   Page(ContentQueries, ContentTable, NoSaves, {}),
   Page(HealthQueries, Unfiltered, NoSaves, {}),
   Page(CommandQueries, Unfiltered, NoSaves, {}),
   Page(PackagesQueries, Unfiltered, PackagesSaves, PackagesCards \cup PackagesUpload \cup PackagesTrigger),
   Page(PortalQueries, PortalCards, NoSaves, {}),
   Page(MyDevicesQueries, Unfiltered, MyDevicesSaves, MyDevicesRow),
   Page(DownloadQueries, Unfiltered, NoSaves, {}),
   Page(MyActivityQueries, MyActivityTable, MyActivitySaves,
        MyActivityRequest \cup MyActivityRequests),
   Page(MyBellQueries, Unfiltered, MyBellSaves, MyBellPanel),
   Page(MyCapturesQueries, MyCapturesControls, MyCapturesSaves, MyCapturesReason)}

=============================================================================
