---------------------------- MODULE CompanyPages ----------------------------
(***************************************************************************)
(* The list pages of the company dashboard                                 *)
(* (frontend/company-dashboard/src/app/dashboard) and the cards that have  *)
(* queries of their own.  Of each page: its queries, its mutations and     *)
(* their onSuccess handlers, its table with the controls around it, and    *)
(* its dialogs.                                                            *)
(***************************************************************************)
EXTENDS PageFacts

NoTable == Table([c \in {} |-> "stay"], Unpaged)

(* employees/page.tsx *)
EmployeesQueries ==
  {Keeping(Query("employees", All, All)), Query("teams", {}, {}), Query("departments", {}, {})}
EmployeesSaves ==
  [create |-> Save("add", {"employees", "departments"}, {"employees"}, {"form"}),
   update |-> Save("change", {"employees", "departments"}, {"employees"}, {"form"}),
   delete |-> Unticking(Save("remove", {"employees", "departments"}, {"employees"}, {"delete"})),
   import |-> Save("add", {"employees", "departments"}, {"employees"}, {}),
   portalPassword |-> Save("change", {}, {}, {"portal"})]
EmployeesFilters ==
  [search |-> "first", status |-> "first", team |-> "first", department |-> "first"]
EmployeesTable == Ticking(Table(EmployeesFilters, ServerPaged))
EmployeesForm ==
  {Dialog("create", "form", {"new"}), Dialog("update", "form", {"row"})}
EmployeesDialogs ==
  {Dialog("portalPassword", "portal", {"row"}), Dialog("delete", "delete", {"row", "ticked"})}
EmployeesImport == {PageButton("import")}

(* users/page.tsx *)
UsersQueries ==
  {Query("org-users", {"filter"}, {"filter"}), Query("teams", {}, {}), Query("org-mfa-policy", {}, {})}
UsersSaves ==
  [mfaPolicy |-> Save("change", {"org-mfa-policy"}, {"org-mfa-policy"}, {}),
   create |-> Save("add", {"org-users"}, {"org-users"}, {"form"}),
   update |-> Save("change", {"org-users"}, {"org-users"}, {"form"}),
   delete |-> Save("remove", {"org-users"}, {"org-users"}, {"delete"})]
UsersPolicyCard == {PageButton("mfaPolicy")}
UsersTable == Table([search |-> "first"], Sliced({"data", "page", "limit"}))
UsersForm == {Dialog("create", "form", {"new"}), Dialog("update", "form", {"row"})}
UsersDelete == {Dialog("delete", "delete", {"row"})}

(* teams/page.tsx: the slice is not memoised, so it always follows *)
TeamsQueries ==
  {Query("teams", {"filter"}, {"filter"}), Query("team-members", {"filter"}, {"filter"}),
   Query("all-employees-assign", {}, {})}
TeamsSaves ==
  [create |-> Save("add", {"teams"}, {"teams"}, {"form"}),
   update |-> Save("change", {"teams"}, {"teams"}, {"form"}),
   delete |-> EachAlone(Unticking(Save("remove", {"teams"}, {"teams"}, {"delete"}))),
   assign |-> Save("change", {"team-members", "teams", "all-employees-assign"},
                   {"team-members", "teams"}, {"assign"}),
   remove |-> Save("change", {"team-members", "teams", "all-employees-assign"},
                   {"team-members", "teams"}, {})]
TeamsTable == Ticking(Table([search |-> "first"], Sliced(AllDeps)))
TeamsMembers == {Button("remove")}
TeamsForm == {Dialog("create", "form", {"new"}), Dialog("update", "form", {"row"})}
TeamsAssign == {Dialog("assign", "assign", {"row"})}
TeamsDelete == {Dialog("delete", "delete", {"row", "ticked"})}

(* devices/page.tsx: useState and setInterval, no query cache.  The revoke *)
(* button is disabled only while it is the last one pressed; a change of   *)
(* ownership is written into the list held, nothing is loaded again.       *)
DevicesQueries == {Loader("devices")}
LifecycleQueries == {Loader("lifecycle")}
DevicesSaves ==
  [revoke |-> Save("change", {"devices"}, {"devices"}, {}),
   ownership |-> Save("change", {"devices"}, {}, {}),
   schedule |-> Save("change", {"devices"}, {"devices"}, {"schedule"})]
DevicesTable == Table([c \in {} |-> "stay"], Sliced({"data", "page"}))
DevicesRow == {Free(Button("revoke")), Free(Button("ownership"))}
DevicesSchedule == {Dialog("schedule", "schedule", {"row"})}

(* categories/page.tsx: the categories, and the domains of one of them *)
CategoriesQueries == {Query("url-categories", {"filter"}, {"filter"})}
CategoriesSaves ==
  [delete |-> ToFirst(Save("remove", {"url-categories"},
                           {"url-categories", "swg-categories-for-policy"}, {"delete"})),
   restore |-> Save("remove", {"url-categories"},
                    {"url-categories", "swg-categories-for-policy"}, {})]
CategoriesTable ==
  Table([search |-> "first", hidden |-> "first"], Sliced({"data", "page"}))
CategoriesRow == {Button("restore")}
CategoriesDelete == {Dialog("delete", "delete", {"row"})}
DomainsQueries == {Query("category-domains", All, All)}
DomainsSaves ==
  [add |-> Save("add", {"category-domains", "url-categories"},
                {"category-domains", "url-categories"}, {}),
   deleteDomain |-> Save("remove", {"category-domains", "url-categories"},
                         {"category-domains", "url-categories"}, {"remove"})]
DomainsTable == Table([search |-> "first"], ServerPaged)
DomainsAdd == {PageButton("add")}
DomainsRemove == {Dialog("deleteDomain", "remove", {"row"})}

(* swg/page.tsx: policies, and the log of what they decided *)
SwgQueries ==
  {Keeping(Query("swg-policies", All, All)), Polling(Query("swg-stats", {}, {})),
   Query("swg-categories-for-policy", {}, {}), Query("teams-lite", {}, {}),
   Query("employees-lite", {}, {})}
SwgSaves ==
  [create |-> Save("add", {"swg-policies", "swg-stats"}, {"swg-policies", "swg-stats"}, {"form"}),
   update |-> Save("change", {"swg-policies", "swg-stats"}, {"swg-policies", "swg-stats"}, {"form"}),
   delete |-> Save("remove", {"swg-policies", "swg-stats"}, {"swg-policies", "swg-stats"}, {"delete"}),
   toggle |-> Save("change", {"swg-policies", "swg-stats"}, {"swg-policies", "swg-stats"}, {})]
SwgPolicyTable == Table([search |-> "first"], ServerPaged)
SwgRow == {Free(Button("toggle"))}
SwgForm == {Dialog("create", "form", {"new"}), Dialog("update", "form", {"row"})}
SwgDelete == {Dialog("delete", "delete", {"row"})}
SwgLogQuery == {Polling(Keeping(Query("swg-logs", All, All)))}
SwgLogTable == Table([search |-> "first", action |-> "first"], ServerPaged)

(* applications/page.tsx: a switch is disabled while its own row's change  *)
(* is the last one sent.                                                   *)
AppsQueries ==
  {Keeping(Query("installed-apps", All, All)), Query("employees-lite", {}, {})}
AppsSaves == [control |-> Save("change", {"installed-apps"}, {"installed-apps"}, {})]
AppsFilters ==
  [search |-> "first", employee |-> "first", category |-> "first", removed |-> "first"]
AppsTable == Table(AppsFilters, ServerPaged)
AppsRow == {Free(Button("control"))}

(* access-requests/page.tsx: the search box goes to page 1 at the          *)
(* keystroke and is applied 300 ms later.                                  *)
RequestsQueries == {Polling(Query("access-requests", All, All))}
RequestsTable ==
  Table([status |-> "first", kind |-> "first", search |-> "late"], ServerPaged)
RequestsSaves ==
  [decide |-> Save("remove", {"access-requests"}, {"access-requests", "notif-requests"}, {"decision"})]
RequestsDecision == {Dialog("decide", "decision", {"row"})}

(* dlp/page.tsx, support/page.tsx, page.tsx, reports/page.tsx: read only *)
DlpQueries == {Polling(Keeping(Query("dlp-logs", All, All)))}
DlpTable == Table([search |-> "first", days |-> "first"], ServerPaged)
SupportQueries == {Polling(Query("tickets", {"filter"}, {"filter"}))}
SupportTable == Table([view |-> "stay"], Unpaged)
OverviewQueries == {Polling(Query("dashboard-overview", {"filter"}, {"filter"}))}
OverviewCards == Table([period |-> "stay"], Unpaged)
ReportsQueries == {Query("report", {"filter"}, {"filter"}), Query("report-catalog", {}, {})}
ReportsControls == [type |-> "first", control |-> "first", period |-> "first", q |-> "first"]
ReportsTable == Table(ReportsControls, Sliced(AllDeps))

(* activity/page.tsx: events pushed over a WebSocket in front of the table, *)
(* which polls only while the socket is down.                              *)
FeedQueries == {Tabbed(Resting(Polling(Prepending(Query("activity", All, All)))))}
FeedTable ==
  Table([source |-> "first", action |-> "first", search |-> "first", days |-> "first"], ServerPaged)

(* layout/NotificationBell.tsx *)
BellQueries ==
  {Polling(Prepending(Query("notif-incidents", {}, {}))), Polling(Query("notif-requests", {}, {}))}

(* screenshots/page.tsx: the delete buttons are not disabled meanwhile *)
CaptureQueries ==
  {Query("screenshots", {"filter"}, {"filter"}), Query("monitoring-employees", {}, {})}
CaptureSaves ==
  [deleteSession |-> Save("remove", {"screenshots"}, {"screenshots"}, {}),
   deleteShot |-> Save("remove", {"screenshots"}, {"screenshots"}, {"zoom"})]
CaptureControls ==
  Table([employee |-> "stay", date |-> "stay", dayReset |-> "stay", tz |-> "stay"], Unpaged)
CaptureSession == {Free(Button("deleteSession"))}
CaptureZoom == {Free(Dialog("deleteShot", "zoom", {"row"}))}

(* support/[id]/page.tsx: one ticket of the company's *)
CaseQueries == {Polling(Query("ticket", {"filter"}, {"filter"}))}
CaseSaves ==
  [reply |-> Save("change", {"ticket"}, {"ticket", "tickets"}, {}),
   resolve |-> Save("change", {"ticket"}, {"ticket", "tickets"}, {}),
   feedback |-> Save("change", {"ticket"}, {"ticket", "tickets"}, {"feedback"})]
CaseActions ==
  {PageButton("reply"), PageButton("resolve"), PageButton("feedback"),
   Dialog("feedback", "feedback", {"new"})}

(* security/MFACard.tsx: the Enter key submits the code also while it is   *)
(* being checked; one password dialog serves two mutations.                *)
MfaQueries == {Query("mfa-status", {}, {})}
MfaSaves ==
  [setup |-> Save("change", {}, {}, {}),
   enable |-> Save("change", {"mfa-status"}, {"mfa-status"}, {"scan"}),
   disable |-> Save("change", {"mfa-status"}, {"mfa-status"}, {"password", "scan"}),
   regenerate |-> Save("change", {"mfa-status"}, {"mfa-status"}, {"password", "scan"})]
MfaSteps == {PageButton("setup"), Free(Dialog("enable", "scan", {"new"}))}
MfaPassword ==
  {Dialog("disable", "password", {"new"}), Dialog("regenerate", "password", {"new"})}

(* settings/page.tsx, OrgSecurityPanel; layout/AnnouncementBanner.tsx *)
SecurityQueries == {Query("org-mfa-policy", {}, {}), Query("settings-mitm", {}, {})}
SecuritySaves == [mfaPolicy |-> Save("change", {"org-mfa-policy"}, {"org-mfa-policy"}, {})]
SecurityPanel == {PageButton("mfaPolicy")}
BannerQueries == {Polling(Query("announcements-active", {}, {}))}

CompanyPages ==
  {Page(EmployeesQueries, EmployeesTable, EmployeesSaves,
        EmployeesForm \cup EmployeesDialogs \cup EmployeesImport),
   Page(UsersQueries, UsersTable, UsersSaves, UsersPolicyCard \cup UsersForm \cup UsersDelete),
   Page(TeamsQueries, TeamsTable, TeamsSaves,
        TeamsMembers \cup TeamsForm \cup TeamsAssign \cup TeamsDelete),
   Page(DevicesQueries \cup LifecycleQueries, DevicesTable, DevicesSaves,
        DevicesRow \cup DevicesSchedule),
   Page(CategoriesQueries, CategoriesTable, CategoriesSaves, CategoriesRow \cup CategoriesDelete),
   Page(CategoriesQueries \cup DomainsQueries, DomainsTable, DomainsSaves,
        DomainsAdd \cup DomainsRemove),
   Page(SwgQueries, SwgPolicyTable, SwgSaves, SwgRow \cup SwgForm \cup SwgDelete),
   Page(SwgLogQuery, SwgLogTable, NoSaves, {}),
   Page(AppsQueries, AppsTable, AppsSaves, AppsRow),
   Page(RequestsQueries, RequestsTable, RequestsSaves, RequestsDecision),
   Page(DlpQueries, DlpTable, NoSaves, {}),
   Page(SupportQueries, SupportTable, NoSaves, {}),
   Page(OverviewQueries, OverviewCards, NoSaves, {}),
   Page(ReportsQueries, ReportsTable, NoSaves, {}),
   Page(FeedQueries, FeedTable, NoSaves, {}),
   Page(BellQueries, NoTable, NoSaves, {}),
   Page(CaptureQueries, CaptureControls, CaptureSaves, CaptureSession \cup CaptureZoom),
   Page(CaseQueries, NoTable, CaseSaves, CaseActions),
   Page(MfaQueries, NoTable, MfaSaves, MfaSteps \cup MfaPassword),
   Page(SecurityQueries, NoTable, SecuritySaves, SecurityPanel),
   Page(BannerQueries, NoTable, NoSaves, {})}

=============================================================================
