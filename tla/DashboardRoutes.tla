-------------------------- MODULE DashboardRoutes --------------------------
(***************************************************************************)
(* Which page of the dashboard is on screen: the address bar, the route    *)
(* kept by the application, the session that is polled and may gain or     *)
(* lose rights while a page is open, and the aliases older links use.      *)
(* A path is the sequence of its parts.                                    *)
(***************************************************************************)
EXTENDS Integers, Sequences, SequencesExt

VARIABLES
  visitor,   \* as last polled: its rights, or that it is not known yet
  route,     \* the tab and sections kept by the application
  hash       \* the path in the address bar

routeVars == <<visitor, route, hash>>

Sessions == [known : {TRUE}, admin : BOOLEAN, identity : BOOLEAN]
Unknown == [known |-> FALSE, admin |-> FALSE, identity |-> FALSE]

(***************************************************************************)
(* The pages, and what a session may see of them.                          *)
(***************************************************************************)
Tabs == {"overview", "models", "services", "api-access", "mesh", "kubernetes-access", "system"}
SystemSections == {"settings", "license", "users", "hardware", "status", "power"}
SettingsSections == {"domains", "federated-sso", "network", "updates"}
StatusSections == {"overview", "gpu-operators", "flux", "network", "model-cache", "regression"}

AdminOf(table, s) == {x \in table : s.admin \/ x \notin {"api-access", "mesh", "kubernetes-access", "settings", "license",
                                                         "users", "power", "model-cache", "regression"}}
IdentityOf(table, s) == {x \in table : s.identity \/ x \notin {"kubernetes-access", "users", "federated-sso"}}
AllowedTabs(s) == IdentityOf(AdminOf(Tabs, s), s)
AllowedSystemSections(s) == IdentityOf(AdminOf(SystemSections, s), s)
AllowedSettingsSections(s) == IF s.admin THEN IdentityOf(SettingsSections, s) ELSE {}
AllowedStatusSections(s) == AdminOf(StatusSections, s)

(***************************************************************************)
(* Paths.                                                                  *)
(***************************************************************************)
Part(path, n) == IF n <= Len(path) THEN path[n] ELSE ""
Section(part, known, default) == IF part \in known THEN part ELSE default
Route(tab, system, settings, status) == [tab |-> tab, system |-> system, settings |-> settings, status |-> status]
SystemRoute(system, settings, status) == Route("system", system, settings, status)
MeshAlias(path) ==
  \/ Part(path, 1) = "settings" /\ Part(path, 2) = "mesh"
  \/ Part(path, 1) = "system" /\ (Part(path, 2) = "mesh" \/ (Part(path, 2) = "settings" /\ Part(path, 3) = "mesh"))
InSystem(second, third) ==
  CASE second \in {"model-cache", "regression"} -> SystemRoute("status", "domains", second)
    [] second = "status" -> SystemRoute("status", "domains", Section(third, StatusSections, "overview"))
    [] second \in {"federated-sso", "network", "updates"} -> SystemRoute("settings", second, "overview")
    [] OTHER -> SystemRoute(Section(second, SystemSections, "status"), Section(third, SettingsSections, "domains"), "overview")
InitialRoute(path) ==
  LET first == Part(path, 1) second == Part(path, 2) IN
  CASE MeshAlias(path) -> Route("mesh", "status", "domains", "overview")
    [] first = "settings" /\ ~MeshAlias(path) -> SystemRoute("settings", Section(second, SettingsSections, "domains"), "overview")
    [] first \in {"license", "users"} -> SystemRoute(first, "domains", "overview")
    [] first = "federated-sso" -> SystemRoute("settings", "federated-sso", "overview")
    [] first = "system" /\ ~MeshAlias(path) -> InSystem(second, Part(path, 3))
    [] OTHER -> Route(Section(first, Tabs, "overview"), "status", "domains", "overview")

PathOf(r) ==
  IF r.tab # "system" THEN <<r.tab>>
  ELSE <<"system", r.system>>
         \o (IF r.system = "settings" /\ r.settings # "domains" THEN <<r.settings>> ELSE <<>>)
         \o (IF r.system = "status" /\ r.status # "overview" THEN <<r.status>> ELSE <<>>)

\* Mutant: the sections inside the system page are taken as they are.
TabAlone(s, r) == [r EXCEPT !.tab = IF ~s.known THEN @ ELSE Section(@, AllowedTabs(s), "overview")]
\* The route that is shown to a session.
ActiveRoute(s, r) ==
  IF ~s.known THEN r
  ELSE Route(Section(r.tab, AllowedTabs(s), "overview"), Section(r.system, AllowedSystemSections(s), "status"),
             Section(r.settings, AllowedSettingsSections(s), "domains"), Section(r.status, AllowedStatusSections(s), "overview"))

\* What is on screen.
ActivePage(r) ==
  IF r.tab # "system" THEN <<r.tab>>
  ELSE CASE r.system = "settings" -> <<"system", "settings", r.settings>>
         [] r.system = "status" -> <<"system", "status", r.status>>
         [] OTHER -> <<"system", r.system>>

\* The paths people have in links and bookmarks.
Links ==
  {<<t>> : t \in Tabs \cup {"settings", "license", "users", "federated-sso", "elsewhere"}}
    \cup {<<"settings", x>> : x \in SettingsSections \cup {"mesh"}}
    \cup {<<"system", x>> : x \in SystemSections \cup SettingsSections \cup StatusSections \cup {"mesh"}}
    \cup {<<"system", "settings", x>> : x \in SettingsSections \cup {"mesh"}}
    \cup {<<"system", "status", x>> : x \in StatusSections}

(***************************************************************************)
(* Steps: a render and the effects that follow it.                         *)
(***************************************************************************)
RoutesInit == visitor = Unknown /\ \E path \in Links : route = InitialRoute(path) /\ hash = PathOf(route)

\* The route is corrected and the address bar follows.
Settle(s, r) == visitor' = s /\ route' = ActiveRoute(s, r) /\ hash' = PathOf(route')
SessionPolled(s) == visitor # s /\ Settle(s, route)
\* The address bar stays as typed if the route is the one already shown.
FollowHash(path) ==
  IF InitialRoute(path) = route
  THEN hash' = (IF route.tab = "mesh" THEN <<"mesh">> ELSE path) /\ UNCHANGED <<visitor, route>>
  ELSE Settle(visitor, InitialRoute(path))
SelectTab(t) == visitor.known /\ t \in AllowedTabs(visitor) /\ Settle(visitor, [route EXCEPT !.tab = t])
SelectSystem(x) ==
  /\ visitor.known /\ route.tab = "system" /\ x \in AllowedSystemSections(visitor)
  /\ Settle(visitor, [route EXCEPT !.system = x])
SelectSettings(x) ==
  /\ visitor.known /\ route.tab = "system" /\ route.system = "settings" /\ x \in AllowedSettingsSections(visitor)
  /\ Settle(visitor, [route EXCEPT !.settings = x])
SelectStatus(x) ==
  /\ visitor.known /\ route.tab = "system" /\ route.system = "status" /\ x \in AllowedStatusSections(visitor)
  /\ Settle(visitor, [route EXCEPT !.status = x])
Reload == Settle(Unknown, InitialRoute(hash))

RoutesNext ==
  \/ \E s \in Sessions : SessionPolled(s)
  \/ \E path \in Links : FollowHash(path)
  \/ \E t \in Tabs : SelectTab(t)
  \/ \E x \in SystemSections : SelectSystem(x)
  \/ \E x \in SettingsSections : SelectSettings(x)
  \/ \E x \in StatusSections : SelectStatus(x)
  \/ Reload
RoutesSpec == RoutesInit /\ [][RoutesNext]_routeVars

(***************************************************************************)
(* Properties.                                                             *)
(***************************************************************************)
\* A page of administrators or of the identity management is never on screen for
\* a session without that right, however its link was reached and whatever the
\* session could see before.
PageAllowed ==
  visitor.known =>
    \A part \in Range(ActivePage(ActiveRoute(visitor, route))) :
      /\ part \in {"api-access", "mesh", "kubernetes-access", "settings", "license", "users", "power", "model-cache", "regression"}
           => visitor.admin
      /\ part \in {"kubernetes-access", "users", "federated-sso"} => visitor.identity

\* The address bar names the page on screen: a reload or a copied link shows it
\* again to the same session.
BookmarkTrue == ActivePage(ActiveRoute(visitor, InitialRoute(hash))) = ActivePage(ActiveRoute(visitor, route))

=============================================================================
