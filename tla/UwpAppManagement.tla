--------------------------- MODULE UwpAppManagement ---------------------------
(***************************************************************************)
(* UwpAppManagementHandler: a section lists packages with the version to   *)
(* have and how they start.  The handler validates the whole list against  *)
(* what is installed and against the device's foreground app, puts the new *)
(* foreground app first, and then treats one package after another, each   *)
(* in an operation of its own: an error of one does not stop the others.   *)
(*                                                                         *)
(* The package manager and iotstartup.exe are modelled as the handler uses *)
(* them: a package of a higher version replaces the one installed, the     *)
(* headed list holds one app, and removing a package does not touch it.    *)
(***************************************************************************)
EXTENDS HandlerInvocation

CONSTANTS
    AppOrder,      \* the packages in the order of the section's keys
    MaxVersion,    \* bound: versions 1 .. MaxVersion; 0 is "not installed"
    AppSections    \* the sections the cloud may send

Apps == ToSet(AppOrder)
Versions == 0 .. MaxVersion

\* What a section says of a package; package: the blob holds it, or another
\* package family.
AppEntries == [mentioned : BOOLEAN, version : Versions,
               startup : {"undefined", "foreground", "background", "none"},
               appxSource : BOOLEAN, ownPackage : BOOLEAN]

ASSUME AppsParametersOK ==
    /\ AppOrder \in Seq(Apps) /\ IsInjective(AppOrder)
    /\ "none" \notin Apps
    /\ MaxVersion \in Nat
    /\ \A s \in AppSections :
         s \in [kind : SectionKinds, connectionString : BOOLEAN, detailed : BOOLEAN,
                apps : [Apps -> AppEntries]]

VARIABLES
    appVersion,     \* the version installed of each package
    foregroundApp,  \* the app of the headed list
    backgroundApps, \* the apps of the headless list
    appSection,     \* the section of the current or last invocation
    appTodo,        \* reorderedDesiredStates, from the one being treated on
    notFound        \* modifiedApps has a null package

uwpApps == <<appVersion, foregroundApp, backgroundApps, appSection, appTodo, notFound>>
appDevice == <<appVersion, foregroundApp, backgroundApps>>

AppActions == {"uninstall", "install", "upgrade", "downgrade", "query"}
DesiredAppStates == [app : Apps, action : AppActions]

\* Before the first invocation.
NoAppSection ==
    [kind |-> "none", connectionString |-> FALSE, detailed |-> FALSE,
     apps |-> [a \in Apps |-> [mentioned |-> FALSE, version |-> 0, startup |-> "undefined",
                               appxSource |-> FALSE, ownPackage |-> FALSE]]]

AppsInit ==
    /\ appVersion \in [Apps -> Versions]
    /\ foregroundApp \in {a \in Apps : appVersion[a] > 0}
    /\ backgroundApps = {}
    /\ appSection = NoAppSection
    /\ appTodo = << >>
    /\ notFound = FALSE

AppsOK ==
    /\ appVersion \in [Apps -> Versions]
    /\ foregroundApp \in Apps
    /\ backgroundApps \in SUBSET Apps
    /\ appSection \in AppSections \cup {NoAppSection}
    /\ appTodo \in Seq(DesiredAppStates)
    /\ notFound \in BOOLEAN

InvokeApps ==
    \E s \in AppSections :
       /\ Invoke(s.kind, "validate")
       /\ appSection' = s
       /\ appTodo' = << >>
       /\ notFound' = FALSE
       /\ UNCHANGED appDevice

Entry(a) == appSection.apps[a]
Startup(a) == IF Entry(a).version = 0 THEN "undefined" ELSE Entry(a).startup
Foregrounds == {a \in Apps : Entry(a).mentioned /\ Startup(a) = "foreground"}

AppAction(a) ==
    LET have == appVersion[a]
        want == Entry(a).version
    IN  CASE want = 0                -> "uninstall"
          [] have = 0 /\ want > 0    -> "install"
          [] have = want /\ want > 0 -> "query"
          [] 0 < have /\ have < want -> "upgrade"
          [] 0 < want /\ want < have -> "downgrade"

NeedsPackage(action) == action \in {"install", "upgrade", "downgrade"}

GetStartupApp == foregroundApp

\* ReorderAndValidate's exceptions.
Valid ==
    /\ \A a \in Apps :
         (Entry(a).mentioned /\ NeedsPackage(AppAction(a))) => Entry(a).appxSource
    /\ \A a, b \in Foregrounds : a = b
    /\ (Entry(GetStartupApp).mentioned
          /\ (Entry(GetStartupApp).version = 0 \/ Startup(GetStartupApp) = "none"))
         => Foregrounds # {}

\* Mutant: the states stay in the order of the section.
ReorderedAsGiven(states) == states

\* The new foreground app and the first entry change places.
Reordered(states) ==
    IF Foregrounds = {} \/ Startup(states[1].app) = "foreground" THEN states
    ELSE LET i == CHOOSE j \in DOMAIN states : states[j].app \in Foregrounds
         IN  [k \in DOMAIN states |->
                states[CASE k = 1 -> i [] k = i -> 1 [] OTHER -> k]]

DesiredStates(named) ==
    [i \in DOMAIN named |-> [app |-> named[i], action |-> AppAction(named[i])]]

ReorderAndValidate ==
    /\ At("validate")
    /\ \/ /\ Valid
          /\ \E named \in InOrderOf(AppOrder, {a \in Apps : Entry(a).mentioned}) :
               appTodo' = Reordered(DesiredStates(named))
          /\ Go("app")
       \/ ~Valid /\ Throw("app") /\ UNCHANGED appTodo
       \/ FailTo("app") /\ UNCHANGED appTodo    \* GetStartupApp
    /\ UNCHANGED <<appDevice, appSection, notFound>>

State == Head(appTodo)
Treating(here, actions) ==
    At(here) /\ appTodo # << >> /\ State.action \in actions

NextApp == appTodo' = Tail(appTodo)

\* A removal that fails ends this app's operation only.
UninstallApp ==
    /\ Treating("app", {"uninstall", "downgrade"})
    /\ \/ /\ appVersion' = [appVersion EXCEPT ![State.app] = 0]
          /\ IF State.action = "uninstall" THEN NextApp /\ Go("app")
             ELSE UNCHANGED appTodo /\ Go("install")
       \/ FailTo("app") /\ NextApp /\ UNCHANGED appVersion
    /\ UNCHANGED <<foregroundApp, backgroundApps, appSection, notFound>>

NoUninstall ==
    /\ Treating("app", {"install", "upgrade", "query"})
    /\ Go(IF State.action = "query" THEN "startup" ELSE "install")
    /\ UNCHANGED uwpApps

\* The connection string is missed only after the removal of a downgrade.
NoConnectionString ==
    /\ At("install")
    /\ ~appSection.connectionString
    /\ Throw("app")
    /\ NextApp
    /\ UNCHANGED <<appDevice, appSection, notFound>>

\* Download, AddPackageAsync, and the start of the app if that is asked for.
InstallApp ==
    /\ At("install")
    /\ appSection.connectionString
    /\ \/ /\ appVersion' = IF Entry(State.app).ownPackage
                           THEN [appVersion EXCEPT ![State.app] = Entry(State.app).version]
                           ELSE appVersion
          /\ Go("startup")
          /\ UNCHANGED appTodo
       \/ FailTo("app") /\ NextApp /\ UNCHANGED appVersion
       \/ /\ Entry(State.app).ownPackage    \* launchAfterInstall failed
          /\ appVersion' = [appVersion EXCEPT ![State.app] = Entry(State.app).version]
          /\ FailTo("app") /\ NextApp
    /\ UNCHANGED <<foregroundApp, backgroundApps, appSection, notFound>>

\* Mutant: nothing is done for an app that is in one of the lists.
UpdateAppStartupOnce(a) ==
    IF a \in backgroundApps THEN UNCHANGED <<foregroundApp, backgroundApps>>
    ELSE /\ foregroundApp' = IF Startup(a) = "foreground" THEN a ELSE foregroundApp
         /\ backgroundApps' = IF Startup(a) = "background" THEN backgroundApps \cup {a}
                              ELSE backgroundApps

\* UwpHelpers::UpdateAppStartup; "none" only removes from the headless list.
UpdateAppStartup(a) ==
    /\ foregroundApp' = IF Startup(a) = "foreground" THEN a ELSE foregroundApp
    /\ backgroundApps' = CASE Startup(a) = "background" -> backgroundApps \cup {a}
                           [] Startup(a) = "none"       -> backgroundApps \ {a}
                           [] OTHER                     -> backgroundApps

ApplyStartup ==
    /\ At("startup")
    /\ \/ /\ UpdateAppStartup(State.app)
          /\ notFound' = (notFound \/ appVersion[State.app] = 0)
          /\ Go("app")
       \/ FailTo("app") /\ UNCHANGED <<foregroundApp, backgroundApps, notFound>>
    /\ NextApp
    /\ UNCHANGED <<appVersion, appSection>>

\* BuildReported or EmptyReported.
ReportApps ==
    /\ At("app")
    /\ appTodo = << >>
    /\ ~(notFound /\ appSection.detailed)
    /\ Leave(FALSE) /\ UNCHANGED spent
    /\ UNCHANGED uwpApps

\* BuildReported reads through the null package: the noexcept Invoke ends the
\* host process.
ReportEndsHost ==
    /\ At("app")
    /\ appTodo = << >>
    /\ notFound /\ appSection.detailed
    /\ at' = "idle" /\ step' = "none" /\ errors' = FALSE
    /\ UNCHANGED <<deployment, spent, uwpApps>>

AppsStep ==
    \/ InvokeApps
    \/ ReorderAndValidate
    \/ UninstallApp \/ NoUninstall \/ NoConnectionString \/ InstallApp \/ ApplyStartup
    \/ ReportApps \/ ReportEndsHost
    \/ (FinalizeAndReport \/ HostEnds) /\ UNCHANGED uwpApps

(***************************************************************************)
(* When success is reported, every package of the section has the version  *)
(* it asks for - if its blob held that package - and the app it wants in   *)
(* the foreground or the background is in that list.  (The operations of   *)
(* ModifyApplicationHandler, one per app, and their common error list.)    *)
(***************************************************************************)
AppsApplied ==
    (Applied /\ appSection.kind = "good") =>
       \A a \in Apps : Entry(a).mentioned =>
          /\ Entry(a).ownPackage => appVersion[a] = Entry(a).version
          /\ Startup(a) = "foreground" => foregroundApp = a
          /\ Startup(a) = "background" => a \in backgroundApps
          /\ Startup(a) = "none" => foregroundApp # a /\ a \notin backgroundApps

\* The foreground app's package goes in its own downgrade, or after the entry of
\* the new foreground app.
RemovesForegroundLast ==
    \A a \in Apps :
      (a = foregroundApp /\ appVersion[a] > 0 /\ appVersion'[a] = 0) =>
         \/ Entry(a).version > 0
         \/ /\ Foregrounds \ {a} # {}
            /\ \A i \in DOMAIN appTodo : appTodo[i].app \notin Foregrounds

(***************************************************************************)
(* The foreground app's package is removed only while its own downgrade is *)
(* under way or when the section names another foreground app and that one *)
(* has been treated before (ReorderAndValidate).                           *)
(***************************************************************************)
ForegroundRemovedLast == [][RemovesForegroundLast]_uwpApps

(***************************************************************************)
(* As documented, the app that is in the foreground is not uninstalled     *)
(* without setting another one.  (A package that is removed for its own    *)
(* downgrade is not meant.)                                                *)
(***************************************************************************)
ForegroundNotUninstalled ==
    [][\A a \in Apps :
         (a = foregroundApp /\ appVersion[a] > 0 /\ appVersion'[a] = 0)
            => Entry(a).version > 0]_uwpApps

=============================================================================
