--------------------------- MODULE MCPluginHandlers ---------------------------
(***************************************************************************)
(* Two certificate stores, three apps, two collectors of which one's name  *)
(* is a part of the other's, a time zone of three fields, two settings and *)
(* two threads that give MDM commands.                                     *)
(***************************************************************************)
EXTENDS PluginHandlers

\* ---- certificates: b1 and b2 have the same file name, b3 is no certificate
MCStoreOrder == <<"My_User", "My_System">>
MCFileNameOf == [b1 |-> "f1", b2 |-> "f1", b3 |-> "f2"]
MCHeldBy == [b1 |-> "c1", b2 |-> "c2", b3 |-> "garbage"]

Not == [state |-> "unmentioned", blob |-> "none"]
In(b) == [state |-> "installed", blob |-> b]
Out == [state |-> "uninstalled", blob |-> "none"]
Odd == [state |-> "other", blob |-> "none"]
StoreLists(u1, u2, s1, s2) ==
    [My_User |-> [c1 |-> u1, c2 |-> u2], My_System |-> [c1 |-> s1, c2 |-> s2]]
CertSection(kind, conn, detailed, lists) ==
    [kind |-> kind, connectionString |-> conn, detailed |-> detailed, certs |-> lists]

MCCertificateSections ==
    {CertSection("good", TRUE, TRUE, StoreLists(In("b1"), In("b2"), Not, Out)),
     CertSection("good", TRUE, FALSE, StoreLists(Out, Not, In("b1"), In("b3"))),
     CertSection("good", TRUE, TRUE, StoreLists(In("b2"), Out, Out, In("b2"))),
     CertSection("good", FALSE, TRUE, StoreLists(In("b1"), Not, Odd, Out)),
     CertSection("wrongVersion", TRUE, TRUE, StoreLists(Out, Not, Not, Not)),
     CertSection("refreshing", TRUE, TRUE, StoreLists(Not, Not, Not, Not))}

\* ---- apps
Out0 == [mentioned |-> FALSE, version |-> 0, startup |-> "undefined",
         appxSource |-> TRUE, ownPackage |-> TRUE]
App(v, startup) == [Out0 EXCEPT !.mentioned = TRUE, !.version = v, !.startup = startup]
AppSection(kind, conn, a, b, c) ==
    [kind |-> kind, connectionString |-> conn, detailed |-> TRUE,
     apps |-> [a |-> a, b |-> b, c |-> c]]

MCAppSections ==
    {AppSection("good", TRUE, App(0, "undefined"), Out0, App(1, "foreground")),
     AppSection("good", TRUE, App(1, "none"), App(2, "background"), App(2, "foreground")),
     AppSection("good", TRUE, App(0, "undefined"), App(1, "none"), Out0),
     AppSection("good", TRUE, App(1, "foreground"), App(1, "foreground"), Out0),
     AppSection("good", FALSE, App(1, "undefined"), App(0, "undefined"), Out0),
     AppSection("good", TRUE, [App(2, "foreground") EXCEPT !.appxSource = FALSE], Out0, Out0),
     AppSection("good", TRUE, Out0, [App(1, "undefined") EXCEPT !.ownPackage = FALSE], Out0),
     AppSection("wrongVersion", TRUE, App(0, "undefined"), Out0, Out0),
     AppSection("refreshing", TRUE, Out0, Out0, Out0)}

MCAppOrder == <<"a", "b", "c">>

\* ---- collectors
MCCollectorOrder == <<"AzureDM", "Azure">>
MCNamePartOf == {<<"Azure", "AzureDM">>}
Log(fields, names, settings, providers, file, started) ==
    [fields |-> fields, validNames |-> names, settings |-> settings,
     providers |-> providers, file |-> file, started |-> started]
Provider(p1, p2) == [p1 |-> p1, p2 |-> p2]
NoLog == Log("unmentioned", TRUE, "circular", Provider("absent", "absent"), "own", FALSE)
LogSection(kind, azure, azureDM) ==
    [kind |-> kind, collectors |-> [Azure |-> azure, AzureDM |-> azureDM]]

MCLogSections ==
    LET both == Provider("circular", "sequential")
        one == Provider("sequential", "absent")
        none == Provider("absent", "absent")
    IN  {LogSection("good", Log("all", TRUE, "circular", both, "shared", TRUE),
                            Log("all", TRUE, "circular", one, "own", FALSE)),
         LogSection("good", Log("all", TRUE, "sequential", one, "shared", FALSE),
                            Log("all", TRUE, "sequential", both, "shared", TRUE)),
         LogSection("good", Log("all", TRUE, "sequential", none, "shared", FALSE),
                            Log("all", TRUE, "circular", none, "shared", FALSE)),
         LogSection("good", Log("some", TRUE, "circular", both, "shared", TRUE),
                            Log("all", TRUE, "circular", one, "own", FALSE)),
         LogSection("good", Log("none", TRUE, "circular", none, "own", TRUE),
                            Log("all", FALSE, "circular", both, "shared", TRUE)),
         LogSection("wrongVersion", Log("all", TRUE, "circular", both, "shared", TRUE), NoLog),
         LogSection("refreshing", NoLog, NoLog)}

\* ---- time
Change(kind, detailed, ntp, bias, std, dst) ==
    [kind |-> kind, detailed |-> detailed,
     leaves |-> [ntpServer |-> ntp, bias |-> bias, standardDate |-> std, daylightDate |-> dst]]

MCTimeChanges ==
    {Change("good", TRUE, "v1", "v1", "v1", "v2"),
     Change("good", TRUE, "v2", "same", "same", "same"),
     Change("good", FALSE, "same", "v2", "same", "same"),
     Change("good", TRUE, "same", "same", "absent", "absent"),
     Change("wrongVersion", TRUE, "v1", "v2", "v2", "v2")}

MCSettingOrder == <<"activeHoursStart", "activeHoursEnd">>

\* ---- policies: Windows Update, Reboot, Windows telemetry
MCPolicyHandlers ==
    {[required |-> FALSE, tryRead |-> TRUE],
     [required |-> FALSE, tryRead |-> FALSE],
     [required |-> TRUE, tryRead |-> FALSE]}
PolicySection(kind, detailed, first, second) ==
    [kind |-> kind, detailed |-> detailed,
     values |-> [activeHoursStart |-> first, activeHoursEnd |-> second]]

MCPolicySections ==
    {PolicySection("good", TRUE, "low", "high"),
     PolicySection("good", TRUE, "absent", "low"),
     PolicySection("good", FALSE, "invalid", "high"),
     PolicySection("wrongVersion", TRUE, "low", "low"),
     PolicySection("refreshing", TRUE, "absent", "absent")}

\* ---- direct methods
Call(method) ==
    [method |-> method, kind |-> "good", parameters |-> TRUE, clearTpm |-> FALSE, file |-> "log1"]

MCMethodCalls ==
    {Call(m) : m \in {"FactoryReset", "RemoteWipe", "Reboot", "UploadLogFile", "DeleteLogFile",
                      "EnumerateLogFiles", "StartApp", "StopApp", "CertificateDetail"}}
    \cup {[Call(m) EXCEPT !.clearTpm = TRUE] : m \in {"FactoryReset", "RemoteWipe"}}
    \cup {[Call(m) EXCEPT !.file = "log2"] : m \in {"UploadLogFile", "DeleteLogFile"}}
    \cup {[Call("FactoryReset") EXCEPT !.parameters = FALSE],
          [Call("RemoteWipe") EXCEPT !.kind = "wrongVersion"]}

\* ---- device information
MCInfoOrder == <<"deviceId", "manufacturer", "totalRAM">>
MCInfoSections == [kind : SectionKinds, detailed : BOOLEAN]

\* ---- MDM commands: a number, one that no int holds, and a flag
MCMdmFolder == <<".", "Vendor">>
MCMdmNameOrder == <<"State", "TraceLevel">>
MCStoi == [t \in {"200", "300", "5"} |->
             CASE t = "200" -> 200 [] t = "300" -> 300 [] t = "5" -> 5]

\* ---- schemas: a built-in handler, the schemas' own, and two of plug-ins
MCSchemaOrder == <<"clear", "h1", "h2", "schemas">>
MCSchemaTags == [clear |-> {"dm"}, h1 |-> {"dm"}, h2 |-> {"sensor"}, schemas |-> {"dm"}]
SchemaSection(kind, detailed, missing, groups, types, tags) ==
    [kind |-> kind, detailed |-> detailed, missing |-> missing, groups |-> groups,
     types |-> types, tags |-> tags]

MCSchemaSections ==
    {SchemaSection("good", TRUE, {}, {"all"}, {"all"}, {}),
     SchemaSection("good", TRUE, {}, {"h1", "clear"}, {"raw"}, {"dm"}),
     SchemaSection("good", TRUE, {}, {"configured", "clear"}, {"raw"}, {}),
     SchemaSection("good", FALSE, {"tags"}, {"h1", "schemas"}, {"all"}, {}),
     SchemaSection("good", TRUE, {"groups", "types"}, {}, {}, {"sensor"}),
     SchemaSection("good", TRUE, {"tags"}, {"all", "h2"}, {"other"}, {}),
     SchemaSection("wrongVersion", TRUE, {"groups"}, {}, {"other"}, {"dm"}),
     SchemaSection("refreshing", TRUE, {"groups", "types", "tags"}, {}, {}, {})}
=============================================================================
