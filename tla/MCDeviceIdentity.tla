--------------------------- MODULE MCDeviceIdentity ---------------------------
(***************************************************************************)
(* A device slot and the slot of one module, which the agent uses, or an   *)
(* operator with the limpet tool, the device's slot and two algorithms.    *)
(***************************************************************************)
EXTENDS LimpetTool

CONSTANTS device, module, h1, h2

TheModules == <<module>>
AllProcesses == {"agent", "app", "provisioner", "tool"}

Scenario(mode, lazy, dps, app, provisioned, f, c) ==
    [mode |-> mode, lazy |-> lazy, dps |-> dps, app |-> app, provisioned |-> provisioned,
     faults |-> f, crashes |-> c, commands |-> {}, certificate |-> None]

\* One fault or one restart while the agent is alone with the TPM; an
\* application beside it with restarts only; a provisioning service that
\* fills empty slots, with one fault or with an application beside it.
SingleFault ==
    {Scenario("unset", FALSE, TRUE, FALSE, {}, f, 1 - f) : f \in {0, 1}}
    \cup {Scenario("no", FALSE, TRUE, FALSE, {device, module}, f, 1 - f) : f \in {0, 1}}
    \cup {Scenario("no", FALSE, TRUE, TRUE, {}, 0, 1)}
    \cup {Scenario(m, lazy, FALSE, FALSE, {}, f, 0) :
             m \in {"no", "yes"}, lazy \in BOOLEAN, f \in {0, 1}}
    \cup {Scenario("yes", lazy, FALSE, TRUE, {}, 0, 0) : lazy \in BOOLEAN}

WithCertificate(s) == [s EXCEPT !.certificate = h1]

\* A device whose certificate names a hub: with both slots filled, with the
\* module's or both empty, to be registered or to be filled by another service.
CertifiedDevice ==
    {WithCertificate(Scenario("no", FALSE, TRUE, FALSE, provisioned, f, 1 - f)) :
        provisioned \in {{}, {device}, {device, module}}, f \in {0, 1}}
    \cup {WithCertificate(Scenario("no", FALSE, FALSE, TRUE, {}, 0, 0))}

Command(name) == [name |-> name, slot |-> device, hub |-> None, alg |-> None]
OfAlg(name, a) == [Command(name) EXCEPT !.alg = a]
OfHub(name, h) == [Command(name) EXCEPT !.hub = h]

\* Two algorithms only while certificates are read and destroyed.
Certificates ==
    {OfAlg(n, a) : n \in {"read", "delete"}, a \in Algorithms}
    \cup {OfHub("aic", h1)}
    \cup {Command(n) : n \in {"iic", "ics", "sic", "rur", "dld"}}

Challenges ==
    {OfAlg(n, "RSA") : n \in {"read", "activate"}}
    \cup {Command(n) : n \in {"erk", "cai", "epl", "dpl"}}

SlotCommands ==
    {OfHub(n, h) : n \in {"pcs", "sur", "chk"}, h \in {h1, h2}}
    \cup {Command(n) : n \in {"rur", "dur", "shk", "ast", "ehk", "lld", "dld"}}

Hostages ==
    {OfHub("csi", h) : h \in {h1, h2}}
    \cup {Command(n) : n \in {"srk", "erk", "isi", "shk", "fct", "dld"}}

ToolScenario(mode, lazy, commands, f, c) ==
    [Scenario(mode, lazy, FALSE, FALSE, {}, f, c) EXCEPT !.commands = commands]

Operator ==
    {ToolScenario("no", FALSE, Certificates, f, 1 - f) : f \in {0, 1}}
    \cup {ToolScenario("no", FALSE, Challenges, f, 1 - f) : f \in {0, 1}}
    \cup {ToolScenario(m, FALSE, SlotCommands, f, 1 - f) :
             m \in {"unset", "no", "yes"}, f \in {0, 1}}
    \cup {ToolScenario(m, m = "yes", Hostages, f, 1 - f) : m \in {"no", "yes"}, f \in {0, 1}}

AllScenarios == SingleFault \cup CertifiedDevice \cup Operator

===============================================================================
