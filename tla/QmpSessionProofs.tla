-------------------------- MODULE QmpSessionProofs --------------------------
(***************************************************************************)
(* Proofs about QmpSession: when the two QEMUs are connected they have the *)
(* same multifd settings, for any number of runs of the scripts, any       *)
(* number of the proxy's attempts and either number of channels.           *)
(***************************************************************************)
EXTENDS QmpSession, TLAPS

SettingsSet == [multifd : BOOLEAN, channels : Nat]

Typed ==
  /\ script \in [Hosts -> {"off", "connected", "capable", "configured",
                           "monitoring", "over"}]
  /\ status \in [Hosts -> {"unknown", "gone"} \cup Running \cup Terminal]
  /\ settings \in [Hosts -> SettingsSet]
  /\ tunnel \in {"none", "trying", "joined", "over", "abandoned"}

Configured(h) == settings[h].multifd /\ settings[h].channels = Channels

\* What a script has behind it stays in QEMU, also when the script is started
\* again: the capability from its first command on, both settings from its
\* second.
ScriptConfigures ==
  \A h \in Hosts :
    /\ script[h] \in {"capable", "configured", "monitoring"} => settings[h].multifd
    /\ script[h] \in {"configured", "monitoring"} => Configured(h)

\* A QEMU that knows of a migration, or has known of one, was configured.
MigratesConfigured == \A h \in Hosts : status[h] # "unknown" => Configured(h)

\* So was the source of a connection, and the destination that it has reached.
TunnelConfigured ==
  /\ tunnel # "none" => Configured("src")
  /\ tunnel = "joined" => Configured("dst")

IInv == Typed /\ ScriptConfigures /\ MigratesConfigured /\ TunnelConfigured

\* Nothing is configured, and nothing has to be.
LEMMA InitIInv == Init => IInv
BY SessionAssumption DEF Init, IInv, Typed, SettingsSet, ScriptConfigures,
   MigratesConfigured, TunnelConfigured, Configured, Hosts

\* The two commands that change a setting set it to the script's value.
LEMMA SettingSteps ==
  ASSUME IInv, NEW h \in Hosts, SetCapabilities(h) \/ SetParameters(h)
  PROVE  IInv'
PROOF
<1> USE SessionAssumption DEF IInv, Typed, SettingsSet, ScriptConfigures,
        MigratesConfigured, TunnelConfigured, Configured, Hosts, Command
<1>1. CASE SetCapabilities(h)
  <2>1. Typed'
    BY <1>1 DEF SetCapabilities
  <2>2. ScriptConfigures'
    BY <1>1 DEF SetCapabilities
  <2>3. ASSUME NEW g \in Hosts, Configured(g) PROVE Configured(g)'
    BY <1>1, <2>3 DEF SetCapabilities
  <2>4. status' = status /\ tunnel' = tunnel
    BY <1>1 DEF SetCapabilities
  <2>5. MigratesConfigured'
    BY ONLY IInv, <2>3, <2>4 DEF IInv, MigratesConfigured
  <2>6. TunnelConfigured'
    BY ONLY IInv, <2>3, <2>4 DEF IInv, TunnelConfigured, Hosts
  <2> QED
    BY <2>1, <2>2, <2>5, <2>6
<1>2. CASE SetParameters(h)
  <2>1. Typed'
    BY <1>2 DEF SetParameters
  <2>2. ScriptConfigures'
    BY <1>2 DEF SetParameters
  <2>3. (MigratesConfigured /\ TunnelConfigured)'
    BY <1>2 DEF SetParameters
  <2> QED
    BY <2>1, <2>2, <2>3
<1> QED
  BY <1>1, <1>2

\* The other steps of the scripts leave the settings alone; the two that start
\* a migration find them set.
LEMMA ScriptSteps ==
  ASSUME IInv,
         \/ Migrate \/ MigrateIncoming
         \/ \E h \in Hosts : Polls(h) \/ ScriptStarts(h) \/ ScriptStops(h)
  PROVE  IInv'
PROOF
<1> USE DEF IInv, Typed, SettingsSet, ScriptConfigures, MigratesConfigured,
            TunnelConfigured, Configured, Hosts, ScriptEnds, Running, Terminal
<1>1. CASE Migrate
  BY <1>1 DEF Migrate
<1>2. CASE MigrateIncoming
  BY <1>2 DEF MigrateIncoming
<1>3. ASSUME NEW h \in Hosts, Polls(h) PROVE IInv'
  BY <1>3 DEF Polls
<1>4. ASSUME NEW h \in Hosts, ScriptStarts(h) PROVE IInv'
  BY <1>4 DEF ScriptStarts
<1>5. ASSUME NEW h \in Hosts, ScriptStops(h) PROVE IInv'
  BY <1>5 DEF ScriptStops
<1> QED
  BY <1>1, <1>2, <1>3, <1>4, <1>5

\* The QEMUs and the proxies change neither a script nor a setting: a status
\* goes on only from one that a script has brought about.
LEMMA OutsideSteps ==
  ASSUME IInv,
         \/ ProxyStep \/ QemuStep \/ Cancelling \/ ConnectionFails
         \/ LateConnection \/ SourceQuits \/ DestinationQuits
  PROVE  IInv'
PROOF
<1> USE DEF IInv, Typed, SettingsSet, ScriptConfigures, MigratesConfigured,
            TunnelConfigured, Configured, Hosts, Broken, Abandons, Lost, Running, Terminal
<1>1. CASE Retries
  BY <1>1 DEF Retries
<1>2. CASE Joins
  BY <1>2 DEF Joins
<1>3. CASE GivesUp
  BY <1>3 DEF GivesUp
<1>4. CASE SourceCompletes
  BY <1>4 DEF SourceCompletes
<1>5. CASE DestinationEnds
  BY <1>5 DEF DestinationEnds
<1>6. CASE Cancelled
  BY <1>6 DEF Cancelled
<1>7. CASE Cancelling
  BY <1>7 DEF Cancelling
<1>8. CASE ConnectionFails
  BY <1>8 DEF ConnectionFails
<1>9. CASE LateConnection
  BY <1>9 DEF LateConnection
<1>10. CASE SourceQuits
  BY <1>10 DEF SourceQuits
<1>11. CASE DestinationQuits
  BY <1>11 DEF DestinationQuits
<1> QED
  BY <1>1, <1>2, <1>3, <1>4, <1>5, <1>6, <1>7, <1>8, <1>9, <1>10, <1>11 DEF ProxyStep, QemuStep

\* The cases of Next, put together.
LEMMA NextIInv == IInv /\ [Next]_vars => IInv'
PROOF
<1> SUFFICES ASSUME IInv, [Next]_vars PROVE IInv'
  OBVIOUS
<1>1. CASE UNCHANGED vars
  BY <1>1 DEF vars, IInv, Typed, ScriptConfigures, MigratesConfigured,
     TunnelConfigured, Configured
<1>2. CASE Next
  BY <1>2, SettingSteps, ScriptSteps, OutsideSteps
     DEF Next, SourceStep, DestinationStep, ScriptStep, Hosts
<1> QED
  BY <1>1, <1>2

\* The inductive invariant holds in every state.
THEOREM Invariance == Spec => []IInv
BY InitIInv, NextIInv, PTL DEF Spec

\* Two QEMUs that are connected agree on multifd and on the number of channels:
\* each script sets its own side before it starts its migration, and nothing
\* that happens between takes it back.
THEOREM Agree == Spec => []SettingsAgree
PROOF
<1>1. IInv => SettingsAgree
  BY DEF IInv, Typed, SettingsSet, Hosts, TunnelConfigured, Configured, SettingsAgree
<1> QED
  BY <1>1, Invariance, PTL
=============================================================================
