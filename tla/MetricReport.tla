---------------------------- MODULE MetricReport ----------------------------
(***************************************************************************)
(* What a client finds in the metric report for a reading: the URI of the  *)
(* property it stands for, and the value as text.                          *)
(*                                                                         *)
(* src/lib/utils/metric_report_utils.hpp.  A producer publishes a property *)
(* with getMetricValues, which makes the URI and the text, and updates it  *)
(* with getMetricValue, which makes the text again, knowing less.          *)
(*                                                                         *)
(* A URI is a sequence of words, as names are (DevicePath): "#" is a word, *)
(* and a name keeps the words it has.  A text says what it was made from:  *)
(* <<"duration of ns", "7">> for to_duration_string of 7 ns.               *)
(***************************************************************************)
EXTENDS DevicePath, MetricTables

CONSTANTS
    Prefix,         \* PLATFORMDEVICEPREFIX, a word
    SystemId,       \* PLATFORMSYSTEMID, a name
    Sensors,        \* what a producer reports: path, interface, property, the
                    \* parent it gives, and the readings there may be
    MaxShown        \* bound: sensors registered in a behaviour

ASSUME SensorsAssumption ==
    \A s \in Sensors : s.path \in Seq(Seq(STRING)) /\ s.parent \in Seq(STRING)

VARIABLES
    fields,         \* NameSpaceFields of the sensors that are registered
    shown,          \* per registered sensor: its elements, URI and text by index
    last            \* auxiliary: per registered sensor, its last reading

vars == <<fields, shown, last>>

-----------------------------------------------------------------------------
(* Texts.                                                                  *)

Text(t) == <<"text", t>>
Empty   == Text("")

\* The map's text for a member, and the default for a value it does not have.
Lookup(map, x, default) ==
    IF x.enum \in DOMAIN map /\ x.name \in DOMAIN map[x.enum]
    THEN map[x.enum][x.name] ELSE default

\* Of the link status a CPU shows only whether it is well.
HealthOf(status) ==
    CASE status \in {"LinkDown", "LinkUp"} -> "OK"
      [] status = "NoLink"                 -> "Critical"
      [] OTHER                             -> ""

\* The metrics that are translated, per interface that has any.
Translated ==
    [ProcessorPerformance |-> {"ThrottleReason", "Value"}, PCIeECC |-> {"PCIeType"},
     PortState |-> {"LinkStatus", "LinkState"}, PowerSystemInputs |-> {"Status"},
     OperationalStatus |-> {"State"}, ResetCounterMetrics |-> {"LastResetType"},
     PCIeDevice |-> {"MaxPCIeType", "PCIeType"}, IBPort |-> {"LinkDownReasonCode"},
     MemorySpareChannel |-> {"MemorySpareChannelPresence"},
     MemoryRowRemapping |-> {"RowRemappingFailureState", "RowRemappingPendingState"}]

\* translateReading; device is "" where the caller does not give it.  A string of
\* an interface that has translated metrics is dropped unless it is one of them,
\* but for MemoryRowRemapping.
TranslateReading(iface, metric, x, device) ==
    IF iface \notin DOMAIN Translated THEN Text(x.name)
    ELSE IF metric \notin Translated[iface]
    THEN IF iface = "MemoryRowRemapping" THEN Text(x.name) ELSE Empty
    ELSE Text(
        CASE iface = "ProcessorPerformance" -> Lookup(reasonTypeMap, x, "")
          [] iface \in {"PCIeECC", "PCIeDevice"} -> Lookup(pcieTypeMap, x, "Unknown")
          [] iface = "PortState" /\ metric = "LinkState" -> Lookup(linkStateTypeMap, x, "")
          [] iface = "PortState" /\ metric = "LinkStatus" ->
                LET status == Lookup(linkStatusTypeMap, x, "")
                IN  IF device = "CpuProcessorMetrics" THEN HealthOf(status) ELSE status
          [] iface = "PowerSystemInputs" -> Lookup(powerSystemInputTypeTypeMap, x, "")
          [] iface = "OperationalStatus" -> Lookup(powerStateTypeMap, x, "")
          [] iface = "ResetCounterMetrics" -> Lookup(lastResetTypeMap, x, "Unknown")
          [] iface = "IBPort" -> Lookup(linkDownReasonCodeMap, x, "Unknown")
          [] iface = "MemorySpareChannel" -> Lookup(presenceStateMap, x, "")
          [] iface = "MemoryRowRemapping" -> Lookup(rowRemappingStateMap, x, ""))

\* A count of 64 bits: throttle durations are in ns, accumulated ones in ms.
TranslateCount(iface, metric, n) ==
    IF iface = "ProcessorPerformance" /\
       metric \in {"AccumulatedSMUtilizationDuration", "AccumulatedGPUContextUtilizationDuration"}
    THEN <<"duration of ms", n>>
    ELSE IF metric \in {"PowerLimitThrottleDuration", "ThermalLimitThrottleDuration",
                        "HardwareViolationThrottleDuration",
                        "GlobalSoftwareViolationThrottleDuration"}
    THEN <<"duration of ns", n>>
    ELSE <<"decimal", n>>

TranslateOperationalStatus(metric, b) ==
    IF metric # "Functional" THEN Empty
    ELSE IF b = "true" THEN Text("Enabled") ELSE Text("Disabled")

\* The text of one value, as both functions make it; status says whether a
\* BOOLEAN is an operational status.
ValueText(iface, metric, type, x, device, status) ==
    CASE type = "string" -> TranslateReading(iface, metric, x, device)
      [] type = "uint64" -> TranslateCount(iface, metric, x.name)
      [] type = "bool"   -> IF status THEN TranslateOperationalStatus(metric, x.name)
                            ELSE Text(x.name)
      [] OTHER           -> <<"decimal", x.name>>

-----------------------------------------------------------------------------
(* URIs.                                                                   *)

GetPropertySuffix(iface, metric) ==
    IF iface \in DOMAIN pdiNameMap /\ metric \in DOMAIN pdiNameMap[iface]
    THEN pdiNameMap[iface][metric] ELSE <<>>

\* The metrics of a CPU that its object path tells apart, first come first served.
GetPropertySuffixFromPath(p) ==
    LET suffixes == <<<<"PowerBRKAssertionTime", "PowerBrakeAssertionDuration">>,
                      <<"PageRetirementCount", "MemoryPageRetirementCount">>,
                      <<"TjMaxDramIndex", "TjMaxDramIndex">>, <<"CpuUptime", "CPUUptime">>>>
        found    == {i \in DOMAIN suffixes : Mentions(p, suffixes[i][1])}
    IN  IF found = {} THEN <<>>
        ELSE <<"#", "/Oem/Nvidia/">>
             \o <<suffixes[CHOOSE i \in found : \A j \in found : i <= j][2]>>

cpuPortOemMetricMappings ==
    <<<<"CLinkPacketCrcCount", "CLink", "PacketCRCErrors">>,
      <<"CLinkPacketReplayCount", "CLink", "PacketReplayErrors">>,
      <<"CLinkBandwidth", "CLink", "BandwidthBytesPerSecond">>,
      <<"NVLinkPacketCrcCount", "NVLink", "PacketCRCErrors">>,
      <<"NVLinkPacketReplayCount", "NVLink", "PacketReplayErrors">>,
      <<"NVLinkBandwidth", "NVLink", "BandwidthBytesPerSecond">>>>

\* getCpuPortMetricNames: the first mapping whose token the leaf has.  The port is
\* named as the leaf is, with the token of the port in place of the metric's, where
\* that is first found.  A set with one port and its metric, or none.
CpuPort(p) ==
    LET leaf  == Filename(p)
        known == cpuPortOemMetricMappings
        found == {i \in DOMAIN known : Has(leaf, known[i][1])}
        At(w) == CHOOSE k \in DOMAIN leaf : leaf[k] = w /\ \A j \in 1 .. k - 1 : leaf[j] # w
    IN  {[port |-> [leaf EXCEPT ![At(known[i][1])] = known[i][2]], metric |-> known[i][3]] :
            i \in {j \in found : \A k \in found : j <= k}}

Prefixed(name) == IF StartsWith(<<name>>, <<Prefix>>) THEN name ELSE <<Prefix>> \o name

\* A resource is a name in a collection, which may be that of another resource.
In(collection, name) == <<[collection |-> collection, name |-> name]>>

Systems(name)   == In("/redfish/v1/Systems/", name)
Chassis(name)   == In("/redfish/v1/Chassis/", name)
Fabrics(name)   == In("/redfish/v1/Fabrics/", name)
Processor(name) == Systems(SystemId) \o In("/Processors/", name)
Port(name)      == In("/Ports/", name)
Sensor(f)       == Chassis(Prefixed(f.device)) \o In("/Sensors/", f.subDevice)
Switch(name)    == Fabrics(<<Prefix, "NVLinkFabric_0">>) \o In("/Switches/", name)
OwnChassis(name)  == Chassis(<<Prefix>> \o name)
PCIeDevice(name)  == In("/PCIeDevices/", name)

\* Where a property is found: a resource, and what of it.
At(resource, leaf) == [resource |-> resource, leaf |-> leaf]
Nowhere == At(<<>>, <<>>)

CpuProcessorAt(f, p, metric, iface) ==
    LET suffix == GetPropertySuffix(iface, metric)
    IN  CASE iface = "Sensor.Value" -> At(Sensor(f), <<>>)
          [] iface = "Metric.Value" ->
                IF CpuPort(p) # {}
                THEN LET c == CHOOSE x \in CpuPort(p) : TRUE
                     IN  At(Processor(f.device) \o Port(c.port),
                            <<"/Metrics", "#", "/Oem/Nvidia/", c.metric>>)
                ELSE At(Processor(f.device), <<"/ProcessorMetrics">> \o GetPropertySuffixFromPath(p))
          [] iface \in {"MemorySpareChannel", "PowerSystemInputs", "ProcessorPerformance"} ->
                At(Processor(f.device), <<"/ProcessorMetrics">> \o suffix)
          [] iface = "PortState" ->
                IF metric \in {"LinkStatus", "LinkState"}
                THEN At(Processor(f.device) \o Port(f.subDevice),
                        <<"#", "/Status/", IF metric = "LinkStatus" THEN "Health" ELSE "State">>)
                ELSE Nowhere
          [] OTHER -> At(Processor(f.device) \o Port(f.subDevice), suffix)

\* The resource of a processor's property, and the part of it that the property is in.
ProcessorAt(f, p, metric, iface) ==
    LET child  == Filename(p)
        suffix == GetPropertySuffix(iface, metric)
        Its(part) == At(Processor(f.device), part \o suffix)
        Reconfig(kind) == At(Processor(GrandparentName(p)), <<"#", kind>> \o child \o suffix)
    IN  CASE iface = "MemoryECC" ->
                Its(<<"/ProcessorMetrics", "#", IF metric = "isThresholdExceeded" THEN "/Oem/Nvidia"
                                                ELSE "/CacheMetricsTotal/LifeTime">>)
          [] iface = "PCIeECC" /\ metric \in {"PCIeType", "MaxLanes", "LanesInUse"} ->
                At(OwnChassis(child) \o PCIeDevice(child), suffix)
          [] iface = "OperationalStatus" -> Its(<<"#">>)
          [] iface = "PowerLimit" -> At(OwnChassis(f.device), <<"#">> \o suffix)
          [] iface = "OperatingConfig" /\
             metric \in {"MaxSpeed", "MinSpeed", "SpeedLimit", "SpeedLocked"} -> Its(<<"#">>)
          [] iface \in {"CurrentPowerProfile", "PowerSmoothing"} ->
                Its(<<"/Oem/Nvidia/PowerSmoothing", "#">>)
          [] iface = "InbandReconfigSettings" /\ metric \in DOMAIN reConfigPermission
             /\ Mentions(p, "InbandReconfigPermissions") ->
                Reconfig("/Oem/Nvidia/InbandReconfigPermissions/")
          [] iface = "InbandReconfigSettings" /\ metric \in DOMAIN reConfigPermission
             /\ ~Mentions(p, "InbandReconfigPermissions") /\ Mentions(p, "DOEReconfigPermissions") ->
                Reconfig("/Oem/Nvidia/DOEReconfigPermissions/")
          [] iface = "Power.Cap" -> Its(<<"/EnvironmentMetrics", "#">>)
          [] OTHER -> Its(<<"/ProcessorMetrics", "#">>)

SwitchPart(metric, iface) ==
    (IF metric \in {"CurrentBandwidth", "MaxBandwidth"} THEN <<"#">> ELSE <<"/SwitchMetrics", "#">>)
    \o (IF iface = "MemoryECC" THEN <<"/InternalMemoryMetrics/LifeTime">> ELSE <<>>)

Memory(name) == Systems(SystemId) \o In("/Memory/", name)
MemoryPart(metric, iface) ==
    CASE iface = "MemoryRowRemapping" /\
            metric \in {"RowRemappingFailureState", "RowRemappingPendingState"} -> <<"#">>
      [] iface = "MemoryMetrics" /\ metric # "CapacityUtilizationPercent" -> <<>>
      [] iface = "MemoryECC" -> <<"/MemoryMetrics", "#", "/LifeTime">>
      [] OTHER -> <<"/MemoryMetrics", "#">>

\* The chassis that the path of a network adapter names, or the adapter's own: the
\* longest text between "chassis/" and "/NetworkAdapters".
AdapterChassis(f, p) ==
    LET ends == {e \in (DOMAIN p) \X (DOMAIN p) :
                    /\ e[1] < e[2] - 1
                    /\ p[e[1]][Len(p[e[1]])] = "chassis" /\ p[e[2]][1] = "NetworkAdapters"}
    IN  IF ends = {} THEN <<Prefix>> \o f.device
        ELSE LET e == CHOOSE x \in ends : \A y \in ends : x[1] <= y[1] /\ x[2] >= y[2]
                 joined[k \in 0 .. e[2] - e[1] - 2] ==
                     IF k = 0 THEN p[e[1] + 1] ELSE joined[k - 1] \o <<"/">> \o p[e[1] + 1 + k]
             IN  joined[e[2] - e[1] - 2]

Adapter(f, p) == Chassis(AdapterChassis(f, p)) \o In("/NetworkAdapters/", f.device)

\* What follows the last "_" of the name; the model cuts retimers' names there.
RetimerId(name) ==
    LET at == {i \in DOMAIN name : name[i] = "_"}
    IN  IF at = {} THEN <<"0">>
        ELSE SubSeq(name, 1 + CHOOSE i \in at : \A j \in at : j <= i, Len(name))

Retimer(name) ==
    Fabrics(<<Prefix, "PCIeRetimerTopology_">> \o RetimerId(name)) \o In("/Switches/", name)
RetimerPart(iface) ==
    IF iface \in {"PCIeECC", "PCIeTransactionCounter", "PCIeLaneError"}
    THEN <<"/Metrics", "#">> ELSE <<>>

HealthAt(f, p, metric, iface) ==
    IF Mentions(p, "inventory_software") /\ iface = "OperationalStatus"
    THEN IF metric = "Functional"
         THEN At(In("/redfish/v1/UpdateService/SoftwareInventory/", f.device),
                 <<"#", "/Status/", "State">>)
         ELSE Nowhere
    ELSE At(IF <<Prefix>> \o f.device = SystemId THEN Systems(SystemId) ELSE OwnChassis(f.device),
            GetPropertySuffix(iface, metric))

\* generateURI, by namespace.
Located(f, p, metric, iface) ==
    LET suffix == GetPropertySuffix(iface, metric)
    IN  CASE f.ns = "PlatformEnvironmentMetrics" -> At(Sensor(f), <<>>)
          [] f.ns = "CpuProcessorMetrics" -> CpuProcessorAt(f, p, metric, iface)
          [] f.ns = "ProcessorPortMetrics" ->
                At(Processor(f.device) \o Port(f.subDevice), suffix)
          [] f.ns = "ProcessorPortGPMMetrics" ->
                At(Processor(f.device) \o Port(f.subDevice), <<"/Metrics", "#">> \o suffix)
          [] f.ns = "NVSwitchPortMetrics" -> At(Switch(f.device) \o Port(f.subDevice), suffix)
          [] f.ns = "NetworkAdapterPortMetrics" ->
                At(Adapter(f, p) \o Port(f.subDevice), suffix)
          [] f.ns = "ProcessorMetrics" -> ProcessorAt(f, p, metric, iface)
          [] f.ns = "ProcessorGPMMetrics" ->
                At(Processor(f.device), <<"/ProcessorMetrics", "#">> \o suffix)
          [] f.ns = "ProcessorResetMetrics" ->
                At(Processor(f.device), <<"/Oem/Nvidia/ProcessorResetMetrics", "#">> \o suffix)
          [] f.ns = "NVSwitchMetrics" -> At(Switch(f.device), SwitchPart(metric, iface) \o suffix)
          [] f.ns = "PCIeRetimerMetrics" ->
                At(Chassis(f.device) \o PCIeDevice(f.subDevice), suffix)
          [] f.ns = "PCIeRetimerPortMetrics" ->
                At(Retimer(f.device) \o Port(f.subDevice), RetimerPart(iface) \o suffix)
          [] f.ns = "MemoryMetrics" -> At(Memory(f.device), MemoryPart(metric, iface) \o suffix)
          [] f.ns = "HealthMetrics" -> HealthAt(f, p, metric, iface)
          [] OTHER -> Nowhere

\* The text of a resource up to each of its names.
Texts(resource) ==
    LET text[k \in 0 .. Len(resource)] ==
            IF k = 0 THEN <<>>
            ELSE text[k - 1] \o <<resource[k].collection>> \o resource[k].name
    IN  text

TextOf(place) == Texts(place.resource)[Len(place.resource)] \o place.leaf

\* Slip: the port is left out.
GenerateURINoPort(f, p, metric, iface) ==
    TextOf(At(IF f.ns \in {"ProcessorPortMetrics", "ProcessorPortGPMMetrics"}
              THEN Processor(f.device) ELSE Switch(f.device), GetPropertySuffix(iface, metric)))

\* Slip: what the namespace says of the leaf is left out.
GenerateURIBare(f, p, metric, iface) ==
    TextOf(At(Located(f, p, metric, iface).resource, GetPropertySuffix(iface, metric)))

\* generateURI; the empty sequence when there is none.
GenerateURI(f, p, metric, iface) == TextOf(Located(f, p, metric, iface))

-----------------------------------------------------------------------------
(* A sensor's life in the aggregator.                                      *)

Plain   == -1
Lists   == {"strings", "doubles"}
ElementOf == [strings |-> "string", doubles |-> "double"]

\* A BOOLEAN of a published sensor is an operational status when its path says so.
IsStatus(s) == Mentions(s.path, "inventory_software") /\ s.iface = "OperationalStatus"

\* The elements of a reading, by index: those of a list have its URI and theirs.
GetMetricValues(f, s, r) ==
    LET uri == GenerateURI(f, s.path, s.prop, s.iface)
        Of(type, x, i) ==
            [uri |-> uri, index |-> i,
             text |-> ValueText(s.iface, s.prop, type, x, f.ns, IsStatus(s))]
    IN  IF s.type \in Lists
        THEN [i \in 0 .. Len(r) - 1 |-> Of(ElementOf[s.type], r[i + 1], i)]
        ELSE [i \in (IF uri = <<>> THEN {} ELSE {Plain}) |-> Of(s.type, r[1], Plain)]

\* Slip: an update does not know of durations.
GetMetricValueRaw(s, x) ==
    IF s.type = "uint64" THEN <<"decimal", x.name>>
    ELSE ValueText(s.iface, s.prop, s.type, x, "", s.iface = "OperationalStatus")

\* The text of an update: without the namespace, and any BOOLEAN of the interface
\* is an operational status.
GetMetricValue(s, x) ==
    ValueText(s.iface, s.prop, s.type, x, "", s.iface = "OperationalStatus")

Orders(S) == {o \in [1 .. Cardinality(S) -> S] : \A x \in S : \E i \in DOMAIN o : o[i] = x}

\* The namespaces that a path matches; where the others are in the table is all one.
Touched(p) ==
    {ns \in NameSpaces : \E i \in DOMAIN nameSpaceConfig[ns] :
        GetMatchCount(nameSpaceConfig[ns][i].keyword, p) > 0}

With(g, s, x) == [t \in DOMAIN g \cup {s} |-> IF t = s THEN x ELSE g[t]]

Init ==
    /\ fields = [s \in {} |-> 0]
    /\ shown = [s \in {} |-> 0]
    /\ last = [s \in {} |-> 0]

\* The first reading of a sensor that has a namespace.  The table of namespaces is
\* walked in an order that its hash function makes.
Publish(s, r) ==
    /\ s \notin DOMAIN fields /\ Cardinality(DOMAIN fields) < MaxShown
    /\ \E order \in Orders(Touched(s.path)) :
          \E f \in FieldsOf(s.path, s.prop, s.parent, order) :
             /\ fields' = With(fields, s, f)
             /\ shown' = With(shown, s, GetMetricValues(f, s, r))
    /\ last' = With(last, s, r)

\* A later reading; a list's is SensorAggregator's business.
Refresh(s, r) ==
    /\ s \in DOMAIN fields /\ s.type \notin Lists
    /\ shown' = [shown EXCEPT ![s] =
          [i \in DOMAIN @ |-> [@[i] EXCEPT !.text = GetMetricValue(s, r[1])]]]
    /\ last' = [last EXCEPT ![s] = r]
    /\ UNCHANGED fields

Next == \E s \in Sensors : \E r \in s.readings : Publish(s, r) \/ Refresh(s, r)

Spec == Init /\ [][Next]_vars

-----------------------------------------------------------------------------
(* What the code takes for granted of the tables and of the sensors.       *)

\* No sensor is at home in two namespaces.
OneHome == \A s \in Sensors : \A a, b \in Homes(s.path, s.prop) : a = b

\* A path that does not name a device matches a keyword of two words.
LongKeywords ==
    \A s \in Sensors : Partial(s.path) /\ Homes(s.path, s.prop) # {} =>
        \E e \in Entries : LET keyword == nameSpaceConfig[e[1]][e[2]].keyword
                           IN  Matches(keyword, s.path) /\ Len(keyword) >= 2

\* A link status of a CPU's port is not reported, a software inventory alone has an
\* operational status that is a BOOLEAN.
SameFacts ==
    \A s \in Sensors :
        /\ s.iface = "PortState" /\ s.prop = "LinkStatus"
           => "CpuProcessorMetrics" \notin Homes(s.path, s.prop)
        /\ s.iface = "OperationalStatus" /\ s.type = "bool" => IsStatus(s)

\* The list that a sensor reports has a URI, whatever its device is.
ListsHaveURI ==
    \A s \in Sensors : s.type \in Lists =>
        LET names == Range(s.path) \cup {<<>>, s.parent}
        IN  \A f \in [ns : Homes(s.path, s.prop), device : names, subDevice : names] :
                GenerateURI(f, s.path, s.prop, s.iface) # <<>>

\* What a leaf begins with, and the collections that a resource is in; no name of a
\* D-Bus object has a "#" or a "/" in it.
Openings ==
    {"#", "/Metrics", "/ProcessorMetrics", "/SwitchMetrics", "/MemoryMetrics",
     "/EnvironmentMetrics", "/Oem/Nvidia/PowerSmoothing", "/Oem/Nvidia/ProcessorResetMetrics"}
Collections ==
    {"/redfish/v1/Systems/", "/redfish/v1/Chassis/", "/redfish/v1/Fabrics/",
     "/redfish/v1/UpdateService/SoftwareInventory/", "/Processors/", "/Ports/", "/Sensors/",
     "/Switches/", "/PCIeDevices/", "/Memory/", "/NetworkAdapters/"}
Words == STRING \ (Openings \cup Collections)

PlainNames ==
    /\ Prefix \in Words /\ SystemId \in Seq(Words)
    /\ \A s \in Sensors : s.path \in Seq(Seq(Words)) /\ s.parent \in Seq(Words)

\* Where the property of a sensor may be found, in whatever order it is placed.
PlacesOf(s) ==
    {Located(f, s.path, s.prop, s.iface) :
        f \in UNION {FieldsOf(s.path, s.prop, s.parent, order) : order \in Orders(Touched(s.path))}}
    \ {Nowhere}

\* Where a resource ends can be seen in its URI.
LeavesFit ==
    \A s \in Sensors : \A place \in PlacesOf(s) :
        \/ place.leaf = <<>>
        \/ place.leaf \in Seq(STRING) /\ place.leaf # <<>> /\ place.leaf[1] \in Openings

\* The properties that the tables know of the interfaces.
Known(ifaces) == UNION {{i} \X DOMAIN pdiNameMap[i] : i \in ifaces}

LinkMetrics == {"PCIeECC"} \X {"PCIeType", "MaxLanes", "LanesInUse"}
PortMetrics == Known({"PortInfo", "PortState", "PortWidth", "IBPort", "EthPort",
                      "PortMetricsOem1", "PortMetricsOem2", "PortMetricsOem3", "PortPacketCounters"})

\* Which properties of which interfaces belong in a namespace.  The code does not look:
\* it is the producers' business and that of the property lists in the configuration.
Reported ==
    [PlatformEnvironmentMetrics |-> {<<"Sensor.Value", "Value">>},
     CpuProcessorMetrics |->
        PortMetrics \cup {<<"Sensor.Value", "Value">>, <<"Metric.Value", "Value">>,
                      <<"MemorySpareChannel", "MemorySpareChannelPresence">>,
                      <<"PowerSystemInputs", "Status">>, <<"ProcessorPerformance", "Value">>},
     ProcessorPortMetrics |-> PortMetrics, NVSwitchPortMetrics |-> PortMetrics,
     NetworkAdapterPortMetrics |-> PortMetrics,
     ProcessorPortGPMMetrics |-> Known({"NVLinkMetrics"}),
     ProcessorMetrics |->
        Known({"MemoryECC", "PCIeECC", "OperationalStatus", "PowerLimit", "OperatingConfig",
            "CurrentPowerProfile", "PowerSmoothing", "InbandReconfigSettings", "Power.Cap",
            "ProcessorPerformance", "SMUtilization"}) \ {<<"ProcessorPerformance", "Value">>},
     ProcessorGPMMetrics |-> Known({"GPMMetrics", "NVLinkMetrics"}),
     ProcessorResetMetrics |-> Known({"ResetCounterMetrics"}),
     NVSwitchMetrics |-> Known({"Switch", "MemoryECC", "PCIeECC"}) \ LinkMetrics,
     PCIeRetimerMetrics |-> Known({"PCIeDevice", "PCIeRefClock"}),
     PCIeRetimerPortMetrics |->
        PortMetrics \cup (Known({"PCIeECC", "PCIeTransactionCounter", "PCIeLaneError"}) \ LinkMetrics),
     MemoryMetrics |-> Known({"Dimm", "MemoryECC", "MemoryMetrics", "MemoryRowRemapping"}),
     HealthMetrics |-> Known({"Health", "HealthRollup"}) \cup {<<"OperationalStatus", "Functional">>}]

\* The sensors keep to it; a path names the metric, or the software, that it stands for.
InTheirNamespaces ==
    \A s \in Sensors : \A ns \in Homes(s.path, s.prop) :
        /\ ns \in DOMAIN Reported /\ <<s.iface, s.prop>> \in Reported[ns]
        /\ s.iface = "Metric.Value" =>
              CpuPort(s.path) # {} \/ GetPropertySuffixFromPath(s.path) # <<>>
        /\ ns = "HealthMetrics" /\ s.iface = "OperationalStatus" => IsStatus(s)

\* No two sensors report the same leaf of the same resource.
PerLeaf ==
    LET places == [s \in Sensors |-> PlacesOf(s)]
    IN  \A s, t \in Sensors : \A place \in places[s] : place \in places[t] => s = t

-----------------------------------------------------------------------------
(* Properties.                                                             *)

\* A registered sensor has a namespace of the configuration and a device, and its
\* elements have a URI and a text.
TypeOK ==
    /\ DOMAIN fields \subseteq Sensors /\ DOMAIN shown = DOMAIN fields
    /\ DOMAIN last = DOMAIN fields
    /\ \A s \in DOMAIN fields :
          /\ fields[s].ns \in NameSpaces /\ fields[s].device # <<>>
          /\ last[s] \in s.readings
          /\ \A i \in DOMAIN shown[s] : shown[s][i].uri # <<>> /\ Len(shown[s][i].text) = 2

\* The namespaces are walked in the order of a hash table and the first one that
\* lists the property has it: it is the one whose keyword says most of the path,
\* and no order would have chosen another.
AtHome == \A s \in DOMAIN fields : Homes(s.path, s.prop) = {fields[s].ns}

\* A sensor whose path does not name its device is its parent's, also when the walk
\* first met a keyword that took the sensor itself for a device.
SensorsHaveParents ==
    \A s \in DOMAIN fields : Partial(s.path) => fields[s].device = s.parent

\* No two elements in the report stand for the same property: of other devices,
\* ports, interfaces and metrics, or other elements of a list.
DistinctURIs ==
    \A s, t \in DOMAIN shown : \A i \in DOMAIN shown[s], j \in DOMAIN shown[t] :
        shown[s][i].uri = shown[t][j].uri /\ shown[s][i].index = shown[t][j].index
        => s = t /\ i = j

\* A URI names a sensor's own resource, or a property by one fragment: the two
\* halves, made from the namespace and from the table, fit.
OneFragment ==
    \A s \in DOMAIN shown : \A i \in DOMAIN shown[s] :
        LET marks == {k \in DOMAIN shown[s][i].uri : shown[s][i].uri[k] = "#"}
        IN  Cardinality(marks) = IF s.iface = "Sensor.Value" THEN 0 ELSE 1

\* The text of a reading does not tell whether the sensor was published with it or
\* has been updated since, though two functions make it from different facts.
SameText ==
    \A s \in DOMAIN shown : shown[s] = GetMetricValues(fields[s], s, last[s])

=============================================================================
