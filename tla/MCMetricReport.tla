--------------------------- MODULE MCMetricReport ---------------------------
(***************************************************************************)
(* The shipped configuration, src/configurations/shm_namespace_config.json,*)
(* with the namespaces that generateURI knows besides, and a producer with *)
(* two processors, their ports, a memory, a switch, sensors and a CPU.     *)
(***************************************************************************)
EXTENDS MetricReport

HGX == "HGX_"
MCSystemId == <<HGX, "Baseboard_0">>

Entry(keyword, props) == [keyword |-> keyword, props |-> props]

PortCounters ==
    {"CurrentSpeed", "DataCRCCount", "FlitCRCCount", "LinkStatus", "MaxSpeed", "RXBytes",
     "RXNoProtocolBytes", "RXWidth", "RecoveryCount", "ReplayErrorsCount", "RuntimeError",
     "TXBytes", "TXNoProtocolBytes", "TXWidth", "TrainingError"}
LinkBandwidths == DOMAIN nvLinkMetricsMap
PCIeCounters ==
    {"L0ToRecoveryCount", "NAKReceivedCount", "NAKSentCount", "ReplayCount",
     "ReplayRolloverCount", "ceCount", "feCount", "nonfeCount"}
Link == {"LanesInUse", "MaxLanes", "PCIeType"}
Performance == DOMAIN processorPerfMap \ {"Value"}
GPM == {"DMMAUtilizationPercent", "FP16ActivityPercent", "NVDecUtilizationPercent",
        "PCIeRawRxBandwidthGbps", "SMOccupancyPercent"}

Shipped ==
    [PlatformEnvironmentMetrics |->
        [i \in 1 .. 3 |-> Entry(<<"sensors", <<"temperature", "power", "energy">>[i]>>, {"Value"})],
     NVSwitchMetrics |-> <<Entry(<<"Switches">>, PCIeCounters \cup {"ueCount"})>>,
     NVSwitchPortMetrics |-> <<Entry(<<"Switches", "Ports">>, PortCounters)>>,
     MemoryMetrics |->
        <<Entry(<<"memory">>, {"MemoryConfiguredSpeedInMhz", "Utilization", "ceCount", "ueCount",
              "RowRemappingFailureState", "ceRowRemappingCount", "ueRowRemappingCount"})>>,
     ProcessorMetrics |->
        <<Entry(<<"processors">>, PCIeCounters \cup Link \cup Performance
              \cup {"ueCount", "OperatingSpeed", "Utilization", "State"})>>,
     ProcessorGPMMetrics |-> <<Entry(<<"processors">>, GPM \cup LinkBandwidths)>>,
     ProcessorPortMetrics |-> <<Entry(<<"processors", "Ports">>, PortCounters)>>,
     ProcessorPortGPMMetrics |-> <<Entry(<<"processors", "Ports">>, LinkBandwidths)>>,
     CpuProcessorMetrics |->
        [i \in 1 .. 6 |->
            IF i = 5 THEN Entry(<<"state", "ProcessorModule">>,
                                {"Status", "MemorySpareChannelPresence", "LinkState"})
            ELSE Entry(<<<<"sensors", "utilization">>, <<"sensors", "frequency">>,
                         <<"sensors", "voltage">>, <<"sensors", "counter">>, <<>>,
                         <<"state", "Throttle">>>>[i], {"Value"})]]

Others ==
    [HealthMetrics |-> <<Entry(<<"health", "chassis">>, {"Health"}),
                         Entry(<<"inventory_software">>, {"Functional"})>>,
     NetworkAdapterPortMetrics |-> <<Entry(<<"NetworkAdapters", "Ports">>, {"RXPkts"})>>,
     ProcessorResetMetrics |-> <<Entry(<<"processors", "ResetStatistics">>, {"LastResetType"})>>,
     PCIeRetimerMetrics |-> <<Entry(<<"PCIeRetimers", "PCIeDevices">>, Link)>>,
     PCIeRetimerPortMetrics |-> <<Entry(<<"PCIeRetimers", "Ports">>, {"ceCount"})>>]

Config == Shipped @@ Others
MCNameSpaces == DOMAIN Config

-----------------------------------------------------------------------------
Project(rest)   == <<<<"xyz">>, <<"openbmc_project">>>> \o rest
Inventory(rest) == Project(<<<<"inventory">>, <<"system">>>> \o rest)
Gpu(g)          == Inventory(<<<<"processors">>, <<g>>>>)
Nvswitch        == Inventory(<<<<"fabrics">>, <<"NVLinkFabric_0">>, <<"Switches">>, <<"NVSwitch_0">>>>)
Dram            == Inventory(<<<<"memory">>, <<"GPU_1_DRAM_0">>>>)
RetimerPath     == Inventory(<<<<"PCIeRetimers">>, <<"PCIeRetimer", "_", "3">>>>)
PortOf(p, port) == p \o <<<<"Ports">>, <<port>>>>
SensorPath(kind, leaf) == Project(<<<<"sensors">>, <<kind>>, leaf>>)
StatePath(leaf) == Project(<<<<"state">>, leaf>>)

Value(enum, name) == [enum |-> enum, name |-> name]
Numbers == {<<Value("", n)>> : n \in {"7", "8"}}

\* The enumerations that string properties take their values from.
Enumerations ==
    {<<"PCIeType", pcieTypeMap>>, <<"LinkStatus", linkStatusTypeMap>>,
     <<"LinkState", linkStateTypeMap>>, <<"Status", powerSystemInputTypeTypeMap>>,
     <<"State", powerStateTypeMap>>, <<"LastResetType", lastResetTypeMap>>,
     <<"MemorySpareChannelPresence", presenceStateMap>>,
     <<"RowRemappingFailureState", rowRemappingStateMap>>}

Members(map) ==
    {Value(e, n) : <<e, n>> \in {<<e, n>> \in (DOMAIN map) \X UNION {DOMAIN map[d] : d \in DOMAIN map} :
                                    n \in DOMAIN map[e]}}
    \cup {Value("Novel", "Novel")}

Typed(iface, prop) ==
    IF prop = "ThrottleReason"
    THEN [type |-> "strings",
          readings |-> {<<>>, <<Value("ThrottleReasons", "None")>>,
                        <<Value("ThrottleReasons", "SyncBoost"), Value("Novel", "Novel")>>}]
    ELSE IF \E e \in Enumerations : e[1] = prop
    THEN [type |-> "string",
          readings |-> {<<v>> : v \in Members((CHOOSE e \in Enumerations : e[1] = prop)[2])}]
    ELSE IF prop = "Health"
    THEN [type |-> "string", readings |-> {<<Value("", t)>> : t \in {"OK", "Critical"}}]
    ELSE IF prop = "Functional"
    THEN [type |-> "bool", readings |-> {<<Value("", b)>> : b \in {"true", "false"}}]
    ELSE [type |-> IF iface = "Sensor.Value" THEN "double" ELSE "uint64", readings |-> Numbers]

Given(p, parent, iface, props) ==
    {[path |-> p, iface |-> iface, prop |-> m, parent |-> parent,
      type |-> Typed(iface, m).type, readings |-> Typed(iface, m).readings] : m \in props}

NoParent == <<>>
Cpu      == <<"ProcessorModule", "_0_CPU_0">>

MCSensors ==
    LET PortSensors(p) ==
            Given(p, NoParent, "PortInfo", {"CurrentSpeed", "MaxSpeed"})
            \cup Given(p, NoParent, "PortState", {"LinkStatus"})
            \cup Given(p, NoParent, "PortMetricsOem2", {"RXBytes", "TXBytes"})
        Counters(p) ==
            Given(p, NoParent, "PortMetricsOem1", {"RecoveryCount", "ReplayErrorsCount"})
            \cup Given(p, NoParent, "PortMetricsOem3", {"RXWidth", "TrainingError"})
    IN  Given(Gpu("GPU_1"), NoParent, "PCIeECC", PCIeCounters \cup Link)
        \cup Given(Gpu("GPU_1"), NoParent, "MemoryECC", {"ceCount", "ueCount"})
        \cup Given(Gpu("GPU_1"), NoParent, "OperatingConfig", {"OperatingSpeed", "Utilization"})
        \cup Given(Gpu("GPU_1"), NoParent, "OperationalStatus", {"State"})
        \cup Given(Gpu("GPU_1"), NoParent, "ProcessorPerformance", Performance)
        \cup Given(Gpu("GPU_1"), NoParent, "GPMMetrics", GPM)
        \cup Given(Gpu("GPU_1"), NoParent, "NVLinkMetrics", LinkBandwidths)
        \cup Given(Gpu("GPU_2"), NoParent, "MemoryECC", {"ceCount"})
        \cup Given(Gpu("GPU_2"), NoParent, "PCIeECC", {"ceCount", "MaxLanes"})
        \cup PortSensors(PortOf(Gpu("GPU_1"), "NVLink_0")) \cup Counters(PortOf(Gpu("GPU_1"), "NVLink_0"))
        \cup Given(PortOf(Gpu("GPU_1"), "NVLink_0"), NoParent, "NVLinkMetrics", LinkBandwidths)
        \cup Given(PortOf(Gpu("GPU_1"), "NVLink_1"), NoParent, "PortMetricsOem2", {"RXBytes"})
        \cup Given(PortOf(Gpu("GPU_2"), "NVLink_0"), NoParent, "PortMetricsOem2", {"RXBytes"})
        \cup PortSensors(PortOf(Nvswitch, "NVLink_0"))
        \cup Given(PortOf(Nvswitch, "NVLink_1"), NoParent, "PortInfo", {"MaxSpeed"})
        \cup Given(Nvswitch, NoParent, "PCIeECC", PCIeCounters)
        \cup Given(Nvswitch, NoParent, "MemoryECC", {"ceCount", "ueCount"})
        \cup Given(Dram, NoParent, "Dimm", {"MemoryConfiguredSpeedInMhz", "Utilization"})
        \cup Given(Dram, NoParent, "MemoryECC", {"ceCount", "ueCount"})
        \cup Given(Dram, NoParent, "MemoryRowRemapping",
                {"RowRemappingFailureState", "ceRowRemappingCount", "ueRowRemappingCount"})
        \cup UNION {Given(SensorPath("temperature", <<"HGX_", "GPU_1_">> \o kind \o <<"TEMP_0">>),
                             <<"HGX_", "GPU_1">>, "Sensor.Value", {"Value"})
                    \cup Given(SensorPath("temperature", <<"HGX_", "GPU_2_">> \o kind \o <<"TEMP_0">>),
                             NoParent, "Sensor.Value", {"Value"}) : kind \in {<<>>, <<"memory", "_">>}}
        \cup Given(SensorPath("power", <<"GPU_2_POWER_0">>), <<"GPU_2">>, "Sensor.Value", {"Value"})
        \cup Given(SensorPath("utilization", Cpu \o <<"_CoreUtil_1">>), Cpu, "Sensor.Value", {"Value"})
        \cup UNION {Given(SensorPath("counter", Cpu \o <<"_", w, "_0">>), Cpu, "Metric.Value", {"Value"}) :
                w \in {"CpuUptime", "TjMaxDramIndex", "CLinkBandwidth", "CLinkPacketCrcCount",
                       "NVLinkBandwidth", "NVLinkPacketReplayCount"}}
        \cup Given(StatePath(Cpu \o <<"_EDP">>), Cpu, "PowerSystemInputs", {"Status"})
        \cup Given(StatePath(Cpu \o <<"_Spare">>), Cpu, "MemorySpareChannel", {"MemorySpareChannelPresence"})
        \cup UNION {Given(StatePath(Cpu \o <<"_CLink_", n>>), Cpu, "PortState", {"LinkState"}) : n \in {"0", "1"}}
        \cup Given(StatePath(Cpu \o <<"_", "Throttle">>), Cpu, "ProcessorPerformance", {"Value"})
        \cup Given(Project(<<<<"inventory_software">>, <<"FW_0">>>>), NoParent, "OperationalStatus", {"Functional"})
        \cup UNION {Given(<<<<"health">>, <<"chassis">>, d>>, d, "Health", {"Health"}) :
                d \in {<<"Baseboard_0">>, <<"GPU_1">>}}
        \cup Given(PortOf(Inventory(<<<<"chassis">>, <<"CX_0">>, <<"NetworkAdapters">>, <<"NIC_0">>>>), "0"),
                      NoParent, "IBPort", {"RXPkts"})
        \cup Given(Gpu("GPU_1") \o <<<<"ResetStatistics">>>>, NoParent, "ResetCounterMetrics", {"LastResetType"})
        \cup Given(RetimerPath \o <<<<"PCIeDevices">>, <<"Device_0">>>>, NoParent, "PCIeDevice", Link)
        \cup Given(PortOf(RetimerPath, "Down_0"), NoParent, "PCIeECC", {"ceCount"})

\* The shipped configuration and these sensors keep to it.
ASSUME OneHome /\ LongKeywords /\ SameFacts /\ ListsHaveURI /\ PlainNames /\ LeavesFit /\ PerLeaf
       /\ InTheirNamespaces

=============================================================================
