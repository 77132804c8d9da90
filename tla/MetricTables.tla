---------------------------- MODULE MetricTables ----------------------------
(***************************************************************************)
(* The tables of src/lib/utils/metric_report_utils.hpp and port_utils.hpp: *)
(* which text a value of an enumeration is shown as, and where in its      *)
(* Redfish resource a metric is found.                                     *)
(*                                                                         *)
(* An interface is named without its domain and path, an enumeration by    *)
(* its last component.  A suffix is a sequence of words: "#" is one, the   *)
(* directory in front of the metric, with its slash, is another.           *)
(***************************************************************************)
EXTENDS Sequences

\* Two tables in one, the first where both have a text.
f ++ g == [x \in (DOMAIN f) \cup DOMAIN g |-> IF x \in DOMAIN f THEN f[x] ELSE g[x]]

Same(members) == [m \in members |-> m]

Under(directory, metrics) == [m \in metrics |-> directory \o <<m>>]
Renamed(directory, names) == [m \in DOMAIN names |-> directory \o <<names[m]>>]

-----------------------------------------------------------------------------
(* Texts, per enumeration and member.                                      *)

lastResetTypeMap == [ResetTypes |-> Same({"PFFLR", "Conventional", "Fundamental", "IRoTReset"})]

\* The last throttle reason stands for a sentence on temperatures.
reasonTypeMap ==
    [ThrottleReasons   |-> Same({"SWPowerCap", "HWSlowdown", "HWThermalSlowdown",
                                 "HWPowerBrakeSlowdown", "SyncBoost"})
                           ++ [None |-> "NA", GPUThermalOvertTreshold |-> "temperatures above"],
     PerformanceStates |-> Same({"Normal", "Throttled", "Degraded", "Unknown"})]

\* PCIeDevice and PCIeECC have an enumeration each, with the same members.
pcieTypeMap == [PCIeTypes |-> Same({"Gen1", "Gen2", "Gen3", "Gen4", "Gen5", "Gen6"})]

powerStateTypeMap ==
    [StateType |-> Same({"Absent", "Deferring", "Disabled", "Enabled", "StandbyOffline",
                         "Starting", "UnavailableOffline", "Updating"})]

linkDownReasonCodeMap ==
    [LinkDownReasonCodes |-> Same(
        {"NoLinkDown", "Unknown", "HighBitErrorRate", "BlockLockLost", "AlignmentLost",
         "FECSyncLost", "PllLockLost", "FIFOOverflow", "FalseSkipDetected",
         "MinorErrorThresholdExceeded", "PhyRetransmitTimeout", "HeartbeatErrors",
         "CreditMonitorWatchdogTimeout", "LinkLayerIntegrityThresholdExceeded",
         "LinkLayerBufferOverrun", "OOBCommandLinkHealthy", "OOBCommandLinkHighBER",
         "InbandCommandLinkHealthy", "InbandCommandLinkHighBER", "VerificationGatewayDown",
         "RemoteFaultReceived", "TrainingSequenceReceived", "ManagementCommandDown",
         "CableDisconnected", "CableAccessFault", "ThermalShutdown", "CurrentIssue",
         "PowerBudgetExceeded", "FastRawBERRecovery", "FastEffectiveBERRecovery",
         "FastSymbolBERRecovery", "FastCreditWatchdogRecovery", "PeerSleep", "PeerDisabled",
         "PeerDisableLocked", "PeerThermalEvent", "PeerForcedEvent", "PeerResetEvent"})]

presenceStateMap == [Presence |-> [Present |-> "true", NotPresent |-> "false", Unavailable |-> "null"]]

rowRemappingStateMap ==
    LET TriState == [True |-> "true", False |-> "false", Unknown |-> "null"]
    IN  [RowRemappingFailureStates |-> TriState, RowRemappingPendingStates |-> TriState]

linkStatusTypeMap == [LinkStatusType |-> Same({"LinkDown", "LinkUp", "NoLink", "Starting", "Training"})]

linkStateTypeMap ==
    [LinkStates |-> Same({"Disabled", "Enabled"})
                    ++ [Error |-> "UnavailableOffline", Unknown |-> "Absent"]]

powerSystemInputTypeTypeMap ==
    [Status |-> Same({"Fault", "Unknown"}) ++ [Good |-> "Normal", InputOutOfRange |-> "OutOfRange"]]

-----------------------------------------------------------------------------
(* Suffixes, per metric.                                                   *)

PortNvidia     == <<"/Metrics", "#", "/Oem/Nvidia/">>
PortNetworking == <<"/Metrics", "#", "/Networking/">>
NVLinkErrors   == <<"/Metrics", "#", "/Oem/Nvidia/NVLinkErrors/">>
Nvidia         == <<"/Oem/Nvidia/">>

portInfoInterfaceMap ==
    Renamed(<<"#", "/">>, [CurrentSpeed |-> "CurrentSpeedGbps", MaxSpeed |-> "MaxSpeedGbps"])

portStateInterfaceMap ==
    Under(<<"#", "/">>, {"LinkStatus"}) ++ Renamed(<<"#", "/Status/">>, [LinkState |-> "State"])

\* Two suffixes have no slash in front.
ibPortInterfaceMap ==
    Under(<<"/Metrics", "#", "/">>, {"RXErrors"})
    ++ Renamed(PortNetworking,
        [TXPkts |-> "TXFrames", RXPkts |-> "RXFrames", TXDiscardPkts |-> "TXDiscards"])
    ++ Under(PortNvidia,
        {"SymbolErrors", "BitErrorRate", "TotalRawBER", "TotalRawError", "LinkDownReasonCode",
         "IntentionalLinkDownCount", "UnintentionalLinkDownCount", "EffectiveBER", "TXWait",
         "EffectiveError"})
    ++ Renamed(PortNvidia,
        [MalformedPkts |-> "MalformedPackets", VL15DroppedPkts |-> "VL15Dropped",
         VL15TXPkts |-> "VL15TXPackets", VL15TXData |-> "VL15TXBytes",
         MTUDiscard |-> "NeighborMTUDiscards",
         LinkErrorRecoveryCounter |-> "LinkErrorRecoveryCount",
         LinkDownCount |-> "LinkDownedCount", QP1DroppedPkts |-> "QP1Dropped",
         RXRemotePhysicalErrorPkts |-> "RXRemotePhysicalErrors",
         RXSwitchRelayErrorPkts |-> "RXSwitchRelayErrors"])
    ++ Renamed(<<"Metrics", "#", "/Oem/Nvidia/">>,
        [IBG2RXPkts |-> "RXIbg2Packets", IBG2TXPkts |-> "TXIbg2Packets"])

ethPortInterfaceMap ==
    Renamed(PortNetworking,
        [RXFCSErrors |-> "RXFCSErrors", RXAlignmentErrors |-> "RXFrameAlignmentErrors",
         RXFalseCarrierDetections |-> "RXFalseCarrierErrors",
         RXRuntPkts |-> "RXUndersizeFrames", RXJabberPkts |-> "RXOversizeFrames",
         RXXONFrames |-> "RXPauseXONFrames", RXXOFFFrames |-> "RXPauseXOFFFrames",
         TXXONFrames |-> "TXPauseXONFrames", TXXOFFFrames |-> "TXPauseXOFFFrames",
         TXSingleCollisionFrames |-> "TXSingleCollisions",
         TXMultipleCollisionFrames |-> "TXMultipleCollisions",
         TXLateCollisionFrames |-> "TXLateCollisions",
         TXExcessCollisionFrames |-> "TXExcessiveCollisions"])

portMetricsOem1InterfaceMap ==
    Under(NVLinkErrors, {"DataCRCCount", "FlitCRCCount", "RecoveryCount"})
    ++ Renamed(NVLinkErrors, [ReplayErrorsCount |-> "ReplayCount"])

portMetricsOem2InterfaceMap == Under(<<"/Metrics", "#", "/">>, {"RXBytes", "TXBytes"})

portMetricsOem3InterfaceMap ==
    Under(PortNvidia, {"RXNoProtocolBytes", "TXNoProtocolBytes"})
    ++ Under(NVLinkErrors, {"RuntimeError", "TrainingError"})
    ++ Under(<<"#", "/Oem/Nvidia/">>, {"TXWidth", "RXWidth"})

portPacketCountersInterfaceMap ==
    Renamed(PortNetworking,
        [RXUnicastPkts |-> "RXUnicastFrames", RXMulticastPkts |-> "RXMulticastFrames",
         RXBroadcastPkts |-> "RXBroadcastFrames", TXUnicastPkts |-> "TXUnicastFrames",
         TXMulticastPkts |-> "TXMulticastFrames", TXBroadcastPkts |-> "TXBroadcastFrames"])

processorPerfMap ==
    Under(<<"/">>, {"PowerLimitThrottleDuration", "ThermalLimitThrottleDuration"})
    ++ Under(Nvidia,
        {"AccumulatedSMUtilizationDuration", "AccumulatedGPUContextUtilizationDuration",
         "GlobalSoftwareViolationThrottleDuration", "HardwareViolationThrottleDuration",
         "PCIeTXBytes", "PCIeRXBytes"})
    ++ Renamed(Nvidia, [ThrottleReason |-> "ThrottleReasons"])
    ++ Renamed(<<"#", "/Oem/Nvidia/">>, [Value |-> "PowerBreakPerformanceState"])

nvLinkMetricsMap ==
    Under(Nvidia, {"NVLinkRawTxBandwidthGbps", "NVLinkRawRxBandwidthGbps",
                   "NVLinkDataTxBandwidthGbps", "NVLinkDataRxBandwidthGbps"})

gpmMetricsMap ==
    Under(Nvidia,
        {"NVDecInstanceUtilizationPercent", "NVJpgInstanceUtilizationPercent",
         "GraphicsEngineActivityPercent", "SMActivityPercent", "SMOccupancyPercent",
         "TensorCoreActivityPercent", "FP64ActivityPercent", "FP32ActivityPercent",
         "FP16ActivityPercent", "NVDecUtilizationPercent", "NVJpgUtilizationPercent",
         "NVOfaUtilizationPercent", "PCIeRawTxBandwidthGbps", "PCIeRawRxBandwidthGbps",
         "IntegerActivityUtilizationPercent", "DMMAUtilizationPercent",
         "HMMAUtilizationPercent", "IMMAUtilizationPercent", "NVEncUtilizationPercent",
         "NVEncInstanceUtilizationPercent", "HostMemoryCacheHitPercent",
         "HostMemoryCacheMissPercent", "PeerMemoryCacheHitPercent",
         "PeerMemoryCacheMissPercent", "DRAMMemoryCacheHitPercent",
         "DRAMMemoryCacheMissPercent", "C2CRawTxBandwidthGbps", "C2CRawRxBandwidthGbps",
         "C2CDataTxBandwidthGbps", "C2CDataRxBandwidthGbps"})

resetCountersMetricsMap ==
    Under(<<"/">>,
        {"PF_FLR_ResetEntryCount", "PF_FLR_ResetExitCount", "ConventionalResetEntryCount",
         "ConventionalResetExitCount", "FundamentalResetEntryCount",
         "FundamentalResetExitCount", "IRoTResetExitCount", "LastResetType"})

pcieECCMap ==
    Renamed(<<"/PCIeErrors/">>,
        [nonfeCount |-> "NonFatalErrorCount", feCount |-> "FatalErrorCount",
         ceCount |-> "CorrectableErrorCount"]
        ++ [m \in {"PCIeECC.ceCount"} |-> "CorrectableErrorCount"])
    ++ Under(<<"/PCIeErrors/">>,
        {"L0ToRecoveryCount", "NAKReceivedCount", "ReplayCount", "NAKSentCount",
         "ReplayRolloverCount", "UnsupportedRequestCount"})
    ++ Under(<<"#", "/PCIeInterface/">>, {"PCIeType", "MaxLanes", "LanesInUse"})
    ++ Under(Nvidia, {"FramingErrorCount", "LinkDownedCount", "DLLPCRCErrorCount"})

pcIeLaneErrorMap == Under(Nvidia, {"CDRErrorCount"})

pcieTransactionCounterMap ==
    Renamed(<<"/PCIeMetrics/">>,
        [OutboundWritePktCount |-> "OutboundWriteTLPCount",
         OutboundWriteTransfer |-> "OutboundWriteBytes",
         ReqDroppedTag |-> "RequestsDroppedTagUnavailable",
         ReqDroppedCreditCompletion |-> "RequestsDroppedCreditExhaustion",
         ReqDroppedNonPostCredit |-> "RequestsDroppedNonPostedCredit",
         OutboundReadPktCount |-> "OutboundReadTLPCount",
         OutboundReadTransfer |-> "OutboundReadBytes",
         OutboundTLPCount |-> "OutboundCompletionTLPCount",
         OutboundTLPsTransfer |-> "OutboundCompletionBytes"])
    ++ Renamed(<<"/Oem/Nvidia/PCIeMetrics/">>,
        [InboundTLPCount |-> "InboundCompletionTLPCount",
         InboundTLPsTransfer |-> "InboundCompletionBytes"])

memoryECCMap ==
    Renamed(<<"/">>,
        [ueCount |-> "UncorrectableECCErrorCount", ceCount |-> "CorrectableECCErrorCount",
         isThresholdExceeded |-> "SRAMECCErrorThresholdExceeded"])

operatingConfigMap ==
    Renamed(<<"/">>,
        [Utilization |-> "BandwidthPercent", OperatingSpeed |-> "OperatingSpeedMHz",
         MaxSpeed |-> "MaxSpeedMHz", MinSpeed |-> "MinSpeedMHz",
         SpeedLimit |-> "SpeedLimitMHz", SpeedLocked |-> "SpeedLocked"])

dimmMap ==
    Renamed(<<"/">>,
        [MemoryConfiguredSpeedInMhz |-> "OperatingSpeedMHz", Utilization |-> "BandwidthPercent"])

pcieDeviceMap ==
    Under(<<"#", "/PCIeInterface/">>, {"PCIeType", "MaxPCIeType", "LanesInUse", "MaxLanes"})

memoryRowRemappingMap ==
    Renamed(<<"/Oem/Nvidia/RowRemapping/">>,
        [ueRowRemappingCount |-> "UncorrectableRowRemappingCount",
         ceRowRemappingCount |-> "CorrectableRowRemappingCount",
         MaxRemappingAvailablityBankCount |-> "MaxAvailabilityBankCount",
         HighRemappingAvailablityBankCount |-> "HighAvailabilityBankCount",
         PartialRemappingAvailablityBankCount |-> "PartialAvailabilityBankCount",
         LowRemappingAvailablityBankCount |-> "LowAvailabilityBankCount",
         NoRemappingAvailablityBankCount |-> "NoAvailabilityBankCount"])
    ++ Renamed(Nvidia,
        [RowRemappingFailureState |-> "RowRemappingFailed",
         RowRemappingPendingState |-> "RowRemappingPending"])

powerSmoothingInterfaceMap ==
    Renamed(<<"/">>,
        [PowerSmoothingEnabled |-> "Enabled", ImmediateRampDownEnabled |-> "ImmediateRampDown",
         LifeTimeRemaining |-> "RemainingLifetimeCircuitryPercent",
         DelayedPowerSmoothingSupported |-> "DelayedPowerSmoothingSupported",
         FloorWindowMultiplier |-> "FloorWindowMultiplierPeriod",
         MinPrimaryFloorActivationOffset |-> "MinAllowedPFAOffsetWatts",
         MinPrimaryFloorActivationPoint |-> "MinAllowedPFAPointWatts"])

powerSmoothingCurrentPwrProfileInterfaceMap ==
    Renamed(<<"/">>,
        [TMPFloorPercent |-> "TMPFloorPercent",
         RampDownHysteresis |-> "RampDownHysteresisSeconds",
         RampDownRate |-> "RampDownWattsPerSecond", RampUpRate |-> "RampUpWattsPerSecond",
         PrimaryFloorActivationOffset |-> "PFAOffsetWatts",
         SecondaryPowerFloorSetting |-> "SecondaryPowerFloorWatts",
         PrimaryFloorActivationWindowMultiplier |-> "PFAWindowMultiplier",
         PrimaryFloorTargetWindowMultiplier |-> "PFTWindowMultiplier"])

reConfigPermission ==
    Under(<<"/">>, {"AllowFLRPersistentConfig", "AllowOneShotConfig", "AllowPersistentConfig"})

pdiNameMap ==
    [PortInfo |-> portInfoInterfaceMap, PortState |-> portStateInterfaceMap,
     IBPort |-> ibPortInterfaceMap, EthPort |-> ethPortInterfaceMap,
     PortMetricsOem1 |-> portMetricsOem1InterfaceMap,
     PortMetricsOem2 |-> portMetricsOem2InterfaceMap,
     PortMetricsOem3 |-> portMetricsOem3InterfaceMap,
     PortPacketCounters |-> portPacketCountersInterfaceMap,
     ProcessorPerformance |-> processorPerfMap, NVLinkMetrics |-> nvLinkMetricsMap,
     GPMMetrics |-> gpmMetricsMap, ResetCounterMetrics |-> resetCountersMetricsMap,
     PCIeECC |-> pcieECCMap, PCIeLaneError |-> pcIeLaneErrorMap,
     PCIeTransactionCounter |-> pcieTransactionCounterMap, MemoryECC |-> memoryECCMap,
     OperatingConfig |-> operatingConfigMap, Dimm |-> dimmMap, PCIeDevice |-> pcieDeviceMap,
     MemoryRowRemapping |-> memoryRowRemappingMap,
     PowerSmoothing |-> powerSmoothingInterfaceMap,
     CurrentPowerProfile |-> powerSmoothingCurrentPwrProfileInterfaceMap,
     InbandReconfigSettings |-> reConfigPermission,
     MemoryMetrics |-> Under(<<"/">>, {"CapacityUtilizationPercent"}),
     SMUtilization |-> Renamed(Nvidia, [SMUtilization |-> "SMUtilizationPercent"]),
     PowerLimit |-> Under(<<"/">>, {"MaxPowerWatts", "MinPowerWatts"}),
     Switch |-> Renamed(<<"/">>, [CurrentBandwidth |-> "CurrentBandwidthGbps",
                                  MaxBandwidth |-> "MaxBandwidthGbps"]),
     OperationalStatus |-> Under(<<"/Status/">>, {"State"}),
     MemorySpareChannel |-> Under(<<"#", "/Oem/Nvidia/">>, {"MemorySpareChannelPresence"}),
     PowerSystemInputs |-> Renamed(<<"#", "/Oem/Nvidia/">>, [Status |-> "EDPViolationState"]),
     PortWidth |-> Under(<<"#", "/">>, {"ActiveWidth"}),
     PCIeRefClock |-> Under(<<"#", "/Oem/Nvidia/">>, {"PCIeReferenceClockEnabled"}),
     Health |-> Under(<<"#", "/Status/">>, {"Health"}),
     HealthRollup |-> Under(<<"#", "/Status/">>, {"HealthRollup"})]
    ++ [i \in {"Power.Cap"} |-> Renamed(<<"/PowerLimitWatts/">>, [PowerCap |-> "SetPoint"])]

=============================================================================
