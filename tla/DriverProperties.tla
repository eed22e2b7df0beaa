-------------------------- MODULE DriverProperties --------------------------
(***************************************************************************)
(* The properties the plug-in answers for: which object has which, how     *)
(* large it is and what it says, as the three tables of the code have it.  *)
(* Sizes are those of the 64-bit build; texts and numbers that nothing is  *)
(* compared with are left out.                                             *)
(***************************************************************************)
EXTENDS Integers, Sequences

Plugin == "plugin"
Streams == {"outStream", "inStream"}
Devices == {"out", "in"}
Objects == {Plugin} \cup Streams \cup Devices
Scopes == {"global", "input", "output", "playthrough"}

NameTexts == {"Name", "ModelName", "ElementCategoryName", "Manufacturer"}
Classes == {"BaseClass", "Class", "Owner"}
PluginTexts == {"BundleID", "ResourceBundle"}
PluginLists == {"DeviceList", "BoxList", "ClockDeviceList"}
StatusTexts == {"ActiveFrames", "ActiveClients", "FirmwareVersion"}
DeviceTexts == {"DeviceUID", "ModelUID"} \cup StatusTexts
DeviceNumbers ==
  {"TransportType", "ClockDomain", "DeviceIsAlive", "DeviceIsRunning", "CanBeDefaultDevice",
   "CanBeDefaultSystemDevice", "IsHidden", "ClockAlgorithm", "ClockIsStable", "SafetyOffset",
   "ZeroTimeStampPeriod", "BufferFrameSize"}
Ranges == {"AvailableNominalSampleRates", "BufferFrameSizeRange"}
StreamNumbers == {"IsActive", "Direction", "TerminalType", "StartingChannel"}
Formats == {"VirtualFormat", "PhysicalFormat"}
RangedFormats == {"AvailableVirtualFormats", "AvailablePhysicalFormats"}

Selectors ==
  NameTexts \cup Classes \cup PluginTexts \cup PluginLists \cup DeviceTexts \cup DeviceNumbers
    \cup Ranges \cup StreamNumbers \cup Formats \cup RangedFormats
    \cup {"OwnedObjects", "TranslateUIDToDevice", "CustomPropertyInfoList", "ControlList",
          "RelatedDevices", "NominalSampleRate", "Streams", "Latency", "StreamConfiguration",
          "PreferredChannelsForStereo", "PreferredChannelLayout"}

Direction(device) == IF device = "in" THEN "input" ELSE "output"
StreamOf(device) == IF device = "in" THEN "inStream" ELSE "outStream"

hasProperty(object, selector, scope) ==
  /\ object \in Devices /\ selector = "Streams" => scope # "global"
  /\ object \in Streams => scope = "global"
  /\ CASE selector \in NameTexts \cup Classes -> TRUE
       [] selector = "OwnedObjects" -> object \notin Streams
       [] selector \in PluginLists \cup PluginTexts \cup {"TranslateUIDToDevice"} -> object = Plugin
       [] selector = "Latency" -> object # Plugin
       [] selector = "PreferredChannelsForStereo" -> object = "in" /\ scope = "input"
       [] selector = "PreferredChannelLayout" ->
            object \in Devices /\ scope = Direction(object)
       [] selector \in StreamNumbers \cup Formats \cup RangedFormats -> object \in Streams
       [] OTHER -> object \in Devices

\* kInputChannels and kChannels
streamFormat(input) == [channels |-> IF input THEN 2 ELSE 4]

\* The values that refer to one another.
Value(object, selector, scope, qualifier) ==
  CASE selector = "Owner" -> (CASE object = Plugin -> "unknown"
                                [] object \in Devices -> Plugin
                                [] object = "inStream" -> "in"
                                [] OTHER -> "out")
    [] selector = "DeviceList" -> {"out", "in"}
    [] selector = "OwnedObjects" -> IF object = Plugin THEN {"out", "in"} ELSE {StreamOf(object)}
    [] selector = "Streams" -> IF scope = Direction(object) THEN {StreamOf(object)} ELSE {}
    [] selector = "DeviceUID" -> IF object = "in" THEN "inputUID" ELSE "outputUID"
    [] selector = "TranslateUIDToDevice" -> (CASE qualifier = "outputUID" -> "out"
                                               [] qualifier = "inputUID" -> "in"
                                               [] OTHER -> "unknown")
    [] selector = "StreamConfiguration" ->
         IF scope = Direction(object) THEN <<streamFormat(object = "in").channels>> ELSE <<>>
    [] selector = "Direction" -> IF object = "inStream" THEN "input" ELSE "output"
    [] selector \in Formats \cup RangedFormats -> streamFormat(object = "inStream")
    [] OTHER -> "not compared"

\* What is copied out for a value: its elements, or one structure.
DataSize(object, selector, scope) ==
  LET value == Value(object, selector, scope, "")
  IN  CASE selector \in {"ControlList", "BoxList", "ClockDeviceList"} -> 0
        [] selector \in {"DeviceList", "OwnedObjects"} -> IF object = Plugin THEN 2 * 4 ELSE 4
        [] selector = "Streams" -> IF value = {} THEN 0 ELSE 4
        [] selector = "StreamConfiguration" -> 8 + 16 * Len(value)
        [] selector = "CustomPropertyInfoList" -> 3 * 12
        [] selector \in NameTexts \cup PluginTexts \cup DeviceTexts -> 8
        [] selector = "PreferredChannelsForStereo" -> 2 * 4
        [] selector = "PreferredChannelLayout" -> 12
        [] selector \in Ranges -> 2 * 8
        [] selector = "NominalSampleRate" -> 8
        [] selector \in Formats -> 40
        [] selector \in RangedFormats -> 40 + 2 * 8
        [] OTHER -> 4

getPropertySize(object, selector, scope) ==
  CASE selector \in NameTexts \cup DeviceTexts \cup PluginTexts -> 8
    [] selector \in Classes \cup DeviceNumbers \cup StreamNumbers -> 4
    [] selector \in {"TranslateUIDToDevice", "Latency", "RelatedDevices"} -> 4
    [] selector = "NominalSampleRate" -> 8
    [] selector \in Ranges -> 16
    [] selector = "DeviceList" -> 2 * 4
    [] selector = "CustomPropertyInfoList" -> 3 * 12
    [] selector \in {"ControlList", "BoxList", "ClockDeviceList"} -> 0
    [] selector = "Streams" -> IF scope = Direction(object) THEN 4 ELSE 0
    [] selector = "OwnedObjects" -> IF object = Plugin THEN 2 * 4 ELSE 4
    [] selector = "PreferredChannelLayout" -> 12
    [] selector = "PreferredChannelsForStereo" -> 2 * 4
    [] selector = "StreamConfiguration" -> 8 + (IF scope = Direction(object) THEN 16 ELSE 0)
    [] selector \in Formats -> 40
    [] selector \in RangedFormats -> 56

propertyData(object, selector, scope, capacity) ==
  CASE ~hasProperty(object, selector, scope) -> [status |-> "unknownProperty", size |-> 0]
    [] hasProperty(object, selector, scope) /\ capacity < DataSize(object, selector, scope) ->
         [status |-> "badSize", size |-> 0]
    [] OTHER -> [status |-> "noErr", size |-> DataSize(object, selector, scope)]
-----------------------------------------------------------------------------
\* The size the host is told to allocate is the size it is then given.
SizesAgree ==
  \A object \in Objects, selector \in Selectors, scope \in Scopes :
    hasProperty(object, selector, scope) =>
      LET size == getPropertySize(object, selector, scope)
      IN  propertyData(object, selector, scope, size) = [status |-> "noErr", size |-> size]

Read(object, selector, scope) == Value(object, selector, scope, "")

\* The objects form a tree that reads the same from above and from below, and the
\* channels a device announces are those of its streams.
ObjectsAgree ==
  /\ \A o \in Objects \ {Plugin} : o \in Read(Read(o, "Owner", "global"), "OwnedObjects", "global")
  /\ Read(Plugin, "DeviceList", "global") = Read(Plugin, "OwnedObjects", "global")
  /\ \A d \in Devices :
       /\ UNION {Read(d, "Streams", s) : s \in Scopes \ {"global"}} = Read(d, "OwnedObjects", "global")
       /\ Value(Plugin, "TranslateUIDToDevice", "global", Read(d, "DeviceUID", "global")) = d
       /\ \A s \in Scopes \ {"global"} :
            /\ \A o \in Read(d, "Streams", s) :
                 /\ Read(o, "Direction", "global") = s
                 /\ <<Read(o, "VirtualFormat", "global").channels>> = Read(d, "StreamConfiguration", s)
            /\ Read(d, "Streams", s) = {} => Read(d, "StreamConfiguration", s) = <<>>
=============================================================================
