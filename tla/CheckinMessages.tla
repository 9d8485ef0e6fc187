--------------------------- MODULE CheckinMessages ---------------------------
(* The field tables of the request and the answer of a check-in: src/api/checkin_vtproto.pb.go for
   what MarshalVT, SizeVT and UnmarshalVT do, src/api/checkin.pb.go for the struct. *)
EXTENDS FieldTables

------------------------------------------------------------------------------
CheckinRequest_Checkin_Build ==
    [Fingerprint |-> Optional(1, "string"), Hardware |-> Optional(2, "string"),
     Brand |-> Optional(3, "string"), Radio |-> Optional(4, "string"),
     Bootloader |-> Optional(5, "string"), ClientId |-> Optional(6, "string"),
     Time |-> Optional(7, "int64"), PackageVersionCode |-> Optional(8, "int32"),
     Device |-> Optional(9, "string"), SdkVersion |-> Optional(10, "int32"),
     Model |-> Optional(11, "string"), Manufacturer |-> Optional(12, "string"),
     Product |-> Optional(13, "string"), OtaInstalled |-> Optional(14, "bool")]

CheckinRequest_Checkin_BuildMarshal ==
    <<Put(<<\h70>>, "bool", "OtaInstalled"), Put(<<\h6a>>, "bytes", "Product"),
      Put(<<\h62>>, "bytes", "Manufacturer"), Put(<<\h5a>>, "bytes", "Model"),
      Put(<<\h50>>, "varint", "SdkVersion"), Put(<<\h4a>>, "bytes", "Device"),
      Put(<<\h40>>, "varint", "PackageVersionCode"), Put(<<\h38>>, "varint", "Time"),
      Put(<<\h32>>, "bytes", "ClientId"), Put(<<\h2a>>, "bytes", "Bootloader"),
      Put(<<\h22>>, "bytes", "Radio"), Put(<<\h1a>>, "bytes", "Brand"),
      Put(<<\h12>>, "bytes", "Hardware"), Put(<<\h0a>>, "bytes", "Fingerprint")>>

CheckinRequest_Checkin_BuildSize ==
    Count(1, "bytes", {"Fingerprint", "Hardware", "Brand", "Radio", "Bootloader", "ClientId",
                "Device", "Model", "Manufacturer", "Product"})
    \cup Count(1, "varint", {"Time", "PackageVersionCode", "SdkVersion"})
    \cup Count(2, "const", {"OtaInstalled"})

CheckinRequest_Checkin_BuildUnmarshal ==
    Reads({},
          Sets(2, "string", [Fingerprint |-> 1, Hardware |-> 2, Brand |-> 3, Radio |-> 4,
                      Bootloader |-> 5, ClientId |-> 6, Device |-> 9, Model |-> 11,
                      Manufacturer |-> 12, Product |-> 13])
          \cup Sets(0, "int64", [Time |-> 7])
          \cup Sets(0, "int32", [PackageVersionCode |-> 8, SdkVersion |-> 10])
          \cup Sets(0, "bool", [OtaInstalled |-> 14]))

------------------------------------------------------------------------------
CheckinRequest_Checkin_Event ==
    [Tag |-> Optional(1, "string"), Value |-> Optional(2, "string"), TimeMs |-> Optional(3, "int64")]

CheckinRequest_Checkin_EventMarshal ==
    <<Put(<<\h18>>, "varint", "TimeMs"), Put(<<\h12>>, "bytes", "Value"),
      Put(<<\h0a>>, "bytes", "Tag")>>

CheckinRequest_Checkin_EventSize ==
    Count(1, "bytes", {"Tag", "Value"}) \cup Count(1, "varint", {"TimeMs"})

CheckinRequest_Checkin_EventUnmarshal ==
    Reads({},
          Sets(2, "string", [Tag |-> 1, Value |-> 2]) \cup Sets(0, "int64", [TimeMs |-> 3]))

------------------------------------------------------------------------------
CheckinRequest_Checkin_Statistic ==
    [Tag |-> Required(1, "string"), Count |-> Optional(2, "int32"), Sum |-> Optional(3, "fixed32")]

CheckinRequest_Checkin_StatisticMarshal ==
    <<Put(<<\h1d>>, "fixed32", "Sum"), Put(<<\h10>>, "varint", "Count"),
      Must(<<\h0a>>, "bytes", "Tag")>>

CheckinRequest_Checkin_StatisticSize ==
    Count(1, "bytes", {"Tag"}) \cup Count(1, "varint", {"Count"}) \cup Count(5, "const", {"Sum"})

CheckinRequest_Checkin_StatisticUnmarshal ==
    Reads({"Tag"},
          Sets(2, "string", [Tag |-> 1]) \cup Sets(0, "int32", [Count |-> 2])
          \cup Sets(5, "fixed32", [Sum |-> 3]))

------------------------------------------------------------------------------
CheckinRequest_Checkin ==
    [Build |-> Required(1, "CheckinRequest_Checkin_Build"), LastCheckinMs |-> Optional(2, "int64"),
     Event |-> Repeated(3, "CheckinRequest_Checkin_Event"),
     Stat |-> Repeated(4, "CheckinRequest_Checkin_Statistic"),
     RequestedGroup |-> Repeated(5, "string"), CellOperator |-> Optional(6, "string"),
     SimOperator |-> Optional(7, "string"), Roaming |-> Optional(8, "string"),
     UserNumber |-> Optional(9, "int32")]

CheckinRequest_CheckinMarshal ==
    <<Put(<<\h48>>, "varint", "UserNumber"), Put(<<\h42>>, "bytes", "Roaming"),
      Put(<<\h3a>>, "bytes", "SimOperator"), Put(<<\h32>>, "bytes", "CellOperator"),
      Put(<<\h2a>>, "bytes", "RequestedGroup"),
      Put(<<\h22>>, "CheckinRequest_Checkin_Statistic", "Stat"),
      Put(<<\h1a>>, "CheckinRequest_Checkin_Event", "Event"),
      Put(<<\h10>>, "varint", "LastCheckinMs"),
      Must(<<\h0a>>, "CheckinRequest_Checkin_Build", "Build")>>

CheckinRequest_CheckinSize ==
    Count(1, "CheckinRequest_Checkin_Build", {"Build"})
    \cup Count(1, "CheckinRequest_Checkin_Event", {"Event"})
    \cup Count(1, "CheckinRequest_Checkin_Statistic", {"Stat"})
    \cup Count(1, "varint", {"LastCheckinMs", "UserNumber"})
    \cup Count(1, "bytes", {"RequestedGroup", "CellOperator", "SimOperator", "Roaming"})

CheckinRequest_CheckinUnmarshal ==
    Reads({"Build"},
          Sets(2, "CheckinRequest_Checkin_Build", [Build |-> 1])
          \cup Sets(0, "int64", [LastCheckinMs |-> 2])
          \cup Adds(2, "CheckinRequest_Checkin_Event", [Event |-> 3])
          \cup Adds(2, "CheckinRequest_Checkin_Statistic", [Stat |-> 4])
          \cup Adds(2, "string", [RequestedGroup |-> 5])
          \cup Sets(2, "string", [CellOperator |-> 6, SimOperator |-> 7, Roaming |-> 8])
          \cup Sets(0, "int32", [UserNumber |-> 9]))

------------------------------------------------------------------------------
CheckinRequest_DeviceConfig ==
    [TouchScreen |-> Optional(1, "int32"), KeyboardType |-> Optional(2, "int32"),
     Navigation |-> Optional(3, "int32"), ScreenLayout |-> Optional(4, "int32"),
     HasHardKeyboard |-> Optional(5, "bool"), HasFiveWayNavigation |-> Optional(6, "bool"),
     DensityDpi |-> Optional(7, "int32"), GlEsVersion |-> Optional(8, "int32"),
     SharedLibrary |-> Repeated(9, "string"), AvailableFeature |-> Repeated(10, "string"),
     NativePlatform |-> Repeated(11, "string"), WidthPixels |-> Optional(12, "int32"),
     HeightPixels |-> Optional(13, "int32"), Locale |-> Repeated(14, "string"),
     GlExtension |-> Repeated(15, "string"), DeviceClass |-> Optional(16, "int32"),
     MaxApkDownloadSizeMb |-> Optional(17, "int32")]

CheckinRequest_DeviceConfigMarshal ==
    <<Put(<<\h88, \h01>>, "varint", "MaxApkDownloadSizeMb"),
      Put(<<\h80, \h01>>, "varint", "DeviceClass"), Put(<<\h7a>>, "bytes", "GlExtension"),
      Put(<<\h72>>, "bytes", "Locale"), Put(<<\h68>>, "varint", "HeightPixels"),
      Put(<<\h60>>, "varint", "WidthPixels"), Put(<<\h5a>>, "bytes", "NativePlatform"),
      Put(<<\h52>>, "bytes", "AvailableFeature"), Put(<<\h4a>>, "bytes", "SharedLibrary"),
      Put(<<\h40>>, "varint", "GlEsVersion"), Put(<<\h38>>, "varint", "DensityDpi"),
      Put(<<\h30>>, "bool", "HasFiveWayNavigation"), Put(<<\h28>>, "bool", "HasHardKeyboard"),
      Put(<<\h20>>, "varint", "ScreenLayout"), Put(<<\h18>>, "varint", "Navigation"),
      Put(<<\h10>>, "varint", "KeyboardType"), Put(<<\h08>>, "varint", "TouchScreen")>>

CheckinRequest_DeviceConfigSize ==
    Count(1, "varint", {"TouchScreen", "KeyboardType", "Navigation", "ScreenLayout", "DensityDpi",
                "GlEsVersion", "WidthPixels", "HeightPixels"})
    \cup Count(2, "const", {"HasHardKeyboard", "HasFiveWayNavigation"})
    \cup Count(1, "bytes", {"SharedLibrary", "AvailableFeature", "NativePlatform", "Locale",
                "GlExtension"})
    \cup Count(2, "varint", {"DeviceClass", "MaxApkDownloadSizeMb"})

CheckinRequest_DeviceConfigUnmarshal ==
    Reads({},
          Sets(0, "int32", [TouchScreen |-> 1, KeyboardType |-> 2, Navigation |-> 3,
                      ScreenLayout |-> 4, DensityDpi |-> 7, GlEsVersion |-> 8, WidthPixels |-> 12,
                      HeightPixels |-> 13, DeviceClass |-> 16, MaxApkDownloadSizeMb |-> 17])
          \cup Sets(0, "bool", [HasHardKeyboard |-> 5, HasFiveWayNavigation |-> 6])
          \cup Adds(2, "string", [SharedLibrary |-> 9, AvailableFeature |-> 10,
                      NativePlatform |-> 11, Locale |-> 14, GlExtension |-> 15]))

------------------------------------------------------------------------------
CheckinRequest ==
    [Imei |-> Optional(1, "string"), AndroidId |-> Optional(2, "int64"),
     Digest |-> Optional(3, "string"), Checkin |-> Required(4, "CheckinRequest_Checkin"),
     DesiredBuild |-> Optional(5, "string"), Locale |-> Optional(6, "string"),
     LoggingId |-> Optional(7, "int64"), MarketCheckin |-> Optional(8, "string"),
     MacAddress |-> Repeated(9, "string"), Meid |-> Optional(10, "string"),
     AccountCookie |-> Repeated(11, "string"), TimeZone |-> Optional(12, "string"),
     SecurityToken |-> Optional(13, "fixed64"), Version |-> Optional(14, "int32"),
     OtaCert |-> Repeated(15, "string"), Serial |-> Optional(16, "string"),
     Esn |-> Optional(17, "string"),
     DeviceConfiguration |-> Optional(18, "CheckinRequest_DeviceConfig"),
     MacAddressType |-> Repeated(19, "string"), Fragment |-> Required(20, "int32"),
     UserName |-> Optional(21, "string"), UserSerialNumber |-> Optional(22, "int32")]

CheckinRequestMarshal ==
    <<Put(<<\hb0, \h01>>, "varint", "UserSerialNumber"), Put(<<\haa, \h01>>, "bytes", "UserName"),
      Must(<<\ha0, \h01>>, "varint", "Fragment"), Put(<<\h9a, \h01>>, "bytes", "MacAddressType"),
      Put(<<\h92, \h01>>, "CheckinRequest_DeviceConfig", "DeviceConfiguration"),
      Put(<<\h8a, \h01>>, "bytes", "Esn"), Put(<<\h82, \h01>>, "bytes", "Serial"),
      Put(<<\h7a>>, "bytes", "OtaCert"), Put(<<\h70>>, "varint", "Version"),
      Put(<<\h69>>, "fixed64", "SecurityToken"), Put(<<\h62>>, "bytes", "TimeZone"),
      Put(<<\h5a>>, "bytes", "AccountCookie"), Put(<<\h52>>, "bytes", "Meid"),
      Put(<<\h4a>>, "bytes", "MacAddress"), Put(<<\h42>>, "bytes", "MarketCheckin"),
      Put(<<\h38>>, "varint", "LoggingId"), Put(<<\h32>>, "bytes", "Locale"),
      Put(<<\h2a>>, "bytes", "DesiredBuild"), Must(<<\h22>>, "CheckinRequest_Checkin", "Checkin"),
      Put(<<\h1a>>, "bytes", "Digest"), Put(<<\h10>>, "varint", "AndroidId"),
      Put(<<\h0a>>, "bytes", "Imei")>>

CheckinRequestSize ==
    Count(1, "bytes", {"Imei", "Digest", "DesiredBuild", "Locale", "MarketCheckin", "MacAddress",
                "Meid", "AccountCookie", "TimeZone", "OtaCert"})
    \cup Count(1, "varint", {"AndroidId", "LoggingId", "Version"})
    \cup Count(1, "CheckinRequest_Checkin", {"Checkin"}) \cup Count(9, "const", {"SecurityToken"})
    \cup Count(2, "bytes", {"Serial", "Esn", "MacAddressType", "UserName"})
    \cup Count(2, "CheckinRequest_DeviceConfig", {"DeviceConfiguration"})
    \cup Count(2, "varint", {"Fragment", "UserSerialNumber"})

CheckinRequestUnmarshal ==
    Reads({"Checkin", "Fragment"},
          Sets(2, "string", [Imei |-> 1, Digest |-> 3, DesiredBuild |-> 5, Locale |-> 6,
                      MarketCheckin |-> 8, Meid |-> 10, TimeZone |-> 12, Serial |-> 16, Esn |-> 17,
                      UserName |-> 21])
          \cup Sets(0, "int64", [AndroidId |-> 2, LoggingId |-> 7])
          \cup Sets(2, "CheckinRequest_Checkin", [Checkin |-> 4])
          \cup Adds(2, "string", [MacAddress |-> 9, AccountCookie |-> 11, OtaCert |-> 15,
                      MacAddressType |-> 19])
          \cup Sets(1, "fixed64", [SecurityToken |-> 13])
          \cup Sets(0, "int32", [Version |-> 14, Fragment |-> 20, UserSerialNumber |-> 22])
          \cup Sets(2, "CheckinRequest_DeviceConfig", [DeviceConfiguration |-> 18]))

------------------------------------------------------------------------------
CheckinResponse_Intent_Extra ==
    [Name |-> Optional(6, "string"), Value |-> Optional(7, "string")]

CheckinResponse_Intent_ExtraMarshal ==
    <<Put(<<\h3a>>, "bytes", "Value"), Put(<<\h32>>, "bytes", "Name")>>

CheckinResponse_Intent_ExtraSize ==
    Count(1, "bytes", {"Name", "Value"})

CheckinResponse_Intent_ExtraUnmarshal ==
    Reads({},
          Sets(2, "string", [Name |-> 6, Value |-> 7]))

------------------------------------------------------------------------------
CheckinResponse_Intent ==
    [Action |-> Optional(1, "string"), DataUri |-> Optional(2, "string"),
     MimeType |-> Optional(3, "string"), JavaClass |-> Optional(4, "string"),
     Extra |-> Repeated(5, "CheckinResponse_Intent_Extra")]

CheckinResponse_IntentMarshal ==
    <<Put(<<\h2a>>, "CheckinResponse_Intent_Extra", "Extra"), Put(<<\h22>>, "bytes", "JavaClass"),
      Put(<<\h1a>>, "bytes", "MimeType"), Put(<<\h12>>, "bytes", "DataUri"),
      Put(<<\h0a>>, "bytes", "Action")>>

CheckinResponse_IntentSize ==
    Count(1, "bytes", {"Action", "DataUri", "MimeType", "JavaClass"})
    \cup Count(1, "CheckinResponse_Intent_Extra", {"Extra"})

CheckinResponse_IntentUnmarshal ==
    Reads({},
          Sets(2, "string", [Action |-> 1, DataUri |-> 2, MimeType |-> 3, JavaClass |-> 4])
          \cup Adds(2, "CheckinResponse_Intent_Extra", [Extra |-> 5]))

------------------------------------------------------------------------------
CheckinResponse_GservicesSetting ==
    [Name |-> Optional(1, "bytes"), Value |-> Optional(2, "bytes")]

CheckinResponse_GservicesSettingMarshal ==
    <<Put(<<\h12>>, "bytes", "Value"), Put(<<\h0a>>, "bytes", "Name")>>

CheckinResponse_GservicesSettingSize ==
    Count(1, "bytes", {"Name", "Value"})

CheckinResponse_GservicesSettingUnmarshal ==
    Reads({},
          Sets(2, "bytes", [Name |-> 1, Value |-> 2]))

------------------------------------------------------------------------------
CheckinResponse ==
    [StatsOk |-> Optional(1, "bool"), Intent |-> Repeated(2, "CheckinResponse_Intent"),
     TimeMs |-> Optional(3, "int64"), Digest |-> Optional(4, "string"),
     Setting |-> Repeated(5, "CheckinResponse_GservicesSetting"), MarketOk |-> Optional(6, "bool"),
     AndroidId |-> Optional(7, "fixed64"), SecurityToken |-> Optional(8, "fixed64"),
     SettingsDiff |-> Optional(9, "bool"), DeleteSetting |-> Repeated(10, "string"),
     VersionInfo |-> Optional(11, "string"), DeviceDataVersionInfo |-> Optional(12, "string")]

CheckinResponseMarshal ==
    <<Put(<<\h62>>, "bytes", "DeviceDataVersionInfo"), Put(<<\h5a>>, "bytes", "VersionInfo"),
      Put(<<\h52>>, "bytes", "DeleteSetting"), Put(<<\h48>>, "bool", "SettingsDiff"),
      Put(<<\h41>>, "fixed64", "SecurityToken"), Put(<<\h39>>, "fixed64", "AndroidId"),
      Put(<<\h30>>, "bool", "MarketOk"),
      Put(<<\h2a>>, "CheckinResponse_GservicesSetting", "Setting"),
      Put(<<\h22>>, "bytes", "Digest"), Put(<<\h18>>, "varint", "TimeMs"),
      Put(<<\h12>>, "CheckinResponse_Intent", "Intent"), Put(<<\h08>>, "bool", "StatsOk")>>

CheckinResponseSize ==
    Count(2, "const", {"StatsOk", "MarketOk", "SettingsDiff"})
    \cup Count(1, "CheckinResponse_Intent", {"Intent"})
    \cup Count(1, "CheckinResponse_GservicesSetting", {"Setting"})
    \cup Count(1, "varint", {"TimeMs"})
    \cup Count(1, "bytes", {"Digest", "DeleteSetting", "VersionInfo", "DeviceDataVersionInfo"})
    \cup Count(9, "const", {"AndroidId", "SecurityToken"})

CheckinResponseUnmarshal ==
    Reads({},
          Sets(0, "bool", [StatsOk |-> 1, MarketOk |-> 6, SettingsDiff |-> 9])
          \cup Adds(2, "CheckinResponse_Intent", [Intent |-> 2])
          \cup Sets(0, "int64", [TimeMs |-> 3])
          \cup Sets(2, "string", [Digest |-> 4, VersionInfo |-> 11, DeviceDataVersionInfo |-> 12])
          \cup Adds(2, "CheckinResponse_GservicesSetting", [Setting |-> 5])
          \cup Sets(1, "fixed64", [AndroidId |-> 7, SecurityToken |-> 8])
          \cup Adds(2, "string", [DeleteSetting |-> 10]))
==============================================================================
