------------------------------- MODULE Messages -------------------------------
(* The tables of all messages of package firebase_api, by type. *)
EXTENDS McsMessages, CheckinMessages, DeviceMessages

\* Messages of other modules that the device record holds: the well-known
\* Timestamp and android_utils.Device, of which this code uses nothing.
Timestamp == [Seconds |-> Implicit(1, "int64"), Nanos |-> Implicit(2, "int32")]
Device    == [Opaque |-> Implicit(1, "bytes")]
Foreign   == {"Timestamp", "Device"}

Structs ==
    [HeartbeatPing |-> HeartbeatPing, HeartbeatAck |-> HeartbeatAck, ErrorInfo |-> ErrorInfo,
     Setting |-> Setting, HeartbeatStat |-> HeartbeatStat, HeartbeatConfig |-> HeartbeatConfig,
     LoginRequest |-> LoginRequest, LoginResponse |-> LoginResponse,
     StreamErrorStanza |-> StreamErrorStanza, Close |-> Close, Extension |-> Extension,
     IqStanza |-> IqStanza, AppData |-> AppData, DataMessageStanza |-> DataMessageStanza,
     StreamAck |-> StreamAck, SelectiveAck |-> SelectiveAck,
     CheckinRequest_Checkin_Build |-> CheckinRequest_Checkin_Build,
     CheckinRequest_Checkin_Event |-> CheckinRequest_Checkin_Event,
     CheckinRequest_Checkin_Statistic |-> CheckinRequest_Checkin_Statistic,
     CheckinRequest_Checkin |-> CheckinRequest_Checkin,
     CheckinRequest_DeviceConfig |-> CheckinRequest_DeviceConfig, CheckinRequest |-> CheckinRequest,
     CheckinResponse_Intent_Extra |-> CheckinResponse_Intent_Extra,
     CheckinResponse_Intent |-> CheckinResponse_Intent,
     CheckinResponse_GservicesSetting |-> CheckinResponse_GservicesSetting,
     CheckinResponse |-> CheckinResponse, FirebaseAuthentication |-> FirebaseAuthentication,
     FirebaseNotificationData |-> FirebaseNotificationData,
     FirebaseInstallationData |-> FirebaseInstallationData, FirebaseAppData |-> FirebaseAppData,
     FirebaseDevice |-> FirebaseDevice, Timestamp |-> Timestamp, Device |-> Device]

Marshals ==
    [HeartbeatPing |-> HeartbeatPingMarshal, HeartbeatAck |-> HeartbeatAckMarshal,
     ErrorInfo |-> ErrorInfoMarshal, Setting |-> SettingMarshal,
     HeartbeatStat |-> HeartbeatStatMarshal, HeartbeatConfig |-> HeartbeatConfigMarshal,
     LoginRequest |-> LoginRequestMarshal, LoginResponse |-> LoginResponseMarshal,
     StreamErrorStanza |-> StreamErrorStanzaMarshal, Close |-> CloseMarshal,
     Extension |-> ExtensionMarshal, IqStanza |-> IqStanzaMarshal, AppData |-> AppDataMarshal,
     DataMessageStanza |-> DataMessageStanzaMarshal, StreamAck |-> StreamAckMarshal,
     SelectiveAck |-> SelectiveAckMarshal,
     CheckinRequest_Checkin_Build |-> CheckinRequest_Checkin_BuildMarshal,
     CheckinRequest_Checkin_Event |-> CheckinRequest_Checkin_EventMarshal,
     CheckinRequest_Checkin_Statistic |-> CheckinRequest_Checkin_StatisticMarshal,
     CheckinRequest_Checkin |-> CheckinRequest_CheckinMarshal,
     CheckinRequest_DeviceConfig |-> CheckinRequest_DeviceConfigMarshal,
     CheckinRequest |-> CheckinRequestMarshal,
     CheckinResponse_Intent_Extra |-> CheckinResponse_Intent_ExtraMarshal,
     CheckinResponse_Intent |-> CheckinResponse_IntentMarshal,
     CheckinResponse_GservicesSetting |-> CheckinResponse_GservicesSettingMarshal,
     CheckinResponse |-> CheckinResponseMarshal,
     FirebaseAuthentication |-> FirebaseAuthenticationMarshal,
     FirebaseNotificationData |-> FirebaseNotificationDataMarshal,
     FirebaseInstallationData |-> FirebaseInstallationDataMarshal,
     FirebaseAppData |-> FirebaseAppDataMarshal, FirebaseDevice |-> FirebaseDeviceMarshal]

Sizes ==
    [HeartbeatPing |-> HeartbeatPingSize, HeartbeatAck |-> HeartbeatAckSize,
     ErrorInfo |-> ErrorInfoSize, Setting |-> SettingSize, HeartbeatStat |-> HeartbeatStatSize,
     HeartbeatConfig |-> HeartbeatConfigSize, LoginRequest |-> LoginRequestSize,
     LoginResponse |-> LoginResponseSize, StreamErrorStanza |-> StreamErrorStanzaSize,
     Close |-> CloseSize, Extension |-> ExtensionSize, IqStanza |-> IqStanzaSize,
     AppData |-> AppDataSize, DataMessageStanza |-> DataMessageStanzaSize,
     StreamAck |-> StreamAckSize, SelectiveAck |-> SelectiveAckSize,
     CheckinRequest_Checkin_Build |-> CheckinRequest_Checkin_BuildSize,
     CheckinRequest_Checkin_Event |-> CheckinRequest_Checkin_EventSize,
     CheckinRequest_Checkin_Statistic |-> CheckinRequest_Checkin_StatisticSize,
     CheckinRequest_Checkin |-> CheckinRequest_CheckinSize,
     CheckinRequest_DeviceConfig |-> CheckinRequest_DeviceConfigSize,
     CheckinRequest |-> CheckinRequestSize,
     CheckinResponse_Intent_Extra |-> CheckinResponse_Intent_ExtraSize,
     CheckinResponse_Intent |-> CheckinResponse_IntentSize,
     CheckinResponse_GservicesSetting |-> CheckinResponse_GservicesSettingSize,
     CheckinResponse |-> CheckinResponseSize, FirebaseAuthentication |-> FirebaseAuthenticationSize,
     FirebaseNotificationData |-> FirebaseNotificationDataSize,
     FirebaseInstallationData |-> FirebaseInstallationDataSize,
     FirebaseAppData |-> FirebaseAppDataSize, FirebaseDevice |-> FirebaseDeviceSize]

Unmarshals ==
    [HeartbeatPing |-> HeartbeatPingUnmarshal, HeartbeatAck |-> HeartbeatAckUnmarshal,
     ErrorInfo |-> ErrorInfoUnmarshal, Setting |-> SettingUnmarshal,
     HeartbeatStat |-> HeartbeatStatUnmarshal, HeartbeatConfig |-> HeartbeatConfigUnmarshal,
     LoginRequest |-> LoginRequestUnmarshal, LoginResponse |-> LoginResponseUnmarshal,
     StreamErrorStanza |-> StreamErrorStanzaUnmarshal, Close |-> CloseUnmarshal,
     Extension |-> ExtensionUnmarshal, IqStanza |-> IqStanzaUnmarshal, AppData |-> AppDataUnmarshal,
     DataMessageStanza |-> DataMessageStanzaUnmarshal, StreamAck |-> StreamAckUnmarshal,
     SelectiveAck |-> SelectiveAckUnmarshal,
     CheckinRequest_Checkin_Build |-> CheckinRequest_Checkin_BuildUnmarshal,
     CheckinRequest_Checkin_Event |-> CheckinRequest_Checkin_EventUnmarshal,
     CheckinRequest_Checkin_Statistic |-> CheckinRequest_Checkin_StatisticUnmarshal,
     CheckinRequest_Checkin |-> CheckinRequest_CheckinUnmarshal,
     CheckinRequest_DeviceConfig |-> CheckinRequest_DeviceConfigUnmarshal,
     CheckinRequest |-> CheckinRequestUnmarshal,
     CheckinResponse_Intent_Extra |-> CheckinResponse_Intent_ExtraUnmarshal,
     CheckinResponse_Intent |-> CheckinResponse_IntentUnmarshal,
     CheckinResponse_GservicesSetting |-> CheckinResponse_GservicesSettingUnmarshal,
     CheckinResponse |-> CheckinResponseUnmarshal,
     FirebaseAuthentication |-> FirebaseAuthenticationUnmarshal,
     FirebaseNotificationData |-> FirebaseNotificationDataUnmarshal,
     FirebaseInstallationData |-> FirebaseInstallationDataUnmarshal,
     FirebaseAppData |-> FirebaseAppDataUnmarshal, FirebaseDevice |-> FirebaseDeviceUnmarshal]
==============================================================================
