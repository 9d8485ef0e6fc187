----------------------------- MODULE McsMessages -----------------------------
(* The field tables of the messages of the MTalk stream: src/api/mcs_vtproto.pb.go for
   what MarshalVT, SizeVT and UnmarshalVT do, src/api/mcs.pb.go for the struct. *)
EXTENDS FieldTables

------------------------------------------------------------------------------
HeartbeatPing ==
    [StreamId |-> Optional(1, "int32"), LastStreamIdReceived |-> Optional(2, "int32"),
     Status |-> Optional(3, "int64")]

HeartbeatPingMarshal ==
    <<Put(<<\h18>>, "varint", "Status"), Put(<<\h10>>, "varint", "LastStreamIdReceived"),
      Put(<<\h08>>, "varint", "StreamId")>>

HeartbeatPingSize ==
    Count(1, "varint", {"StreamId", "LastStreamIdReceived", "Status"})

HeartbeatPingUnmarshal ==
    Reads({},
          Sets(0, "int32", [StreamId |-> 1, LastStreamIdReceived |-> 2])
          \cup Sets(0, "int64", [Status |-> 3]))

------------------------------------------------------------------------------
HeartbeatAck ==
    [StreamId |-> Optional(1, "int32"), LastStreamIdReceived |-> Optional(2, "int32"),
     Status |-> Optional(3, "int64")]

HeartbeatAckMarshal ==
    <<Put(<<\h18>>, "varint", "Status"), Put(<<\h10>>, "varint", "LastStreamIdReceived"),
      Put(<<\h08>>, "varint", "StreamId")>>

HeartbeatAckSize ==
    Count(1, "varint", {"StreamId", "LastStreamIdReceived", "Status"})

HeartbeatAckUnmarshalSwapped == \* mutant: two cases assign to each other's field
    Reads({},
          Sets(0, "int32", [StreamId |-> 2, LastStreamIdReceived |-> 1])
          \cup Sets(0, "int64", [Status |-> 3]))

HeartbeatAckUnmarshal ==
    Reads({},
          Sets(0, "int32", [StreamId |-> 1, LastStreamIdReceived |-> 2])
          \cup Sets(0, "int64", [Status |-> 3]))

------------------------------------------------------------------------------
ErrorInfo ==
    [Code |-> Required(1, "int32"), Message |-> Optional(2, "string"),
     Type |-> Optional(3, "string"), Extension |-> Optional(4, "Extension")]

ErrorInfoMarshal ==
    <<Put(<<\h22>>, "Extension", "Extension"), Put(<<\h1a>>, "bytes", "Type"),
      Put(<<\h12>>, "bytes", "Message"), Must(<<\h08>>, "varint", "Code")>>

ErrorInfoSize ==
    Count(1, "varint", {"Code"}) \cup Count(1, "bytes", {"Message", "Type"})
    \cup Count(1, "Extension", {"Extension"})

ErrorInfoUnmarshal ==
    Reads({"Code"},
          Sets(0, "int32", [Code |-> 1]) \cup Sets(2, "string", [Message |-> 2, Type |-> 3])
          \cup Sets(2, "Extension", [Extension |-> 4]))

------------------------------------------------------------------------------
Setting ==
    [Name |-> Required(1, "string"), Value |-> Required(2, "string")]

SettingMarshal ==
    <<Must(<<\h12>>, "bytes", "Value"), Must(<<\h0a>>, "bytes", "Name")>>

SettingSize ==
    Count(1, "bytes", {"Name", "Value"})

SettingUnmarshal ==
    Reads({"Name", "Value"},
          Sets(2, "string", [Name |-> 1, Value |-> 2]))

------------------------------------------------------------------------------
HeartbeatStat ==
    [Ip |-> Required(1, "string"), Timeout |-> Required(2, "bool"),
     IntervalMs |-> Required(3, "int32")]

HeartbeatStatMarshal ==
    <<Must(<<\h18>>, "varint", "IntervalMs"), Must(<<\h10>>, "bool", "Timeout"),
      Must(<<\h0a>>, "bytes", "Ip")>>

HeartbeatStatSize ==
    Count(1, "bytes", {"Ip"}) \cup Count(2, "const", {"Timeout"})
    \cup Count(1, "varint", {"IntervalMs"})

HeartbeatStatUnmarshal ==
    Reads({"Ip", "Timeout", "IntervalMs"},
          Sets(2, "string", [Ip |-> 1]) \cup Sets(0, "bool", [Timeout |-> 2])
          \cup Sets(0, "int32", [IntervalMs |-> 3]))

------------------------------------------------------------------------------
HeartbeatConfig ==
    [UploadStat |-> Optional(1, "bool"), Ip |-> Optional(2, "string"),
     IntervalMs |-> Optional(3, "int32")]

HeartbeatConfigMarshal ==
    <<Put(<<\h18>>, "varint", "IntervalMs"), Put(<<\h12>>, "bytes", "Ip"),
      Put(<<\h08>>, "bool", "UploadStat")>>

HeartbeatConfigSize ==
    Count(2, "const", {"UploadStat"}) \cup Count(1, "bytes", {"Ip"})
    \cup Count(1, "varint", {"IntervalMs"})

HeartbeatConfigUnmarshal ==
    Reads({},
          Sets(0, "bool", [UploadStat |-> 1]) \cup Sets(2, "string", [Ip |-> 2])
          \cup Sets(0, "int32", [IntervalMs |-> 3]))

------------------------------------------------------------------------------
LoginRequest ==
    [Id |-> Required(1, "string"), Domain |-> Required(2, "string"), User |-> Required(3, "string"),
     Resource |-> Required(4, "string"), AuthToken |-> Required(5, "string"),
     DeviceId |-> Optional(6, "string"), LastRmqId |-> Optional(7, "int64"),
     Setting |-> Repeated(8, "Setting"), Compress |-> Optional(9, "int32"),
     ReceivedPersistentId |-> Repeated(10, "string"), IncludeStreamIds |-> Optional(11, "bool"),
     AdaptiveHeartbeat |-> Optional(12, "bool"), HeartbeatStat |-> Optional(13, "HeartbeatStat"),
     UseRmq2 |-> Optional(14, "bool"), AccountId |-> Optional(15, "int64"),
     AuthService |-> Optional(16, "enum"), NetworkType |-> Optional(17, "int32"),
     Status |-> Optional(18, "int64")]

LoginRequestMarshal ==
    <<Put(<<\h90, \h01>>, "varint", "Status"), Put(<<\h88, \h01>>, "varint", "NetworkType"),
      Put(<<\h80, \h01>>, "varint", "AuthService"), Put(<<\h78>>, "varint", "AccountId"),
      Put(<<\h70>>, "bool", "UseRmq2"), Put(<<\h6a>>, "HeartbeatStat", "HeartbeatStat"),
      Put(<<\h60>>, "bool", "AdaptiveHeartbeat"), Put(<<\h58>>, "bool", "IncludeStreamIds"),
      Put(<<\h52>>, "bytes", "ReceivedPersistentId"), Put(<<\h48>>, "varint", "Compress"),
      Put(<<\h42>>, "Setting", "Setting"), Put(<<\h38>>, "varint", "LastRmqId"),
      Put(<<\h32>>, "bytes", "DeviceId"), Must(<<\h2a>>, "bytes", "AuthToken"),
      Must(<<\h22>>, "bytes", "Resource"), Must(<<\h1a>>, "bytes", "User"),
      Must(<<\h12>>, "bytes", "Domain"), Must(<<\h0a>>, "bytes", "Id")>>

LoginRequestSizeShort == \* mutant: the keys of fields 16 to 18 counted as one byte
    Count(1, "bytes", {"Id", "Domain", "User", "Resource", "AuthToken", "DeviceId",
                "ReceivedPersistentId"})
    \cup Count(1, "varint", {"LastRmqId", "Compress", "AccountId", "AuthService", "NetworkType", "Status"})
    \cup Count(1, "Setting", {"Setting"}) \cup Count(1, "HeartbeatStat", {"HeartbeatStat"})
    \cup Count(2, "const", {"IncludeStreamIds", "AdaptiveHeartbeat", "UseRmq2"})

LoginRequestSize ==
    Count(1, "bytes", {"Id", "Domain", "User", "Resource", "AuthToken", "DeviceId",
                "ReceivedPersistentId"})
    \cup Count(1, "varint", {"LastRmqId", "Compress", "AccountId"})
    \cup Count(1, "Setting", {"Setting"}) \cup Count(1, "HeartbeatStat", {"HeartbeatStat"})
    \cup Count(2, "const", {"IncludeStreamIds", "AdaptiveHeartbeat", "UseRmq2"})
    \cup Count(2, "varint", {"AuthService", "NetworkType", "Status"})

LoginRequestUnmarshal ==
    Reads({"Id", "Domain", "User", "Resource", "AuthToken"},
          Sets(2, "string", [Id |-> 1, Domain |-> 2, User |-> 3, Resource |-> 4, AuthToken |-> 5,
                      DeviceId |-> 6])
          \cup Sets(0, "int64", [LastRmqId |-> 7, AccountId |-> 15, Status |-> 18])
          \cup Adds(2, "Setting", [Setting |-> 8])
          \cup Sets(0, "int32", [Compress |-> 9, NetworkType |-> 17])
          \cup Adds(2, "string", [ReceivedPersistentId |-> 10])
          \cup Sets(0, "bool", [IncludeStreamIds |-> 11, AdaptiveHeartbeat |-> 12, UseRmq2 |-> 14])
          \cup Sets(2, "HeartbeatStat", [HeartbeatStat |-> 13])
          \cup Sets(0, "enum", [AuthService |-> 16]))

------------------------------------------------------------------------------
LoginResponse ==
    [Id |-> Required(1, "string"), Jid |-> Optional(2, "string"),
     Error |-> Optional(3, "ErrorInfo"), Setting |-> Repeated(4, "Setting"),
     StreamId |-> Optional(5, "int32"), LastStreamIdReceived |-> Optional(6, "int32"),
     HeartbeatConfig |-> Optional(7, "HeartbeatConfig"), ServerTimestamp |-> Optional(8, "int64")]

LoginResponseMarshal ==
    <<Put(<<\h40>>, "varint", "ServerTimestamp"),
      Put(<<\h3a>>, "HeartbeatConfig", "HeartbeatConfig"),
      Put(<<\h30>>, "varint", "LastStreamIdReceived"), Put(<<\h28>>, "varint", "StreamId"),
      Put(<<\h22>>, "Setting", "Setting"), Put(<<\h1a>>, "ErrorInfo", "Error"),
      Put(<<\h12>>, "bytes", "Jid"), Must(<<\h0a>>, "bytes", "Id")>>

LoginResponseSize ==
    Count(1, "bytes", {"Id", "Jid"}) \cup Count(1, "ErrorInfo", {"Error"})
    \cup Count(1, "Setting", {"Setting"}) \cup Count(1, "HeartbeatConfig", {"HeartbeatConfig"})
    \cup Count(1, "varint", {"StreamId", "LastStreamIdReceived", "ServerTimestamp"})

LoginResponseUnmarshal ==
    Reads({"Id"},
          Sets(2, "string", [Id |-> 1, Jid |-> 2]) \cup Sets(2, "ErrorInfo", [Error |-> 3])
          \cup Adds(2, "Setting", [Setting |-> 4])
          \cup Sets(0, "int32", [StreamId |-> 5, LastStreamIdReceived |-> 6])
          \cup Sets(2, "HeartbeatConfig", [HeartbeatConfig |-> 7])
          \cup Sets(0, "int64", [ServerTimestamp |-> 8]))

------------------------------------------------------------------------------
StreamErrorStanza ==
    [Type |-> Required(1, "string"), Text |-> Optional(2, "string")]

StreamErrorStanzaMarshal ==
    <<Put(<<\h12>>, "bytes", "Text"), Must(<<\h0a>>, "bytes", "Type")>>

StreamErrorStanzaSize ==
    Count(1, "bytes", {"Type", "Text"})

StreamErrorStanzaUnmarshal ==
    Reads({"Type"},
          Sets(2, "string", [Type |-> 1, Text |-> 2]))

------------------------------------------------------------------------------
Close == NoFields

CloseMarshal == <<>>

CloseSize == {}

CloseUnmarshal == Reads({}, {})

------------------------------------------------------------------------------
Extension ==
    [Id |-> Required(1, "int32"), Data |-> Required(2, "bytes")]

ExtensionMarshal ==
    <<Must(<<\h12>>, "bytes", "Data"), Must(<<\h08>>, "varint", "Id")>>

ExtensionSize ==
    Count(1, "varint", {"Id"}) \cup Count(1, "bytes", {"Data"})

ExtensionUnmarshal ==
    Reads({"Id", "Data"},
          Sets(0, "int32", [Id |-> 1]) \cup Sets(2, "bytes", [Data |-> 2]))

------------------------------------------------------------------------------
IqStanza ==
    [RmqId |-> Optional(1, "int64"), Type |-> Required(2, "enum"), Id |-> Required(3, "string"),
     From |-> Optional(4, "string"), To |-> Optional(5, "string"),
     Error |-> Optional(6, "ErrorInfo"), Extension |-> Optional(7, "Extension"),
     PersistentId |-> Optional(8, "string"), StreamId |-> Optional(9, "int32"),
     LastStreamIdReceived |-> Optional(10, "int32"), AccountId |-> Optional(11, "int64"),
     Status |-> Optional(12, "int64")]

IqStanzaMarshal ==
    <<Put(<<\h60>>, "varint", "Status"), Put(<<\h58>>, "varint", "AccountId"),
      Put(<<\h50>>, "varint", "LastStreamIdReceived"), Put(<<\h48>>, "varint", "StreamId"),
      Put(<<\h42>>, "bytes", "PersistentId"), Put(<<\h3a>>, "Extension", "Extension"),
      Put(<<\h32>>, "ErrorInfo", "Error"), Put(<<\h2a>>, "bytes", "To"),
      Put(<<\h22>>, "bytes", "From"), Must(<<\h1a>>, "bytes", "Id"),
      Must(<<\h10>>, "varint", "Type"), Put(<<\h08>>, "varint", "RmqId")>>

IqStanzaSize ==
    Count(1, "varint", {"RmqId", "Type", "StreamId", "LastStreamIdReceived", "AccountId", "Status"})
    \cup Count(1, "bytes", {"Id", "From", "To", "PersistentId"})
    \cup Count(1, "ErrorInfo", {"Error"}) \cup Count(1, "Extension", {"Extension"})

IqStanzaUnmarshal ==
    Reads({"Type", "Id"},
          Sets(0, "int64", [RmqId |-> 1, AccountId |-> 11, Status |-> 12])
          \cup Sets(0, "enum", [Type |-> 2])
          \cup Sets(2, "string", [Id |-> 3, From |-> 4, To |-> 5, PersistentId |-> 8])
          \cup Sets(2, "ErrorInfo", [Error |-> 6]) \cup Sets(2, "Extension", [Extension |-> 7])
          \cup Sets(0, "int32", [StreamId |-> 9, LastStreamIdReceived |-> 10]))

------------------------------------------------------------------------------
AppData ==
    [Key |-> Required(1, "string"), Value |-> Required(2, "string")]

AppDataMarshal ==
    <<Must(<<\h12>>, "bytes", "Value"), Must(<<\h0a>>, "bytes", "Key")>>

AppDataSize ==
    Count(1, "bytes", {"Key", "Value"})

AppDataUnmarshal ==
    Reads({"Key", "Value"},
          Sets(2, "string", [Key |-> 1, Value |-> 2]))

------------------------------------------------------------------------------
DataMessageStanza ==
    [RmqId |-> Optional(1, "int64"), Id |-> Optional(2, "string"), From |-> Required(3, "string"),
     To |-> Optional(4, "string"), Category |-> Required(5, "string"),
     Token |-> Optional(6, "string"), AppData |-> Repeated(7, "AppData"),
     FromTrustedServer |-> Optional(8, "bool"), PersistentId |-> Optional(9, "string"),
     StreamId |-> Optional(10, "int32"), LastStreamIdReceived |-> Optional(11, "int32"),
     Permission |-> Optional(12, "string"), RegId |-> Optional(13, "string"),
     PkgSignature |-> Optional(14, "string"), ClientId |-> Optional(15, "string"),
     DeviceUserId |-> Optional(16, "int64"), Ttl |-> Optional(17, "int32"),
     Sent |-> Optional(18, "int64"), Queued |-> Optional(19, "int32"),
     Status |-> Optional(20, "int64"), RawData |-> Optional(21, "bytes"),
     Delay |-> Optional(22, "int32")]

DataMessageStanzaMarshal ==
    <<Put(<<\hb0, \h01>>, "varint", "Delay"), Put(<<\haa, \h01>>, "bytes", "RawData"),
      Put(<<\ha0, \h01>>, "varint", "Status"), Put(<<\h98, \h01>>, "varint", "Queued"),
      Put(<<\h90, \h01>>, "varint", "Sent"), Put(<<\h88, \h01>>, "varint", "Ttl"),
      Put(<<\h80, \h01>>, "varint", "DeviceUserId"), Put(<<\h7a>>, "bytes", "ClientId"),
      Put(<<\h72>>, "bytes", "PkgSignature"), Put(<<\h6a>>, "bytes", "RegId"),
      Put(<<\h62>>, "bytes", "Permission"), Put(<<\h58>>, "varint", "LastStreamIdReceived"),
      Put(<<\h50>>, "varint", "StreamId"), Put(<<\h4a>>, "bytes", "PersistentId"),
      Put(<<\h40>>, "bool", "FromTrustedServer"), Put(<<\h3a>>, "AppData", "AppData"),
      Put(<<\h32>>, "bytes", "Token"), Must(<<\h2a>>, "bytes", "Category"),
      Put(<<\h22>>, "bytes", "To"), Must(<<\h1a>>, "bytes", "From"), Put(<<\h12>>, "bytes", "Id"),
      Put(<<\h08>>, "varint", "RmqId")>>

DataMessageStanzaSize ==
    Count(1, "varint", {"RmqId", "StreamId", "LastStreamIdReceived"})
    \cup Count(1, "bytes", {"Id", "From", "To", "Category", "Token", "PersistentId", "Permission",
                "RegId", "PkgSignature", "ClientId"})
    \cup Count(1, "AppData", {"AppData"}) \cup Count(2, "const", {"FromTrustedServer"})
    \cup Count(2, "varint", {"DeviceUserId", "Ttl", "Sent", "Queued", "Status", "Delay"})
    \cup Count(2, "bytes", {"RawData"})

DataMessageStanzaUnmarshal ==
    Reads({"From", "Category"},
          Sets(0, "int64", [RmqId |-> 1, DeviceUserId |-> 16, Sent |-> 18, Status |-> 20])
          \cup Sets(2, "string", [Id |-> 2, From |-> 3, To |-> 4, Category |-> 5, Token |-> 6,
                      PersistentId |-> 9, Permission |-> 12, RegId |-> 13, PkgSignature |-> 14,
                      ClientId |-> 15])
          \cup Adds(2, "AppData", [AppData |-> 7]) \cup Sets(0, "bool", [FromTrustedServer |-> 8])
          \cup Sets(0, "int32", [StreamId |-> 10, LastStreamIdReceived |-> 11, Ttl |-> 17,
                      Queued |-> 19, Delay |-> 22])
          \cup Sets(2, "bytes", [RawData |-> 21]))

------------------------------------------------------------------------------
StreamAck == NoFields

StreamAckMarshal == <<>>

StreamAckSize == {}

StreamAckUnmarshal == Reads({}, {})

------------------------------------------------------------------------------
SelectiveAck ==
    [Id |-> Repeated(1, "string")]

SelectiveAckMarshal ==
    <<Put(<<\h0a>>, "bytes", "Id")>>

SelectiveAckSize ==
    Count(1, "bytes", {"Id"})

SelectiveAckUnmarshal ==
    Reads({},
          Adds(2, "string", [Id |-> 1]))
==============================================================================
