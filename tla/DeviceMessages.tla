---------------------------- MODULE DeviceMessages ----------------------------
(* The field tables of the device record an application stores: src/api/gaf_vtproto.pb.go for
   what MarshalVT, SizeVT and UnmarshalVT do, src/api/gaf.pb.go for the struct. *)
EXTENDS FieldTables

------------------------------------------------------------------------------
FirebaseAuthentication ==
    [AccessToken |-> Implicit(1, "string"), Expires |-> Optional(2, "Timestamp"),
     RefreshToken |-> Implicit(3, "string"), IdToken |-> Implicit(4, "string")]

FirebaseAuthenticationMarshal ==
    <<Put(<<\h22>>, "bytes", "IdToken"), Put(<<\h1a>>, "bytes", "RefreshToken"),
      Put(<<\h12>>, "Timestamp", "Expires"), Put(<<\h0a>>, "bytes", "AccessToken")>>

FirebaseAuthenticationSize ==
    Count(1, "bytes", {"AccessToken", "RefreshToken", "IdToken"})
    \cup Count(1, "Timestamp", {"Expires"})

FirebaseAuthenticationUnmarshal ==
    Reads({},
          Assigns(2, "string", [AccessToken |-> 1, RefreshToken |-> 3, IdToken |-> 4])
          \cup Sets(2, "Timestamp", [Expires |-> 2]))

------------------------------------------------------------------------------
FirebaseNotificationData ==
    [NotificationToken |-> Implicit(1, "string"), PrivateKey |-> Implicit(2, "bytes"),
     PublicKey |-> Implicit(3, "bytes"), Secret |-> Implicit(4, "bytes")]

FirebaseNotificationDataMarshal ==
    <<Put(<<\h22>>, "bytes", "Secret"), Put(<<\h1a>>, "bytes", "PublicKey"),
      Put(<<\h12>>, "bytes", "PrivateKey"), Put(<<\h0a>>, "bytes", "NotificationToken")>>

FirebaseNotificationDataSize ==
    Count(1, "bytes", {"NotificationToken", "PrivateKey", "PublicKey", "Secret"})

FirebaseNotificationDataUnmarshal ==
    Reads({},
          Assigns(2, "string", [NotificationToken |-> 1])
          \cup Assigns(2, "bytes", [PrivateKey |-> 2, PublicKey |-> 3, Secret |-> 4]))

------------------------------------------------------------------------------
FirebaseInstallationData ==
    [FirebaseInstallationID |-> Implicit(1, "string"),
     NotificationData |-> Optional(2, "FirebaseNotificationData"),
     InstallationAuthentication |-> Optional(3, "FirebaseAuthentication")]

FirebaseInstallationDataMarshal ==
    <<Put(<<\h1a>>, "FirebaseAuthentication", "InstallationAuthentication"),
      Put(<<\h12>>, "FirebaseNotificationData", "NotificationData"),
      Put(<<\h0a>>, "bytes", "FirebaseInstallationID")>>

FirebaseInstallationDataSize ==
    Count(1, "bytes", {"FirebaseInstallationID"})
    \cup Count(1, "FirebaseNotificationData", {"NotificationData"})
    \cup Count(1, "FirebaseAuthentication", {"InstallationAuthentication"})

FirebaseInstallationDataUnmarshal ==
    Reads({},
          Assigns(2, "string", [FirebaseInstallationID |-> 1])
          \cup Sets(2, "FirebaseNotificationData", [NotificationData |-> 2])
          \cup Sets(2, "FirebaseAuthentication", [InstallationAuthentication |-> 3]))

------------------------------------------------------------------------------
FirebaseAppData ==
    [PackageID |-> Implicit(1, "string"), PackageCertificate |-> Implicit(2, "string"),
     GoogleAPIKey |-> Implicit(3, "string"), FirebaseProjectID |-> Implicit(4, "string"),
     NotificationSenderID |-> Implicit(5, "string"), GMPAppID |-> Implicit(6, "string"),
     AppVersion |-> Implicit(7, "string"), AppVersionWithBuild |-> Implicit(8, "string"),
     AuthVersion |-> Implicit(9, "string"), SdkVersion |-> Implicit(10, "string"),
     AppNameHash |-> Implicit(11, "string")]

FirebaseAppDataMarshal ==
    <<Put(<<\h5a>>, "bytes", "AppNameHash"), Put(<<\h52>>, "bytes", "SdkVersion"),
      Put(<<\h4a>>, "bytes", "AuthVersion"), Put(<<\h42>>, "bytes", "AppVersionWithBuild"),
      Put(<<\h3a>>, "bytes", "AppVersion"), Put(<<\h32>>, "bytes", "GMPAppID"),
      Put(<<\h2a>>, "bytes", "NotificationSenderID"), Put(<<\h22>>, "bytes", "FirebaseProjectID"),
      Put(<<\h1a>>, "bytes", "GoogleAPIKey"), Put(<<\h12>>, "bytes", "PackageCertificate"),
      Put(<<\h0a>>, "bytes", "PackageID")>>

FirebaseAppDataSize ==
    Count(1, "bytes", {"PackageID", "PackageCertificate", "GoogleAPIKey", "FirebaseProjectID",
                "NotificationSenderID", "GMPAppID", "AppVersion", "AppVersionWithBuild",
                "AuthVersion", "SdkVersion", "AppNameHash"})

FirebaseAppDataUnmarshal ==
    Reads({},
          Assigns(2, "string", [PackageID |-> 1, PackageCertificate |-> 2, GoogleAPIKey |-> 3,
                      FirebaseProjectID |-> 4, NotificationSenderID |-> 5, GMPAppID |-> 6,
                      AppVersion |-> 7, AppVersionWithBuild |-> 8, AuthVersion |-> 9,
                      SdkVersion |-> 10, AppNameHash |-> 11]))

------------------------------------------------------------------------------
FirebaseDevice ==
    [Device |-> Optional(1, "Device"), CheckinAndroidID |-> Implicit(2, "int64"),
     CheckinSecurityToken |-> Implicit(3, "uint64"),
     FirebaseInstallations |-> MapOf(4, "FirebaseInstallationData"),
     MTalkLastPersistentId |-> Implicit(5, "string"),
     FirebaseClientVersion |-> Implicit(6, "string"), GmsVersion |-> Implicit(7, "string"),
     MTalkPrivateKey |-> Implicit(8, "string"), MTalkPublicKey |-> Implicit(9, "string"),
     MTalkAuthSecret |-> Implicit(10, "string")]

FirebaseDeviceMarshal ==
    <<Put(<<\h52>>, "bytes", "MTalkAuthSecret"), Put(<<\h4a>>, "bytes", "MTalkPublicKey"),
      Put(<<\h42>>, "bytes", "MTalkPrivateKey"), Put(<<\h3a>>, "bytes", "GmsVersion"),
      Put(<<\h32>>, "bytes", "FirebaseClientVersion"),
      Put(<<\h2a>>, "bytes", "MTalkLastPersistentId"),
      Entries(<<\h22>>, "FirebaseInstallationData", "FirebaseInstallations"),
      Put(<<\h18>>, "varint", "CheckinSecurityToken"), Put(<<\h10>>, "varint", "CheckinAndroidID"),
      Put(<<\h0a>>, "Device", "Device")>>

FirebaseDeviceSize ==
    Count(1, "Device", {"Device"})
    \cup Count(1, "varint", {"CheckinAndroidID", "CheckinSecurityToken"})
    \cup CountEntries(1, "FirebaseInstallationData", {"FirebaseInstallations"})
    \cup Count(1, "bytes", {"MTalkLastPersistentId", "FirebaseClientVersion", "GmsVersion",
                "MTalkPrivateKey", "MTalkPublicKey", "MTalkAuthSecret"})

FirebaseDeviceUnmarshal ==
    Reads({},
          Sets(2, "Device", [Device |-> 1]) \cup Assigns(0, "int64", [CheckinAndroidID |-> 2])
          \cup Assigns(0, "uint64", [CheckinSecurityToken |-> 3])
          \cup AddsEntry(2, "FirebaseInstallationData", [FirebaseInstallations |-> 4])
          \cup Assigns(2, "string", [MTalkLastPersistentId |-> 5, FirebaseClientVersion |-> 6,
                      GmsVersion |-> 7, MTalkPrivateKey |-> 8, MTalkPublicKey |-> 9,
                      MTalkAuthSecret |-> 10]))
==============================================================================
