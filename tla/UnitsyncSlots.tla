--------------------------- MODULE UnitsyncSlots ----------------------------
(***************************************************************************)
(* Slots of the synchronous handlers, as the wrapper generator wrote them: *)
(* the function whose pointer a slot tests and calls, the type it returns, *)
(* the types it takes (and passes on, in this order); and the functions whose *)
(* pointers the constructors set.                                          *)
(***************************************************************************)
EXTENDS UnitsyncApi

SyncSlots1 == <<
    F("GetNextError", "QString", <<>>), F("GetSpringVersion", "QString", <<>>),
    F("GetSpringVersionPatchset", "QString", <<>>), F("IsSpringReleaseVersion", "bool", <<>>),
    F("Init", "int", <<"bool", "int">>), F("UnInit", "void", <<>>),
    F("GetWritableDataDirectory", "QString", <<>>), F("GetDataDirectoryCount", "int", <<>>),
    F("GetDataDirectory", "QString", <<"int">>), F("ProcessUnits", "int", <<>>),
    F("GetUnitCount", "int", <<>>), F("GetUnitName", "QString", <<"int">>),
    F("GetFullUnitName", "QString", <<"int">>), F("AddArchive", "void", <<"QString">>),
    F("AddAllArchives", "void", <<"QString">>), F("RemoveAllArchives", "void", <<>>),
    F("GetArchiveChecksum", "int", <<"QString">>), F("GetArchivePath", "QString", <<"QString">>) >>

SyncSlots2 == <<
    F("GetMapCount", "int", <<>>), F("GetMapName", "QString", <<"int">>),
    F("GetMapFileName", "QString", <<"int">>), F("GetMapDescription", "QString", <<"int">>),
    F("GetMapAuthor", "QString", <<"int">>), F("GetMapWidth", "int", <<"int">>),
    F("GetMapHeight", "int", <<"int">>), F("GetMapTidalStrength", "int", <<"int">>),
    F("GetMapWindMin", "int", <<"int">>), F("GetMapWindMax", "int", <<"int">>),
    F("GetMapGravity", "int", <<"int">>), F("GetMapResourceCount", "int", <<"int">>),
    F("GetMapResourceName", "QString", <<"int", "int">>),
    F("GetMapResourceMax", "float", <<"int", "int">>),
    F("GetMapResourceExtractorRadius", "int", <<"int", "int">>),
    F("GetMapPosCount", "int", <<"int">>), F("GetMapPosX", "float", <<"int", "int">>),
    F("GetMapPosZ", "float", <<"int", "int">>) >>

SyncSlots3 == <<
    F("GetMapMinHeight", "float", <<"QString">>), F("GetMapMaxHeight", "float", <<"QString">>),
    F("GetMapArchiveCount", "int", <<"QString">>), F("GetMapArchiveName", "QString", <<"int">>),
    F("GetMapChecksum", "int", <<"int">>), F("GetMapChecksumFromName", "int", <<"QString">>),
    F("GetSkirmishAICount", "int", <<>>), F("GetSkirmishAIInfoCount", "int", <<"int">>),
    F("GetInfoKey", "QString", <<"int">>), F("GetInfoType", "QString", <<"int">>),
    F("GetInfoValueString", "QString", <<"int">>), F("GetInfoValueInteger", "int", <<"int">>),
    F("GetInfoValueFloat", "float", <<"int">>), F("GetInfoValueBool", "bool", <<"int">>),
    F("GetInfoDescription", "QString", <<"int">>),
    F("GetSkirmishAIOptionCount", "int", <<"int">>), F("GetPrimaryModCount", "int", <<>>),
    F("GetPrimaryModInfoCount", "int", <<"int">>) >>

SyncSlots4 == <<
    F("GetPrimaryModArchive", "QString", <<"int">>),
    F("GetPrimaryModArchiveCount", "int", <<"int">>),
    F("GetPrimaryModArchiveList", "QString", <<"int">>),
    F("GetPrimaryModIndex", "int", <<"QString">>), F("GetPrimaryModChecksum", "int", <<"int">>),
    F("GetPrimaryModChecksumFromName", "int", <<"QString">>), F("GetSideCount", "int", <<>>),
    F("GetSideName", "QString", <<"int">>), F("GetSideStartUnit", "QString", <<"int">>),
    F("GetMapOptionCount", "int", <<"QString">>), F("GetModOptionCount", "int", <<>>),
    F("GetCustomOptionCount", "int", <<"QString">>), F("GetOptionKey", "QString", <<"int">>),
    F("GetOptionScope", "QString", <<"int">>), F("GetOptionName", "QString", <<"int">>),
    F("GetOptionSection", "QString", <<"int">>), F("GetOptionStyle", "QString", <<"int">>),
    F("GetOptionDesc", "QString", <<"int">>) >>

SyncSlots5 == <<
    F("GetOptionType", "int", <<"int">>), F("GetOptionBoolDef", "int", <<"int">>),
    F("GetOptionNumberDef", "float", <<"int">>), F("GetOptionNumberMin", "float", <<"int">>),
    F("GetOptionNumberMax", "float", <<"int">>), F("GetOptionNumberStep", "float", <<"int">>),
    F("GetOptionStringDef", "QString", <<"int">>), F("GetOptionStringMaxLen", "int", <<"int">>),
    F("GetOptionListCount", "int", <<"int">>), F("GetOptionListDef", "QString", <<"int">>),
    F("GetOptionListItemKey", "QString", <<"int", "int">>),
    F("GetOptionListItemName", "QString", <<"int", "int">>),
    F("GetOptionListItemDesc", "QString", <<"int", "int">>),
    F("GetModValidMapCount", "int", <<>>), F("GetModValidMap", "QString", <<"int">>),
    F("OpenFileVFS", "int", <<"QString">>), F("CloseFileVFS", "void", <<"int">>),
    F("FileSizeVFS", "int", <<"int">>) >>

SyncSlots6 == <<
    F("InitFindVFS", "int", <<"QString">>),
    F("InitDirListVFS", "int", <<"QString", "QString", "QString">>),
    F("InitSubDirsVFS", "int", <<"QString", "QString", "QString">>),
    F("OpenArchive", "int", <<"QString">>), F("CloseArchive", "void", <<"int">>),
    F("OpenArchiveFile", "int", <<"int", "QString">>),
    F("CloseArchiveFile", "void", <<"int", "int">>),
    F("SizeArchiveFile", "int", <<"int", "int">>),
    F("SetSpringConfigFile", "void", <<"QString">>), F("GetSpringConfigFile", "QString", <<>>),
    F("GetSpringConfigString", "QString", <<"QString", "QString">>),
    F("GetSpringConfigInt", "int", <<"QString", "int">>),
    F("GetSpringConfigFloat", "float", <<"QString", "float">>),
    F("SetSpringConfigString", "void", <<"QString", "QString">>),
    F("SetSpringConfigInt", "void", <<"QString", "int">>),
    F("SetSpringConfigFloat", "void", <<"QString", "float">>),
    F("DeleteSpringConfigKey", "void", <<"QString">>), F("lpClose", "void", <<>>) >>

SyncSlots7 == <<
    F("lpOpenFile", "int", <<"QString", "QString", "QString">>),
    F("lpOpenSource", "int", <<"QString", "QString">>), F("lpExecute", "int", <<>>),
    F("lpErrorLog", "QString", <<>>), F("lpAddTableInt", "void", <<"int", "int">>),
    F("lpAddTableStr", "void", <<"QString", "int">>), F("lpEndTable", "void", <<>>),
    F("lpAddIntKeyIntVal", "void", <<"int", "int">>),
    F("lpAddStrKeyIntVal", "void", <<"QString", "int">>),
    F("lpAddIntKeyBoolVal", "void", <<"int", "int">>),
    F("lpAddStrKeyBoolVal", "void", <<"QString", "int">>),
    F("lpAddIntKeyFloatVal", "void", <<"int", "float">>),
    F("lpAddStrKeyFloatVal", "void", <<"QString", "float">>),
    F("lpAddIntKeyStrVal", "void", <<"int", "QString">>),
    F("lpAddStrKeyStrVal", "void", <<"QString", "QString">>), F("lpRootTable", "int", <<>>),
    F("lpRootTableExpr", "int", <<"QString">>), F("lpSubTableInt", "int", <<"int">>) >>

SyncSlots8 == <<
    F("lpSubTableStr", "int", <<"QString">>), F("lpSubTableExpr", "int", <<"QString">>),
    F("lpPopTable", "void", <<>>), F("lpGetKeyExistsInt", "int", <<"int">>),
    F("lpGetKeyExistsStr", "int", <<"QString">>), F("lpGetIntKeyType", "int", <<"int">>),
    F("lpGetStrKeyType", "int", <<"QString">>), F("lpGetIntKeyListCount", "int", <<>>),
    F("lpGetIntKeyListEntry", "int", <<"int">>), F("lpGetStrKeyListCount", "int", <<>>),
    F("lpGetStrKeyListEntry", "QString", <<"int">>),
    F("lpGetIntKeyIntVal", "int", <<"int", "int">>),
    F("lpGetStrKeyIntVal", "int", <<"QString", "int">>),
    F("lpGetIntKeyBoolVal", "int", <<"int", "int">>),
    F("lpGetStrKeyBoolVal", "int", <<"QString", "int">>),
    F("lpGetIntKeyFloatVal", "float", <<"int", "float">>),
    F("lpGetStrKeyFloatVal", "float", <<"QString", "float">>),
    F("lpGetIntKeyStrVal", "QString", <<"int", "QString">>) >>

SyncSlots9 == <<
    F("lpGetStrKeyStrVal", "QString", <<"QString", "QString">>),
    F("ProcessUnitsNoChecksum", "int", <<>>), F("GetInfoValue", "QString", <<"int">>),
    F("GetPrimaryModName", "QString", <<"int">>),
    F("GetPrimaryModShortName", "QString", <<"int">>),
    F("GetPrimaryModVersion", "QString", <<"int">>),
    F("GetPrimaryModMutator", "QString", <<"int">>),
    F("GetPrimaryModGame", "QString", <<"int">>),
    F("GetPrimaryModShortGame", "QString", <<"int">>),
    F("GetPrimaryModDescription", "QString", <<"int">>),
    F("OpenArchiveType", "int", <<"QString", "QString">>) >>

SyncSlots ==
    SyncSlots1 \o SyncSlots2 \o SyncSlots3 \o SyncSlots4 \o SyncSlots5 \o SyncSlots6 \o SyncSlots7
      \o SyncSlots8 \o SyncSlots9

\* The pointers set from the library on Unix, on Windows, and from another
\* handler when it is moved.
SyncUnix1 == {
    "GetNextError", "GetSpringVersion", "GetSpringVersionPatchset", "IsSpringReleaseVersion",
    "Init", "UnInit", "GetWritableDataDirectory", "GetDataDirectoryCount", "GetDataDirectory",
    "ProcessUnits", "GetUnitCount", "GetUnitName", "GetFullUnitName", "AddArchive",
    "AddAllArchives", "RemoveAllArchives", "GetArchiveChecksum", "GetArchivePath", "GetMapCount",
    "GetMapName", "GetMapFileName", "GetMapDescription", "GetMapAuthor", "GetMapWidth",
    "GetMapHeight", "GetMapTidalStrength", "GetMapWindMin", "GetMapWindMax", "GetMapGravity",
    "GetMapResourceCount", "GetMapResourceName", "GetMapResourceMax",
    "GetMapResourceExtractorRadius", "GetMapPosCount", "GetMapPosX", "GetMapPosZ",
    "GetMapMinHeight", "GetMapMaxHeight", "GetMapArchiveCount", "GetMapArchiveName",
    "GetMapChecksum", "GetMapChecksumFromName", "GetMinimap", "GetInfoMapSize", "GetInfoMap",
    "GetSkirmishAICount", "GetSkirmishAIInfoCount", "GetInfoKey", "GetInfoType",
    "GetInfoValueString", "GetInfoValueInteger", "GetInfoValueFloat", "GetInfoValueBool",
    "GetInfoDescription", "GetSkirmishAIOptionCount", "GetPrimaryModCount",
    "GetPrimaryModInfoCount", "GetPrimaryModArchive", "GetPrimaryModArchiveCount",
    "GetPrimaryModArchiveList", "GetPrimaryModIndex", "GetPrimaryModChecksum",
    "GetPrimaryModChecksumFromName", "GetSideCount", "GetSideName", "GetSideStartUnit",
    "GetMapOptionCount", "GetModOptionCount", "GetCustomOptionCount", "GetOptionKey",
    "GetOptionScope", "GetOptionName", "GetOptionSection", "GetOptionStyle", "GetOptionDesc",
    "GetOptionType", "GetOptionBoolDef", "GetOptionNumberDef", "GetOptionNumberMin",
    "GetOptionNumberMax", "GetOptionNumberStep", "GetOptionStringDef" }

SyncUnix2 == {
    "GetOptionStringMaxLen", "GetOptionListCount", "GetOptionListDef", "GetOptionListItemKey",
    "GetOptionListItemName", "GetOptionListItemDesc", "GetModValidMapCount", "GetModValidMap",
    "OpenFileVFS", "CloseFileVFS", "ReadFileVFS", "FileSizeVFS", "InitFindVFS", "InitDirListVFS",
    "InitSubDirsVFS", "FindFilesVFS", "OpenArchive", "CloseArchive", "FindFilesArchive",
    "OpenArchiveFile", "ReadArchiveFile", "CloseArchiveFile", "SizeArchiveFile",
    "SetSpringConfigFile", "GetSpringConfigFile", "GetSpringConfigString", "GetSpringConfigInt",
    "GetSpringConfigFloat", "SetSpringConfigString", "SetSpringConfigInt",
    "SetSpringConfigFloat", "DeleteSpringConfigKey", "lpClose", "lpOpenFile", "lpOpenSource",
    "lpExecute", "lpErrorLog", "lpAddTableInt", "lpAddTableStr", "lpEndTable",
    "lpAddIntKeyIntVal", "lpAddStrKeyIntVal", "lpAddIntKeyBoolVal", "lpAddStrKeyBoolVal",
    "lpAddIntKeyFloatVal", "lpAddStrKeyFloatVal", "lpAddIntKeyStrVal", "lpAddStrKeyStrVal",
    "lpRootTable", "lpRootTableExpr", "lpSubTableInt", "lpSubTableStr", "lpSubTableExpr",
    "lpPopTable", "lpGetKeyExistsInt", "lpGetKeyExistsStr", "lpGetIntKeyType", "lpGetStrKeyType",
    "lpGetIntKeyListCount", "lpGetIntKeyListEntry", "lpGetStrKeyListCount",
    "lpGetStrKeyListEntry", "lpGetIntKeyIntVal", "lpGetStrKeyIntVal", "lpGetIntKeyBoolVal",
    "lpGetStrKeyBoolVal", "lpGetIntKeyFloatVal", "lpGetStrKeyFloatVal", "lpGetIntKeyStrVal",
    "lpGetStrKeyStrVal", "ProcessUnitsNoChecksum", "GetMapInfoEx", "GetMapInfo", "GetInfoValue",
    "GetPrimaryModName", "GetPrimaryModShortName", "GetPrimaryModVersion",
    "GetPrimaryModMutator", "GetPrimaryModGame", "GetPrimaryModShortGame",
    "GetPrimaryModDescription", "OpenArchiveType" }

SyncUnix == SyncUnix1 \cup SyncUnix2

SyncWindows1 == {
    "GetNextError", "GetSpringVersion", "GetSpringVersionPatchset", "IsSpringReleaseVersion",
    "Init", "UnInit", "GetWritableDataDirectory", "GetDataDirectoryCount", "GetDataDirectory",
    "ProcessUnits", "GetUnitCount", "GetUnitName", "GetFullUnitName", "AddArchive",
    "AddAllArchives", "RemoveAllArchives", "GetArchiveChecksum", "GetArchivePath", "GetMapCount",
    "GetMapName", "GetMapFileName", "GetMapDescription", "GetMapAuthor", "GetMapWidth",
    "GetMapHeight", "GetMapTidalStrength", "GetMapWindMin", "GetMapWindMax", "GetMapGravity",
    "GetMapResourceCount", "GetMapResourceName", "GetMapResourceMax",
    "GetMapResourceExtractorRadius", "GetMapPosCount", "GetMapPosX", "GetMapPosZ",
    "GetMapMinHeight", "GetMapMaxHeight", "GetMapArchiveCount", "GetMapArchiveName",
    "GetMapChecksum", "GetMapChecksumFromName", "GetMinimap", "GetInfoMapSize", "GetInfoMap",
    "GetSkirmishAICount", "GetSkirmishAIInfoCount", "GetInfoKey", "GetInfoType",
    "GetInfoValueString", "GetInfoValueInteger", "GetInfoValueFloat", "GetInfoValueBool",
    "GetInfoDescription", "GetSkirmishAIOptionCount", "GetPrimaryModCount",
    "GetPrimaryModInfoCount", "GetPrimaryModArchive", "GetPrimaryModArchiveCount",
    "GetPrimaryModArchiveList", "GetPrimaryModIndex", "GetPrimaryModChecksum",
    "GetPrimaryModChecksumFromName", "GetSideCount", "GetSideName", "GetSideStartUnit",
    "GetMapOptionCount", "GetModOptionCount", "GetCustomOptionCount", "GetOptionKey",
    "GetOptionScope", "GetOptionName", "GetOptionSection", "GetOptionStyle", "GetOptionDesc",
    "GetOptionType", "GetOptionBoolDef", "GetOptionNumberDef", "GetOptionNumberMin",
    "GetOptionNumberMax", "GetOptionNumberStep", "GetOptionStringDef" }

SyncWindows2 == {
    "GetOptionStringMaxLen", "GetOptionListCount", "GetOptionListDef", "GetOptionListItemKey",
    "GetOptionListItemName", "GetOptionListItemDesc", "GetModValidMapCount", "GetModValidMap",
    "OpenFileVFS", "CloseFileVFS", "ReadFileVFS", "FileSizeVFS", "InitFindVFS", "InitDirListVFS",
    "InitSubDirsVFS", "FindFilesVFS", "OpenArchive", "CloseArchive", "FindFilesArchive",
    "OpenArchiveFile", "ReadArchiveFile", "CloseArchiveFile", "SizeArchiveFile",
    "SetSpringConfigFile", "GetSpringConfigFile", "GetSpringConfigString", "GetSpringConfigInt",
    "GetSpringConfigFloat", "SetSpringConfigString", "SetSpringConfigInt",
    "SetSpringConfigFloat", "DeleteSpringConfigKey", "lpClose", "lpOpenFile", "lpOpenSource",
    "lpExecute", "lpErrorLog", "lpAddTableInt", "lpAddTableStr", "lpEndTable",
    "lpAddIntKeyIntVal", "lpAddStrKeyIntVal", "lpAddIntKeyBoolVal", "lpAddStrKeyBoolVal",
    "lpAddIntKeyFloatVal", "lpAddStrKeyFloatVal", "lpAddIntKeyStrVal", "lpAddStrKeyStrVal",
    "lpRootTable", "lpRootTableExpr", "lpSubTableInt", "lpSubTableStr", "lpSubTableExpr",
    "lpPopTable", "lpGetKeyExistsInt", "lpGetKeyExistsStr", "lpGetIntKeyType", "lpGetStrKeyType",
    "lpGetIntKeyListCount", "lpGetIntKeyListEntry", "lpGetStrKeyListCount",
    "lpGetStrKeyListEntry", "lpGetIntKeyIntVal", "lpGetStrKeyIntVal", "lpGetIntKeyBoolVal",
    "lpGetStrKeyBoolVal", "lpGetIntKeyFloatVal", "lpGetStrKeyFloatVal", "lpGetIntKeyStrVal",
    "lpGetStrKeyStrVal", "ProcessUnitsNoChecksum", "GetMapInfoEx", "GetMapInfo", "GetInfoValue",
    "GetPrimaryModName", "GetPrimaryModShortName", "GetPrimaryModVersion",
    "GetPrimaryModMutator", "GetPrimaryModGame", "GetPrimaryModShortGame",
    "GetPrimaryModDescription", "OpenArchiveType" }

SyncWindows == SyncWindows1 \cup SyncWindows2

SyncMoved1 == {
    "GetNextError", "GetSpringVersion", "GetSpringVersionPatchset", "IsSpringReleaseVersion",
    "Init", "UnInit", "GetWritableDataDirectory", "GetDataDirectoryCount", "GetDataDirectory",
    "ProcessUnits", "GetUnitCount", "GetUnitName", "GetFullUnitName", "AddArchive",
    "AddAllArchives", "RemoveAllArchives", "GetArchiveChecksum", "GetArchivePath", "GetMapCount",
    "GetMapName", "GetMapFileName", "GetMapDescription", "GetMapAuthor", "GetMapWidth",
    "GetMapHeight", "GetMapTidalStrength", "GetMapWindMin", "GetMapWindMax", "GetMapGravity",
    "GetMapResourceCount", "GetMapResourceName", "GetMapResourceMax",
    "GetMapResourceExtractorRadius", "GetMapPosCount", "GetMapPosX", "GetMapPosZ",
    "GetMapMinHeight", "GetMapMaxHeight", "GetMapArchiveCount", "GetMapArchiveName",
    "GetMapChecksum", "GetMapChecksumFromName", "GetMinimap", "GetInfoMapSize", "GetInfoMap",
    "GetSkirmishAICount", "GetSkirmishAIInfoCount", "GetInfoKey", "GetInfoType",
    "GetInfoValueString", "GetInfoValueInteger", "GetInfoValueFloat", "GetInfoValueBool",
    "GetInfoDescription", "GetSkirmishAIOptionCount", "GetPrimaryModCount",
    "GetPrimaryModInfoCount", "GetPrimaryModArchive", "GetPrimaryModArchiveCount",
    "GetPrimaryModArchiveList", "GetPrimaryModIndex", "GetPrimaryModChecksum",
    "GetPrimaryModChecksumFromName", "GetSideCount", "GetSideName", "GetSideStartUnit",
    "GetMapOptionCount", "GetModOptionCount", "GetCustomOptionCount", "GetOptionKey",
    "GetOptionScope", "GetOptionName", "GetOptionSection", "GetOptionStyle", "GetOptionDesc",
    "GetOptionType", "GetOptionBoolDef", "GetOptionNumberDef", "GetOptionNumberMin",
    "GetOptionNumberMax", "GetOptionNumberStep", "GetOptionStringDef" }

SyncMoved2 == {
    "GetOptionStringMaxLen", "GetOptionListCount", "GetOptionListDef", "GetOptionListItemKey",
    "GetOptionListItemName", "GetOptionListItemDesc", "GetModValidMapCount", "GetModValidMap",
    "OpenFileVFS", "CloseFileVFS", "ReadFileVFS", "FileSizeVFS", "InitFindVFS", "InitDirListVFS",
    "InitSubDirsVFS", "FindFilesVFS", "OpenArchive", "CloseArchive", "FindFilesArchive",
    "OpenArchiveFile", "ReadArchiveFile", "CloseArchiveFile", "SizeArchiveFile",
    "SetSpringConfigFile", "GetSpringConfigFile", "GetSpringConfigString", "GetSpringConfigInt",
    "GetSpringConfigFloat", "SetSpringConfigString", "SetSpringConfigInt",
    "SetSpringConfigFloat", "DeleteSpringConfigKey", "lpClose", "lpOpenFile", "lpOpenSource",
    "lpExecute", "lpErrorLog", "lpAddTableInt", "lpAddTableStr", "lpEndTable",
    "lpAddIntKeyIntVal", "lpAddStrKeyIntVal", "lpAddIntKeyBoolVal", "lpAddStrKeyBoolVal",
    "lpAddIntKeyFloatVal", "lpAddStrKeyFloatVal", "lpAddIntKeyStrVal", "lpAddStrKeyStrVal",
    "lpRootTable", "lpRootTableExpr", "lpSubTableInt", "lpSubTableStr", "lpSubTableExpr",
    "lpPopTable", "lpGetKeyExistsInt", "lpGetKeyExistsStr", "lpGetIntKeyType", "lpGetStrKeyType",
    "lpGetIntKeyListCount", "lpGetIntKeyListEntry", "lpGetStrKeyListCount",
    "lpGetStrKeyListEntry", "lpGetIntKeyIntVal", "lpGetStrKeyIntVal", "lpGetIntKeyBoolVal",
    "lpGetStrKeyBoolVal", "lpGetIntKeyFloatVal", "lpGetStrKeyFloatVal", "lpGetIntKeyStrVal",
    "lpGetStrKeyStrVal", "ProcessUnitsNoChecksum", "GetMapInfoEx", "GetMapInfo", "GetInfoValue",
    "GetPrimaryModName", "GetPrimaryModShortName", "GetPrimaryModVersion",
    "GetPrimaryModMutator", "GetPrimaryModGame", "GetPrimaryModShortGame",
    "GetPrimaryModDescription", "OpenArchiveType" }

\* Mutation of SyncMoved: not generated again since the last function.
SyncMovedStale == SyncMoved1 \cup (SyncMoved2 \ {"OpenArchiveType"})

SyncMoved == SyncMoved1 \cup SyncMoved2
=============================================================================
