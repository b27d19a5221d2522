------------------------- MODULE UnitsyncSlotsAsync -------------------------
(***************************************************************************)
(* Slots of the asynchronous handlers, as the wrapper generator wrote them: *)
(* the function whose pointer a slot tests and calls, the type its ResultEvent *)
(* names, the types it takes after the id; and the functions whose pointers *)
(* the constructors set.                                                   *)
(***************************************************************************)
EXTENDS UnitsyncApi

AsyncSlots1 == <<
    F("GetNextError", "const char*", <<>>), F("GetSpringVersion", "const char*", <<>>),
    F("GetSpringVersionPatchset", "const char*", <<>>),
    F("IsSpringReleaseVersion", "bool", <<>>), F("Init", "int", <<"bool", "int">>),
    F("UnInit", "void", <<>>), F("GetWritableDataDirectory", "const char*", <<>>),
    F("GetDataDirectoryCount", "int", <<>>), F("GetDataDirectory", "const char*", <<"int">>),
    F("ProcessUnits", "int", <<>>), F("GetUnitCount", "int", <<>>) >>

AsyncSlots2 == <<
    F("GetUnitName", "const char*", <<"int">>), F("GetFullUnitName", "const char*", <<"int">>),
    F("AddArchive", "void", <<"QString">>), F("AddAllArchives", "void", <<"QString">>),
    F("RemoveAllArchives", "void", <<>>), F("GetArchiveChecksum", "unsigned int", <<"QString">>),
    F("GetArchivePath", "const char*", <<"QString">>), F("GetMapCount", "int", <<>>),
    F("GetMapName", "const char*", <<"int">>), F("GetMapFileName", "const char*", <<"int">>),
    F("GetMapDescription", "const char*", <<"int">>) >>

AsyncSlots3 == <<
    F("GetMapAuthor", "const char*", <<"int">>), F("GetMapWidth", "int", <<"int">>),
    F("GetMapHeight", "int", <<"int">>), F("GetMapTidalStrength", "int", <<"int">>),
    F("GetMapWindMin", "int", <<"int">>), F("GetMapWindMax", "int", <<"int">>),
    F("GetMapGravity", "int", <<"int">>), F("GetMapResourceCount", "int", <<"int">>),
    F("GetMapResourceName", "const char*", <<"int", "int">>),
    F("GetMapResourceMax", "float", <<"int", "int">>),
    F("GetMapResourceExtractorRadius", "int", <<"int", "int">>) >>

AsyncSlots4 == <<
    F("GetMapPosCount", "int", <<"int">>), F("GetMapPosX", "float", <<"int", "int">>),
    F("GetMapPosZ", "float", <<"int", "int">>), F("GetMapMinHeight", "float", <<"QString">>),
    F("GetMapMaxHeight", "float", <<"QString">>), F("GetMapArchiveCount", "int", <<"QString">>),
    F("GetMapArchiveName", "const char*", <<"int">>),
    F("GetMapChecksum", "unsigned int", <<"int">>),
    F("GetMapChecksumFromName", "unsigned int", <<"QString">>),
    F("GetSkirmishAICount", "int", <<>>), F("GetSkirmishAIInfoCount", "int", <<"int">>) >>

AsyncSlots5 == <<
    F("GetInfoKey", "const char*", <<"int">>), F("GetInfoType", "const char*", <<"int">>),
    F("GetInfoValueString", "const char*", <<"int">>),
    F("GetInfoValueInteger", "int", <<"int">>), F("GetInfoValueFloat", "float", <<"int">>),
    F("GetInfoValueBool", "bool", <<"int">>), F("GetInfoDescription", "const char*", <<"int">>),
    F("GetSkirmishAIOptionCount", "int", <<"int">>), F("GetPrimaryModCount", "int", <<>>),
    F("GetPrimaryModInfoCount", "int", <<"int">>),
    F("GetPrimaryModArchive", "const char*", <<"int">>) >>

AsyncSlots6 == <<
    F("GetPrimaryModArchiveCount", "int", <<"int">>),
    F("GetPrimaryModArchiveList", "const char*", <<"int">>),
    F("GetPrimaryModIndex", "int", <<"QString">>),
    F("GetPrimaryModChecksum", "unsigned int", <<"int">>),
    F("GetPrimaryModChecksumFromName", "unsigned int", <<"QString">>),
    F("GetSideCount", "int", <<>>), F("GetSideName", "const char*", <<"int">>),
    F("GetSideStartUnit", "const char*", <<"int">>),
    F("GetMapOptionCount", "int", <<"QString">>), F("GetModOptionCount", "int", <<>>),
    F("GetCustomOptionCount", "int", <<"QString">>) >>

AsyncSlots7 == <<
    F("GetOptionKey", "const char*", <<"int">>), F("GetOptionScope", "const char*", <<"int">>),
    F("GetOptionName", "const char*", <<"int">>),
    F("GetOptionSection", "const char*", <<"int">>),
    F("GetOptionStyle", "const char*", <<"int">>), F("GetOptionDesc", "const char*", <<"int">>),
    F("GetOptionType", "int", <<"int">>), F("GetOptionBoolDef", "int", <<"int">>),
    F("GetOptionNumberDef", "float", <<"int">>), F("GetOptionNumberMin", "float", <<"int">>),
    F("GetOptionNumberMax", "float", <<"int">>) >>

AsyncSlots8 == <<
    F("GetOptionNumberStep", "float", <<"int">>),
    F("GetOptionStringDef", "const char*", <<"int">>),
    F("GetOptionStringMaxLen", "int", <<"int">>), F("GetOptionListCount", "int", <<"int">>),
    F("GetOptionListDef", "const char*", <<"int">>),
    F("GetOptionListItemKey", "const char*", <<"int", "int">>),
    F("GetOptionListItemName", "const char*", <<"int", "int">>),
    F("GetOptionListItemDesc", "const char*", <<"int", "int">>),
    F("GetModValidMapCount", "int", <<>>), F("GetModValidMap", "const char*", <<"int">>),
    F("OpenFileVFS", "int", <<"QString">>) >>

AsyncSlots9 == <<
    F("CloseFileVFS", "void", <<"int">>), F("FileSizeVFS", "int", <<"int">>),
    F("InitFindVFS", "int", <<"QString">>),
    F("InitDirListVFS", "int", <<"QString", "QString", "QString">>),
    F("InitSubDirsVFS", "int", <<"QString", "QString", "QString">>),
    F("OpenArchive", "int", <<"QString">>), F("CloseArchive", "void", <<"int">>),
    F("OpenArchiveFile", "int", <<"int", "QString">>),
    F("CloseArchiveFile", "void", <<"int", "int">>),
    F("SizeArchiveFile", "int", <<"int", "int">>),
    F("SetSpringConfigFile", "void", <<"QString">>) >>

AsyncSlots10 == <<
    F("GetSpringConfigFile", "const char*", <<>>),
    F("GetSpringConfigString", "const char*", <<"QString", "QString">>),
    F("GetSpringConfigInt", "int", <<"QString", "int">>),
    F("GetSpringConfigFloat", "float", <<"QString", "float">>),
    F("SetSpringConfigString", "void", <<"QString", "QString">>),
    F("SetSpringConfigInt", "void", <<"QString", "int">>),
    F("SetSpringConfigFloat", "void", <<"QString", "float">>),
    F("DeleteSpringConfigKey", "void", <<"QString">>), F("lpClose", "void", <<>>),
    F("lpOpenFile", "int", <<"QString", "QString", "QString">>),
    F("lpOpenSource", "int", <<"QString", "QString">>) >>

AsyncSlots11 == <<
    F("lpExecute", "int", <<>>), F("lpErrorLog", "const char*", <<>>),
    F("lpAddTableInt", "void", <<"int", "int">>),
    F("lpAddTableStr", "void", <<"QString", "int">>), F("lpEndTable", "void", <<>>),
    F("lpAddIntKeyIntVal", "void", <<"int", "int">>),
    F("lpAddStrKeyIntVal", "void", <<"QString", "int">>),
    F("lpAddIntKeyBoolVal", "void", <<"int", "int">>),
    F("lpAddStrKeyBoolVal", "void", <<"QString", "int">>),
    F("lpAddIntKeyFloatVal", "void", <<"int", "float">>),
    F("lpAddStrKeyFloatVal", "void", <<"QString", "float">>) >>

AsyncSlots12 == <<
    F("lpAddIntKeyStrVal", "void", <<"int", "QString">>),
    F("lpAddStrKeyStrVal", "void", <<"QString", "QString">>), F("lpRootTable", "int", <<>>),
    F("lpRootTableExpr", "int", <<"QString">>), F("lpSubTableInt", "int", <<"int">>),
    F("lpSubTableStr", "int", <<"QString">>), F("lpSubTableExpr", "int", <<"QString">>),
    F("lpPopTable", "void", <<>>), F("lpGetKeyExistsInt", "int", <<"int">>),
    F("lpGetKeyExistsStr", "int", <<"QString">>), F("lpGetIntKeyType", "int", <<"int">>) >>

AsyncSlots13 == <<
    F("lpGetStrKeyType", "int", <<"QString">>), F("lpGetIntKeyListCount", "int", <<>>),
    F("lpGetIntKeyListEntry", "int", <<"int">>), F("lpGetStrKeyListCount", "int", <<>>),
    F("lpGetStrKeyListEntry", "const char*", <<"int">>),
    F("lpGetIntKeyIntVal", "int", <<"int", "int">>),
    F("lpGetStrKeyIntVal", "int", <<"QString", "int">>),
    F("lpGetIntKeyBoolVal", "int", <<"int", "int">>),
    F("lpGetStrKeyBoolVal", "int", <<"QString", "int">>),
    F("lpGetIntKeyFloatVal", "float", <<"int", "float">>),
    F("lpGetStrKeyFloatVal", "float", <<"QString", "float">>) >>

AsyncSlots14 == <<
    F("lpGetIntKeyStrVal", "const char*", <<"int", "QString">>),
    F("lpGetStrKeyStrVal", "const char*", <<"QString", "QString">>),
    F("ProcessUnitsNoChecksum", "int", <<>>), F("GetInfoValue", "const char*", <<"int">>),
    F("GetPrimaryModName", "const char*", <<"int">>),
    F("GetPrimaryModShortName", "const char*", <<"int">>),
    F("GetPrimaryModVersion", "const char*", <<"int">>),
    F("GetPrimaryModMutator", "const char*", <<"int">>),
    F("GetPrimaryModGame", "const char*", <<"int">>),
    F("GetPrimaryModShortGame", "const char*", <<"int">>),
    F("GetPrimaryModDescription", "const char*", <<"int">>) >>

AsyncSlots15 == <<
    F("OpenArchiveType", "int", <<"QString", "QString">>) >>

AsyncSlots ==
    AsyncSlots1 \o AsyncSlots2 \o AsyncSlots3 \o AsyncSlots4 \o AsyncSlots5 \o AsyncSlots6 \o AsyncSlots7
      \o AsyncSlots8 \o AsyncSlots9 \o AsyncSlots10 \o AsyncSlots11 \o AsyncSlots12 \o AsyncSlots13 \o AsyncSlots14 \o AsyncSlots15

\* The pointers set from the library on Unix, on Windows, and from another
\* handler when it is moved.
AsyncUnix1 == {
    "GetNextError", "GetSpringVersion", "GetSpringVersionPatchset", "IsSpringReleaseVersion",
    "Init", "UnInit", "GetWritableDataDirectory", "GetDataDirectoryCount", "GetDataDirectory",
    "ProcessUnits", "GetUnitCount", "GetUnitName", "GetFullUnitName", "AddArchive",
    "AddAllArchives", "RemoveAllArchives", "GetArchiveChecksum", "GetArchivePath", "GetMapCount",
    "GetMapName", "GetMapFileName", "GetMapDescription", "GetMapAuthor", "GetMapWidth",
    "GetMapHeight", "GetMapTidalStrength", "GetMapWindMin", "GetMapWindMax", "GetMapGravity",
    "GetMapResourceCount", "GetMapResourceName", "GetMapResourceMax",
    "GetMapResourceExtractorRadius", "GetMapPosCount", "GetMapPosX", "GetMapPosZ",
    "GetMapMinHeight", "GetMapMaxHeight", "GetMapArchiveCount", "GetMapArchiveName",
    "GetMapChecksum", "GetMapChecksumFromName", "GetMinimap", "GetInfoMapSize", "GetInfoMap",
    "GetSkirmishAICount", "GetSkirmishAIInfoCount", "GetInfoKey", "GetInfoType",
    "GetInfoValueString", "GetInfoValueInteger", "GetInfoValueFloat", "GetInfoValueBool",
    "GetInfoDescription", "GetSkirmishAIOptionCount", "GetPrimaryModCount",
    "GetPrimaryModInfoCount", "GetPrimaryModArchive", "GetPrimaryModArchiveCount",
    "GetPrimaryModArchiveList", "GetPrimaryModIndex", "GetPrimaryModChecksum",
    "GetPrimaryModChecksumFromName", "GetSideCount", "GetSideName", "GetSideStartUnit",
    "GetMapOptionCount", "GetModOptionCount", "GetCustomOptionCount", "GetOptionKey",
    "GetOptionScope", "GetOptionName", "GetOptionSection", "GetOptionStyle", "GetOptionDesc",
    "GetOptionType", "GetOptionBoolDef", "GetOptionNumberDef", "GetOptionNumberMin",
    "GetOptionNumberMax", "GetOptionNumberStep", "GetOptionStringDef" }

AsyncUnix2 == {
    "GetOptionStringMaxLen", "GetOptionListCount", "GetOptionListDef", "GetOptionListItemKey",
    "GetOptionListItemName", "GetOptionListItemDesc", "GetModValidMapCount", "GetModValidMap",
    "OpenFileVFS", "CloseFileVFS", "ReadFileVFS", "FileSizeVFS", "InitFindVFS", "InitDirListVFS",
    "InitSubDirsVFS", "FindFilesVFS", "OpenArchive", "CloseArchive", "FindFilesArchive",
    "OpenArchiveFile", "ReadArchiveFile", "CloseArchiveFile", "SizeArchiveFile",
    "SetSpringConfigFile", "GetSpringConfigFile", "GetSpringConfigString", "GetSpringConfigInt",
    "GetSpringConfigFloat", "SetSpringConfigString", "SetSpringConfigInt",
    "SetSpringConfigFloat", "DeleteSpringConfigKey", "lpClose", "lpOpenFile", "lpOpenSource",
    "lpExecute", "lpErrorLog", "lpAddTableInt", "lpAddTableStr", "lpEndTable",
    "lpAddIntKeyIntVal", "lpAddStrKeyIntVal", "lpAddIntKeyBoolVal", "lpAddStrKeyBoolVal",
    "lpAddIntKeyFloatVal", "lpAddStrKeyFloatVal", "lpAddIntKeyStrVal", "lpAddStrKeyStrVal",
    "lpRootTable", "lpRootTableExpr", "lpSubTableInt", "lpSubTableStr", "lpSubTableExpr",
    "lpPopTable", "lpGetKeyExistsInt", "lpGetKeyExistsStr", "lpGetIntKeyType", "lpGetStrKeyType",
    "lpGetIntKeyListCount", "lpGetIntKeyListEntry", "lpGetStrKeyListCount",
    "lpGetStrKeyListEntry", "lpGetIntKeyIntVal", "lpGetStrKeyIntVal", "lpGetIntKeyBoolVal",
    "lpGetStrKeyBoolVal", "lpGetIntKeyFloatVal", "lpGetStrKeyFloatVal", "lpGetIntKeyStrVal",
    "lpGetStrKeyStrVal", "ProcessUnitsNoChecksum", "GetMapInfoEx", "GetMapInfo", "GetInfoValue",
    "GetPrimaryModName", "GetPrimaryModShortName", "GetPrimaryModVersion",
    "GetPrimaryModMutator", "GetPrimaryModGame", "GetPrimaryModShortGame",
    "GetPrimaryModDescription", "OpenArchiveType" }

AsyncUnix == AsyncUnix1 \cup AsyncUnix2

AsyncWindows1 == {
    "GetNextError", "GetSpringVersion", "GetSpringVersionPatchset", "IsSpringReleaseVersion",
    "Init", "UnInit", "GetWritableDataDirectory", "GetDataDirectoryCount", "GetDataDirectory",
    "ProcessUnits", "GetUnitCount", "GetUnitName", "GetFullUnitName", "AddArchive",
    "AddAllArchives", "RemoveAllArchives", "GetArchiveChecksum", "GetArchivePath", "GetMapCount",
    "GetMapName", "GetMapFileName", "GetMapDescription", "GetMapAuthor", "GetMapWidth",
    "GetMapHeight", "GetMapTidalStrength", "GetMapWindMin", "GetMapWindMax", "GetMapGravity",
    "GetMapResourceCount", "GetMapResourceName", "GetMapResourceMax",
    "GetMapResourceExtractorRadius", "GetMapPosCount", "GetMapPosX", "GetMapPosZ",
    "GetMapMinHeight", "GetMapMaxHeight", "GetMapArchiveCount", "GetMapArchiveName",
    "GetMapChecksum", "GetMapChecksumFromName", "GetMinimap", "GetInfoMapSize", "GetInfoMap",
    "GetSkirmishAICount", "GetSkirmishAIInfoCount", "GetInfoKey", "GetInfoType",
    "GetInfoValueString", "GetInfoValueInteger", "GetInfoValueFloat", "GetInfoValueBool",
    "GetInfoDescription", "GetSkirmishAIOptionCount", "GetPrimaryModCount",
    "GetPrimaryModInfoCount", "GetPrimaryModArchive", "GetPrimaryModArchiveCount",
    "GetPrimaryModArchiveList", "GetPrimaryModIndex", "GetPrimaryModChecksum",
    "GetPrimaryModChecksumFromName", "GetSideCount", "GetSideName", "GetSideStartUnit",
    "GetMapOptionCount", "GetModOptionCount", "GetCustomOptionCount", "GetOptionKey",
    "GetOptionScope", "GetOptionName", "GetOptionSection", "GetOptionStyle", "GetOptionDesc",
    "GetOptionType", "GetOptionBoolDef", "GetOptionNumberDef", "GetOptionNumberMin",
    "GetOptionNumberMax", "GetOptionNumberStep", "GetOptionStringDef" }

AsyncWindows2 == {
    "GetOptionStringMaxLen", "GetOptionListCount", "GetOptionListDef", "GetOptionListItemKey",
    "GetOptionListItemName", "GetOptionListItemDesc", "GetModValidMapCount", "GetModValidMap",
    "OpenFileVFS", "CloseFileVFS", "ReadFileVFS", "FileSizeVFS", "InitFindVFS", "InitDirListVFS",
    "InitSubDirsVFS", "FindFilesVFS", "OpenArchive", "CloseArchive", "FindFilesArchive",
    "OpenArchiveFile", "ReadArchiveFile", "CloseArchiveFile", "SizeArchiveFile",
    "SetSpringConfigFile", "GetSpringConfigFile", "GetSpringConfigString", "GetSpringConfigInt",
    "GetSpringConfigFloat", "SetSpringConfigString", "SetSpringConfigInt",
    "SetSpringConfigFloat", "DeleteSpringConfigKey", "lpClose", "lpOpenFile", "lpOpenSource",
    "lpExecute", "lpErrorLog", "lpAddTableInt", "lpAddTableStr", "lpEndTable",
    "lpAddIntKeyIntVal", "lpAddStrKeyIntVal", "lpAddIntKeyBoolVal", "lpAddStrKeyBoolVal",
    "lpAddIntKeyFloatVal", "lpAddStrKeyFloatVal", "lpAddIntKeyStrVal", "lpAddStrKeyStrVal",
    "lpRootTable", "lpRootTableExpr", "lpSubTableInt", "lpSubTableStr", "lpSubTableExpr",
    "lpPopTable", "lpGetKeyExistsInt", "lpGetKeyExistsStr", "lpGetIntKeyType", "lpGetStrKeyType",
    "lpGetIntKeyListCount", "lpGetIntKeyListEntry", "lpGetStrKeyListCount",
    "lpGetStrKeyListEntry", "lpGetIntKeyIntVal", "lpGetStrKeyIntVal", "lpGetIntKeyBoolVal",
    "lpGetStrKeyBoolVal", "lpGetIntKeyFloatVal", "lpGetStrKeyFloatVal", "lpGetIntKeyStrVal",
    "lpGetStrKeyStrVal", "ProcessUnitsNoChecksum", "GetMapInfoEx", "GetMapInfo", "GetInfoValue",
    "GetPrimaryModName", "GetPrimaryModShortName", "GetPrimaryModVersion",
    "GetPrimaryModMutator", "GetPrimaryModGame", "GetPrimaryModShortGame",
    "GetPrimaryModDescription", "OpenArchiveType" }

AsyncWindows == AsyncWindows1 \cup AsyncWindows2

AsyncMoved1 == {
    "GetNextError", "GetSpringVersion", "GetSpringVersionPatchset", "IsSpringReleaseVersion",
    "Init", "UnInit", "GetWritableDataDirectory", "GetDataDirectoryCount", "GetDataDirectory",
    "ProcessUnits", "GetUnitCount", "GetUnitName", "GetFullUnitName", "AddArchive",
    "AddAllArchives", "RemoveAllArchives", "GetArchiveChecksum", "GetArchivePath", "GetMapCount",
    "GetMapName", "GetMapFileName", "GetMapDescription", "GetMapAuthor", "GetMapWidth",
    "GetMapHeight", "GetMapTidalStrength", "GetMapWindMin", "GetMapWindMax", "GetMapGravity",
    "GetMapResourceCount", "GetMapResourceName", "GetMapResourceMax",
    "GetMapResourceExtractorRadius", "GetMapPosCount", "GetMapPosX", "GetMapPosZ",
    "GetMapMinHeight", "GetMapMaxHeight", "GetMapArchiveCount", "GetMapArchiveName",
    "GetMapChecksum", "GetMapChecksumFromName", "GetMinimap", "GetInfoMapSize", "GetInfoMap",
    "GetSkirmishAICount", "GetSkirmishAIInfoCount", "GetInfoKey", "GetInfoType",
    "GetInfoValueString", "GetInfoValueInteger", "GetInfoValueFloat", "GetInfoValueBool",
    "GetInfoDescription", "GetSkirmishAIOptionCount", "GetPrimaryModCount",
    "GetPrimaryModInfoCount", "GetPrimaryModArchive", "GetPrimaryModArchiveCount",
    "GetPrimaryModArchiveList", "GetPrimaryModIndex", "GetPrimaryModChecksum",
    "GetPrimaryModChecksumFromName", "GetSideCount", "GetSideName", "GetSideStartUnit",
    "GetMapOptionCount", "GetModOptionCount", "GetCustomOptionCount", "GetOptionKey",
    "GetOptionScope", "GetOptionName", "GetOptionSection", "GetOptionStyle", "GetOptionDesc",
    "GetOptionType", "GetOptionBoolDef", "GetOptionNumberDef", "GetOptionNumberMin",
    "GetOptionNumberMax", "GetOptionNumberStep", "GetOptionStringDef" }

AsyncMoved2 == {
    "GetOptionStringMaxLen", "GetOptionListCount", "GetOptionListDef", "GetOptionListItemKey",
    "GetOptionListItemName", "GetOptionListItemDesc", "GetModValidMapCount", "GetModValidMap",
    "OpenFileVFS", "CloseFileVFS", "ReadFileVFS", "FileSizeVFS", "InitFindVFS", "InitDirListVFS",
    "InitSubDirsVFS", "FindFilesVFS", "OpenArchive", "CloseArchive", "FindFilesArchive",
    "OpenArchiveFile", "ReadArchiveFile", "CloseArchiveFile", "SizeArchiveFile",
    "SetSpringConfigFile", "GetSpringConfigFile", "GetSpringConfigString", "GetSpringConfigInt",
    "GetSpringConfigFloat", "SetSpringConfigString", "SetSpringConfigInt",
    "SetSpringConfigFloat", "DeleteSpringConfigKey", "lpClose", "lpOpenFile", "lpOpenSource",
    "lpExecute", "lpErrorLog", "lpAddTableInt", "lpAddTableStr", "lpEndTable",
    "lpAddIntKeyIntVal", "lpAddStrKeyIntVal", "lpAddIntKeyBoolVal", "lpAddStrKeyBoolVal",
    "lpAddIntKeyFloatVal", "lpAddStrKeyFloatVal", "lpAddIntKeyStrVal", "lpAddStrKeyStrVal",
    "lpRootTable", "lpRootTableExpr", "lpSubTableInt", "lpSubTableStr", "lpSubTableExpr",
    "lpPopTable", "lpGetKeyExistsInt", "lpGetKeyExistsStr", "lpGetIntKeyType", "lpGetStrKeyType",
    "lpGetIntKeyListCount", "lpGetIntKeyListEntry", "lpGetStrKeyListCount",
    "lpGetStrKeyListEntry", "lpGetIntKeyIntVal", "lpGetStrKeyIntVal", "lpGetIntKeyBoolVal",
    "lpGetStrKeyBoolVal", "lpGetIntKeyFloatVal", "lpGetStrKeyFloatVal", "lpGetIntKeyStrVal",
    "lpGetStrKeyStrVal", "ProcessUnitsNoChecksum", "GetMapInfoEx", "GetMapInfo", "GetInfoValue",
    "GetPrimaryModName", "GetPrimaryModShortName", "GetPrimaryModVersion",
    "GetPrimaryModMutator", "GetPrimaryModGame", "GetPrimaryModShortGame",
    "GetPrimaryModDescription", "OpenArchiveType" }

AsyncMoved == AsyncMoved1 \cup AsyncMoved2
=============================================================================
