---------------------------- MODULE UnitsyncApi -----------------------------
(***************************************************************************)
(* The functions of the unitsync library, as its header declares them: name, *)
(* type of the result, types of the parameters.                            *)
(***************************************************************************)
EXTENDS Sequences

\* One function: what it is called, what it returns, what it takes.
F(name, ret, args) == [name |-> name, ret |-> ret, args |-> args]

Api1 == <<
    F("GetNextError", "const char*", <<>>), F("GetSpringVersion", "const char*", <<>>),
    F("GetSpringVersionPatchset", "const char*", <<>>),
    F("IsSpringReleaseVersion", "bool", <<>>), F("Init", "int", <<"bool", "int">>),
    F("UnInit", "void", <<>>), F("GetWritableDataDirectory", "const char*", <<>>),
    F("GetDataDirectoryCount", "int", <<>>), F("GetDataDirectory", "const char*", <<"int">>),
    F("ProcessUnits", "int", <<>>) >>

Api2 == <<
    F("GetUnitCount", "int", <<>>), F("GetUnitName", "const char*", <<"int">>),
    F("GetFullUnitName", "const char*", <<"int">>), F("AddArchive", "void", <<"const char*">>),
    F("AddAllArchives", "void", <<"const char*">>), F("RemoveAllArchives", "void", <<>>),
    F("GetArchiveChecksum", "unsigned int", <<"const char*">>),
    F("GetArchivePath", "const char*", <<"const char*">>), F("GetMapCount", "int", <<>>),
    F("GetMapName", "const char*", <<"int">>), F("GetMapFileName", "const char*", <<"int">>),
    F("GetMapDescription", "const char*", <<"int">>),
    F("GetMapAuthor", "const char*", <<"int">>), F("GetMapWidth", "int", <<"int">>),
    F("GetMapHeight", "int", <<"int">>), F("GetMapTidalStrength", "int", <<"int">>),
    F("GetMapWindMin", "int", <<"int">>), F("GetMapWindMax", "int", <<"int">>) >>

Api3 == <<
    F("GetMapGravity", "int", <<"int">>), F("GetMapResourceCount", "int", <<"int">>),
    F("GetMapResourceName", "const char*", <<"int", "int">>),
    F("GetMapResourceMax", "float", <<"int", "int">>),
    F("GetMapResourceExtractorRadius", "int", <<"int", "int">>),
    F("GetMapPosCount", "int", <<"int">>), F("GetMapPosX", "float", <<"int", "int">>),
    F("GetMapPosZ", "float", <<"int", "int">>), F("GetMapMinHeight", "float", <<"const char*">>),
    F("GetMapMaxHeight", "float", <<"const char*">>),
    F("GetMapArchiveCount", "int", <<"const char*">>),
    F("GetMapArchiveName", "const char*", <<"int">>),
    F("GetMapChecksum", "unsigned int", <<"int">>),
    F("GetMapChecksumFromName", "unsigned int", <<"const char*">>),
    F("GetMinimap", "unsigned short*", <<"const char*", "int">>),
    F("GetInfoMapSize", "int", <<"const char*", "const char*", "int*", "int*">>),
    F("GetInfoMap", "int", <<"const char*", "const char*", "unsigned char*", "int">>) >>

Api4 == <<
    F("GetSkirmishAICount", "int", <<>>), F("GetSkirmishAIInfoCount", "int", <<"int">>),
    F("GetInfoKey", "const char*", <<"int">>), F("GetInfoType", "const char*", <<"int">>),
    F("GetInfoValueString", "const char*", <<"int">>),
    F("GetInfoValueInteger", "int", <<"int">>), F("GetInfoValueFloat", "float", <<"int">>),
    F("GetInfoValueBool", "bool", <<"int">>), F("GetInfoDescription", "const char*", <<"int">>),
    F("GetSkirmishAIOptionCount", "int", <<"int">>), F("GetPrimaryModCount", "int", <<>>),
    F("GetPrimaryModInfoCount", "int", <<"int">>),
    F("GetPrimaryModArchive", "const char*", <<"int">>) >>

Api5 == <<
    F("GetPrimaryModArchiveCount", "int", <<"int">>),
    F("GetPrimaryModArchiveList", "const char*", <<"int">>),
    F("GetPrimaryModIndex", "int", <<"const char*">>),
    F("GetPrimaryModChecksum", "unsigned int", <<"int">>),
    F("GetPrimaryModChecksumFromName", "unsigned int", <<"const char*">>),
    F("GetSideCount", "int", <<>>), F("GetSideName", "const char*", <<"int">>),
    F("GetSideStartUnit", "const char*", <<"int">>),
    F("GetMapOptionCount", "int", <<"const char*">>), F("GetModOptionCount", "int", <<>>),
    F("GetCustomOptionCount", "int", <<"const char*">>),
    F("GetOptionKey", "const char*", <<"int">>), F("GetOptionScope", "const char*", <<"int">>),
    F("GetOptionName", "const char*", <<"int">>) >>

Api6 == <<
    F("GetOptionSection", "const char*", <<"int">>),
    F("GetOptionStyle", "const char*", <<"int">>), F("GetOptionDesc", "const char*", <<"int">>),
    F("GetOptionType", "int", <<"int">>), F("GetOptionBoolDef", "int", <<"int">>),
    F("GetOptionNumberDef", "float", <<"int">>), F("GetOptionNumberMin", "float", <<"int">>),
    F("GetOptionNumberMax", "float", <<"int">>), F("GetOptionNumberStep", "float", <<"int">>),
    F("GetOptionStringDef", "const char*", <<"int">>),
    F("GetOptionStringMaxLen", "int", <<"int">>) >>

Api7 == <<
    F("GetOptionListCount", "int", <<"int">>), F("GetOptionListDef", "const char*", <<"int">>),
    F("GetOptionListItemKey", "const char*", <<"int", "int">>),
    F("GetOptionListItemName", "const char*", <<"int", "int">>),
    F("GetOptionListItemDesc", "const char*", <<"int", "int">>),
    F("GetModValidMapCount", "int", <<>>), F("GetModValidMap", "const char*", <<"int">>),
    F("OpenFileVFS", "int", <<"const char*">>), F("CloseFileVFS", "void", <<"int">>),
    F("ReadFileVFS", "int", <<"int", "unsigned char*", "int">>),
    F("FileSizeVFS", "int", <<"int">>), F("InitFindVFS", "int", <<"const char*">>),
    F("InitDirListVFS", "int", <<"const char*", "const char*", "const char*">>) >>

Api8 == <<
    F("InitSubDirsVFS", "int", <<"const char*", "const char*", "const char*">>),
    F("FindFilesVFS", "int", <<"int", "char*", "int">>),
    F("OpenArchive", "int", <<"const char*">>), F("CloseArchive", "void", <<"int">>),
    F("FindFilesArchive", "int", <<"int", "int", "char*", "int*">>),
    F("OpenArchiveFile", "int", <<"int", "const char*">>),
    F("ReadArchiveFile", "int", <<"int", "int", "unsigned char*", "int">>),
    F("CloseArchiveFile", "void", <<"int", "int">>),
    F("SizeArchiveFile", "int", <<"int", "int">>),
    F("SetSpringConfigFile", "void", <<"const char*">>),
    F("GetSpringConfigFile", "const char*", <<>>),
    F("GetSpringConfigString", "const char*", <<"const char*", "const char*">>),
    F("GetSpringConfigInt", "int", <<"const char*", "const int">>),
    F("GetSpringConfigFloat", "float", <<"const char*", "const float">>),
    F("SetSpringConfigString", "void", <<"const char*", "const char*">>),
    F("SetSpringConfigInt", "void", <<"const char*", "const int">>),
    F("SetSpringConfigFloat", "void", <<"const char*", "const float">>),
    F("DeleteSpringConfigKey", "void", <<"const char*">>), F("lpClose", "void", <<>>),
    F("lpOpenFile", "int", <<"const char*", "const char*", "const char*">>),
    F("lpOpenSource", "int", <<"const char*", "const char*">>) >>

Api9 == <<
    F("lpExecute", "int", <<>>), F("lpErrorLog", "const char*", <<>>),
    F("lpAddTableInt", "void", <<"int", "int">>),
    F("lpAddTableStr", "void", <<"const char*", "int">>), F("lpEndTable", "void", <<>>),
    F("lpAddIntKeyIntVal", "void", <<"int", "int">>),
    F("lpAddStrKeyIntVal", "void", <<"const char*", "int">>),
    F("lpAddIntKeyBoolVal", "void", <<"int", "int">>),
    F("lpAddStrKeyBoolVal", "void", <<"const char*", "int">>),
    F("lpAddIntKeyFloatVal", "void", <<"int", "float">>),
    F("lpAddStrKeyFloatVal", "void", <<"const char*", "float">>),
    F("lpAddIntKeyStrVal", "void", <<"int", "const char*">>),
    F("lpAddStrKeyStrVal", "void", <<"const char*", "const char*">>),
    F("lpRootTable", "int", <<>>), F("lpRootTableExpr", "int", <<"const char*">>),
    F("lpSubTableInt", "int", <<"int">>), F("lpSubTableStr", "int", <<"const char*">>),
    F("lpSubTableExpr", "int", <<"const char*">>), F("lpPopTable", "void", <<>>),
    F("lpGetKeyExistsInt", "int", <<"int">>), F("lpGetKeyExistsStr", "int", <<"const char*">>),
    F("lpGetIntKeyType", "int", <<"int">>), F("lpGetStrKeyType", "int", <<"const char*">>),
    F("lpGetIntKeyListCount", "int", <<>>), F("lpGetIntKeyListEntry", "int", <<"int">>),
    F("lpGetStrKeyListCount", "int", <<>>), F("lpGetStrKeyListEntry", "const char*", <<"int">>),
    F("lpGetIntKeyIntVal", "int", <<"int", "int">>),
    F("lpGetStrKeyIntVal", "int", <<"const char*", "int">>),
    F("lpGetIntKeyBoolVal", "int", <<"int", "int">>),
    F("lpGetStrKeyBoolVal", "int", <<"const char*", "int">>),
    F("lpGetIntKeyFloatVal", "float", <<"int", "float">>),
    F("lpGetStrKeyFloatVal", "float", <<"const char*", "float">>),
    F("lpGetIntKeyStrVal", "const char*", <<"int", "const char*">>),
    F("lpGetStrKeyStrVal", "const char*", <<"const char*", "const char*">>),
    F("ProcessUnitsNoChecksum", "int", <<>>),
    F("GetMapInfoEx", "int", <<"const char*", "MapInfo*", "int">>),
    F("GetMapInfo", "int", <<"const char*", "MapInfo*">>),
    F("GetInfoValue", "const char*", <<"int">>),
    F("GetPrimaryModName", "const char*", <<"int">>),
    F("GetPrimaryModShortName", "const char*", <<"int">>),
    F("GetPrimaryModVersion", "const char*", <<"int">>),
    F("GetPrimaryModMutator", "const char*", <<"int">>),
    F("GetPrimaryModGame", "const char*", <<"int">>),
    F("GetPrimaryModShortGame", "const char*", <<"int">>),
    F("GetPrimaryModDescription", "const char*", <<"int">>),
    F("OpenArchiveType", "int", <<"const char*", "const char*">>) >>

Api ==
    Api1 \o Api2 \o Api3 \o Api4 \o Api5 \o Api6 \o Api7 \o Api8 \o Api9
=============================================================================
