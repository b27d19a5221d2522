----------------------------- MODULE SpringHome -----------------------------
(***************************************************************************)
(* init(), which every page calls when it has been loaded: the setting in  *)
(* the file swlrc is read and written back, the data folders are created,  *)
(* and the prepackaged data are moved to where Spring looks for them.  The *)
(* program may die at every step and is then started again; what it asks   *)
(* of the file system may fail, now and then or always.                    *)
(*                                                                         *)
(* A setting is named by the folder it stands for.  The prepackaged data   *)
(* are a tree of Paths; of a file it matters whose contents it has.        *)
(***************************************************************************)
EXTENDS Integers, Sequences

CONSTANTS Homes,         \* the folders a setting can stand for
          Default,       \* the one an empty setting stands for
          Paths, Parent, \* the tree, the parent of each of its nodes
          Root,          \* the folder given with -prepackaged-data
          Packages,      \* what the nodes can be in it
          Present,       \* what may lie in a home before
          MaxCrashes, MaxFaults, MaxInits, MaxWrites \* bounds

SourceKinds == {"none", "file", "dir", "special"}
TargetKinds == {"none", "dir", "old", "torn", "new"}

ASSUME SpringHomeAssumption ==
    /\ Default \in Homes
    /\ Root \notin Paths
    /\ Parent \in [Paths -> Paths \cup {Root}]
    /\ Packages \subseteq [Paths -> SourceKinds]
    /\ Present \subseteq [Paths -> {"none", "dir", "old"}]
    /\ {MaxCrashes, MaxFaults, MaxInits, MaxWrites} \subseteq Nat

\* What is in the package lies in its directories, none of which is in itself.
ASSUME TreeAssumption ==
    /\ \A k \in Packages, p \in Paths :
          k[p] # "none" => Parent[p] = Root \/ k[Parent[p]] = "dir"
    /\ \A T \in SUBSET Paths : T # {} => \E p \in T : Parent[p] \notin T

VARIABLES
    writable, \* swlrc can be written where the program is installed
    locked,   \* nothing can be renamed or removed in the package, a read-only medium
    package,  \* history: the prepackaged data at first
    step,     \* where the GUI thread is, "off" if the program does not run
    after,    \* where it goes on after the setting has been written
    swlrc,    \* the setting in it, "" if it has no such line
    setting,  \* springHomeSetting
    home,     \* springHome
    src, dst, \* what is left of them, and each home
    stack,    \* the directories move() is in
    seen,     \* what the iterators have returned
    moving,   \* the file that is copied
    inits,    \* how often this process has called init()
    wanted,   \* history: the setting the page last opened swlrc for
    lost,     \* history: since then the program has died before swlrc was
              \* written, or it could not be written or read
    spoiled,  \* history: files whose copy failed
    crashes, faults, writes

envVars  == <<writable, locked, package>>
confVars == <<swlrc, setting, home>>
dataVars == <<src, dst>>
moveVars == <<stack, seen, moving>>
histVars == <<wanted, lost, spoiled>>
counters == <<crashes, faults, writes>>
vars     == <<envVars, step, after, confVars, dataVars, moveVars, inits, histVars, counters>>

Unset    == "" \* no setting
Settings == Homes \cup {Unset}

TypeOK ==
    /\ step \in {"off", "idle", "flush", "folders", "move", "truncate", "write", "remove"}
    /\ after \in {"idle", "folders"}
    /\ writable \in BOOLEAN /\ locked \in BOOLEAN /\ lost \in BOOLEAN
    /\ swlrc \in Settings /\ setting \in Settings /\ wanted \in Settings
    /\ home \in Homes
    /\ package \in [Paths -> SourceKinds] /\ src \in [Paths -> SourceKinds]
    /\ dst \in [Homes -> [Paths -> TargetKinds]]
    /\ stack \in Seq(Paths \cup {Root})
    /\ seen \subseteq Paths /\ spoiled \subseteq Paths
    /\ moving \in Paths \cup {Root}
    /\ inits \in 0..MaxInits
    /\ crashes \in 0..MaxCrashes /\ faults \in 0..MaxFaults /\ writes \in 0..MaxWrites

Init ==
    /\ writable \in BOOLEAN /\ locked \in BOOLEAN
    /\ package \in Packages
    /\ step = "off" /\ after = "idle"
    /\ swlrc \in Settings /\ wanted = swlrc
    /\ setting = Unset /\ home = Default
    /\ src = package /\ dst \in [Homes -> Present]
    /\ stack = <<>> /\ seen = {} /\ moving = Root
    /\ inits = 0
    /\ lost = FALSE /\ spoiled = {}
    /\ crashes = 0 /\ faults = 0 /\ writes = 0

Top == stack[Len(stack)]
Children(d) == {p \in Paths : Parent[p] = d /\ src[p] # "none"}
Unseen == Children(Top) \ seen

Goto(s) == step' = s

\* A call of the file system fails that might have succeeded.
Fault == faults < MaxFaults /\ faults' = faults + 1 /\ UNCHANGED <<crashes, writes>>

-----------------------------------------------------------------------------
(* The process.                                                            *)

Start ==
    /\ step = "off"
    /\ Goto("idle")
    /\ setting' = Unset /\ home' = Default
    /\ inits' = 0
    /\ UNCHANGED <<envVars, after, swlrc, dataVars, moveVars, histVars, counters>>

\* A crash, or an end between two calls; what is on disk stays.
Die ==
    /\ step # "off" /\ crashes < MaxCrashes
    /\ crashes' = crashes + 1
    /\ Goto("off")
    /\ lost' = (lost \/ step = "flush")
    /\ stack' = <<>> /\ seen' = {} /\ moving' = Root
    /\ UNCHANGED <<envVars, after, confVars, dataVars, inits, wanted, spoiled, faults, writes>>

-----------------------------------------------------------------------------
(* The setting.                                                            *)

\* Opening swlrc empties it.
WriteSetting(s, next) ==
    /\ writable
    /\ setting' = s
    /\ swlrc' = Unset
    /\ after' = next
    /\ Goto("flush")

\* If it cannot be opened nobody is told.
WriteNothing(s, next) ==
    /\ setting' = s
    /\ Goto(next)
    /\ UNCHANGED <<swlrc, after>>

\* The slot.
WriteSpringHomeSetting(s) ==
    /\ step = "idle" /\ writes < MaxWrites
    /\ WriteSetting(s, "idle")
    /\ writes' = writes + 1
    /\ wanted' = s /\ lost' = FALSE
    /\ UNCHANGED <<envVars, home, dataVars, moveVars, inits, spoiled, crashes, faults>>

WriteSpringHomeFails(s) ==
    /\ step = "idle" /\ writes < MaxWrites
    /\ WriteNothing(s, "idle")
    /\ writes' = writes + 1
    /\ IF writable THEN faults < MaxFaults /\ faults' = faults + 1 ELSE UNCHANGED faults
    /\ UNCHANGED <<envVars, home, dataVars, moveVars, inits, histVars, crashes>>

\* init() starts with writeSpringHomeSetting(readSpringHomeSetting()).
InitReads ==
    /\ step = "idle" /\ inits < MaxInits
    /\ inits' = inits + 1
    /\ IF writable THEN WriteSetting(swlrc, "folders") ELSE WriteNothing(swlrc, "folders")
    /\ UNCHANGED <<envVars, home, dataVars, moveVars, histVars, counters>>

\* swlrc cannot be opened for reading, or its line read or converted, which is
\* caught: no setting, and that is written back.  Or it cannot be opened for writing.
InitReadFails ==
    /\ step = "idle" /\ inits < MaxInits
    /\ Fault
    /\ inits' = inits + 1
    /\ \/ /\ WriteSetting(Unset, "folders")
          /\ lost' = TRUE
       \/ /\ \E s \in {Unset, swlrc} : WriteNothing(s, "folders")
          /\ UNCHANGED lost
    /\ UNCHANGED <<envVars, home, dataVars, moveVars, wanted, spoiled>>

\* Mutation of Flush: init() writes the setting of the folder in use.
FlushHome ==
    /\ step = "flush"
    /\ swlrc' = IF after = "folders" THEN home ELSE setting
    /\ Goto(after)
    /\ UNCHANGED <<envVars, after, setting, home, dataVars, moveVars, inits, histVars, counters>>

\* std::endl writes the line.
Flush ==
    /\ step = "flush"
    /\ swlrc' = setting
    /\ Goto(after)
    /\ UNCHANGED <<envVars, after, setting, home, dataVars, moveVars, inits, histVars, counters>>

\* The disk is full: swlrc stays empty, and nobody is told.
FlushFails ==
    /\ step = "flush"
    /\ Fault
    /\ lost' = TRUE
    /\ Goto(after)
    /\ UNCHANGED <<envVars, after, confVars, dataVars, moveVars, inits, wanted, spoiled>>

-----------------------------------------------------------------------------
(* The rest of init().                                                     *)

NewHome == home' = IF setting = Unset THEN Default ELSE setting

\* Mutation of Folders: the data are looked for where they are moved to.
FoldersTarget ==
    /\ step = "folders"
    /\ NewHome
    /\ Goto("move") /\ stack' = <<home'>>
    /\ UNCHANGED <<envVars, after, swlrc, setting, dataVars, seen, moving, inits, histVars,
                   counters>>

Folders ==
    /\ step = "folders"
    /\ NewHome
    /\ Goto("move") /\ stack' = <<Root>>
    /\ UNCHANGED <<envVars, after, swlrc, setting, dataVars, seen, moving, inits, histVars,
                   counters>>

\* A file system error is caught in init(), and logged.
Leave == Goto("idle") /\ stack' = <<>> /\ seen' = {} /\ moving' = Root

FoldersFail ==
    /\ step = "folders"
    /\ Fault
    /\ NewHome
    /\ Leave
    /\ UNCHANGED <<envVars, after, swlrc, setting, dataVars, inits, histVars>>

\* rename() replaces what is there, except a directory.
Rename(p) ==
    /\ src[p] = "file" /\ dst[home][p] # "dir" /\ ~ locked
    /\ dst' = [dst EXCEPT ![home][p] = "new"]
    /\ src' = [src EXCEPT ![p] = "none"]
    /\ seen' = seen \cup {p}
    /\ UNCHANGED <<envVars, step, after, confVars, stack, moving, inits, histVars, counters>>

\* ... or fails, across file systems, at a directory or because it may not
\* take the file away: then it is copied.
RenameFails(p) ==
    /\ src[p] = "file"
    /\ Goto("truncate")
    /\ moving' = p /\ seen' = seen \cup {p}
    /\ UNCHANGED <<envVars, after, confVars, dataVars, stack, inits, histVars, counters>>

\* Mutation of Enter: create_directory(), for which there must be none yet.
EnterNew(p) ==
    /\ src[p] = "dir" /\ dst[home][p] \in {"none", "dir"}
    /\ IF dst[home][p] = "none"
       THEN /\ dst' = [dst EXCEPT ![home][p] = "dir"]
            /\ stack' = Append(stack, p) /\ seen' = seen \cup {p}
            /\ UNCHANGED <<step, moving>>
       ELSE Leave /\ UNCHANGED dst
    /\ UNCHANGED <<envVars, after, confVars, src, inits, histVars, counters>>

Enter(p) ==
    /\ src[p] = "dir" /\ dst[home][p] \in {"none", "dir"}
    /\ dst' = [dst EXCEPT ![home][p] = "dir"]
    /\ stack' = Append(stack, p) /\ seen' = seen \cup {p}
    /\ UNCHANGED <<envVars, step, after, confVars, src, moving, inits, histVars, counters>>

\* create_directories() throws: there is a file of that name.
EnterFails(p) ==
    /\ src[p] = "dir" /\ dst[home][p] \notin {"none", "dir"}
    /\ Leave
    /\ UNCHANGED <<envVars, after, confVars, dataVars, inits, histVars, counters>>

\* Neither a file nor a directory: left where it is.
Pass(p) ==
    /\ src[p] = "special"
    /\ seen' = seen \cup {p}
    /\ UNCHANGED <<envVars, step, after, confVars, dataVars, stack, moving, inits, histVars,
                   counters>>

Visit ==
    /\ step = "move"
    /\ \E p \in Unseen : Rename(p) \/ RenameFails(p) \/ Enter(p) \/ EnterFails(p) \/ Pass(p)

\* Whatever move() asks of the file system besides may throw: of what kind a
\* path is, to create a directory, to list one, to remove it.
MoveFails ==
    /\ step = "move"
    /\ Fault
    /\ Leave
    /\ UNCHANGED <<envVars, after, confVars, dataVars, inits, histVars>>

\* The end of a directory: remove() throws if something is left in it, or if it
\* cannot be removed.
Up ==
    /\ step = "move" /\ Unseen = {} /\ Top # Root
    /\ \/ /\ Children(Top) = {} /\ ~ locked
          /\ src' = [src EXCEPT ![Top] = "none"]
          /\ stack' = SubSeq(stack, 1, Len(stack) - 1)
          /\ UNCHANGED <<step, seen, moving>>
       \/ /\ Children(Top) # {} \/ locked
          /\ Leave
          /\ UNCHANGED src
    /\ UNCHANGED <<envVars, after, confVars, dst, inits, histVars, counters>>

InitReturns ==
    /\ step = "move" /\ Unseen = {} /\ Top = Root
    /\ Leave
    /\ UNCHANGED <<envVars, after, confVars, dataVars, inits, histVars, counters>>

-----------------------------------------------------------------------------
(* copyFile(), no result of which is looked at, and remove().              *)

CopyTruncate ==
    /\ step = "truncate"
    /\ IF dst[home][moving] = "dir"
       THEN /\ Goto("remove")
            /\ spoiled' = spoiled \cup {moving}
            /\ UNCHANGED dst
       ELSE /\ Goto("write")
            /\ dst' = [dst EXCEPT ![home][moving] = "torn"]
            /\ UNCHANGED spoiled
    /\ UNCHANGED <<envVars, after, confVars, src, moveVars, inits, wanted, lost, counters>>

CopyWrite ==
    /\ step = "write"
    /\ dst' = [dst EXCEPT ![home][moving] = "new"]
    /\ Goto("remove")
    /\ UNCHANGED <<envVars, after, confVars, src, moveVars, inits, histVars, counters>>

\* The target cannot be opened, the source cannot be read, or the disk is full.
CopyFails ==
    /\ step \in {"truncate", "write"}
    /\ Fault
    /\ spoiled' = spoiled \cup {moving}
    /\ Goto("remove")
    /\ UNCHANGED <<envVars, after, confVars, dataVars, moveVars, inits, wanted, lost>>

\* Mutation of RemoveSource: the file is removed before its copy is written.
RemoveFirst ==
    /\ step \in {"write", "remove"} /\ src[moving] # "none"
    /\ src' = [src EXCEPT ![moving] = "none"]
    /\ Goto(IF step = "remove" THEN "move" ELSE "write")
    /\ UNCHANGED <<envVars, after, confVars, dst, moveVars, inits, histVars, counters>>

RemoveSource ==
    /\ step = "remove" /\ ~ locked
    /\ src' = [src EXCEPT ![moving] = "none"]
    /\ Goto("move")
    /\ moving' = Root
    /\ UNCHANGED <<envVars, after, confVars, dst, stack, seen, inits, histVars, counters>>

\* ... but remove() throws, and ends the move: every time, if the file may not
\* be taken away.
RemoveFails ==
    /\ step = "remove"
    /\ IF locked THEN UNCHANGED counters ELSE Fault
    /\ Leave
    /\ UNCHANGED <<envVars, after, confVars, dataVars, inits, histVars>>

-----------------------------------------------------------------------------
GuiThread ==
    \/ Flush \/ FlushFails \/ Folders \/ FoldersFail
    \/ Visit \/ Up \/ MoveFails \/ InitReturns
    \/ CopyTruncate \/ CopyWrite \/ CopyFails \/ RemoveSource \/ RemoveFails

\* The program is closed; the page calls nothing any more.
Over == step = "idle" /\ inits = MaxInits /\ UNCHANGED vars

Next ==
    \/ Start \/ Die \/ GuiThread \/ InitReads \/ InitReadFails
    \/ \E s \in Settings : WriteSpringHomeSetting(s) \/ WriteSpringHomeFails(s)
    \/ Over

Spec == Init /\ [][Next]_vars

\* A program that dies is started again, and its page calls init(), again
\* after every reload.
Fairness == WF_vars(Start) /\ WF_vars(InitReads \/ InitReadFails) /\ WF_vars(GuiThread)

FairSpec == Spec /\ Fairness

-----------------------------------------------------------------------------
(* Properties.                                                             *)

\* The setting the page chose last is in the file, however often init() has read
\* it and written it back: no half of it and no other folder's.  It gets lost, and
\* then there is none, only if the program dies between emptying and writing the
\* file, if the disk is full then, or if init() once could not read it.
SettingKept ==
    \/ swlrc = wanted
    \/ swlrc = Unset /\ (lost \/ step = "flush")

\* A prepackaged file is whole in the package or in some home, whatever
\* became of the program: only a copy that failed loses one.
DataKept ==
    \A p \in Paths :
        package[p] = "file" =>
            \/ src[p] = "file"
            \/ \E h \in Homes : dst[h][p] = "new"
            \/ p \in spoiled

\* What the code never gets past: it leaves a package from which it may not take
\* a file away, a directory it cannot empty, or a file in the place of one, with
\* an exception, and what follows is not moved.
Obstructed ==
    \/ locked
    \/ \E p \in Paths : \/ package[p] = "special"
                        \/ package[p] = "dir" /\ \E h \in Homes : dst[h][p] = "old"

\* In the end everything is in a home, though the program died half-way or a
\* call of the file system failed: the next init() goes on with what it finds.
DataArrives ==
    <>(\/ Obstructed
       \/ \A p \in Paths : package[p] = "file" =>
             p \in spoiled \/ \E h \in Homes : dst[h][p] = "new")
=============================================================================
