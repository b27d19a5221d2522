-------------------------- MODULE SpringHomeProofs --------------------------
(***************************************************************************)
(* Theorems about init(), for any tree of prepackaged data, any homes and  *)
(* any number of crashes and failures of the file system: the setting of   *)
(* the page is lost only in the ways that are named, no file is lost       *)
(* between the package and a home unless a copy of it failed, and only an  *)
(* exception keeps an init() from moving all of the package.               *)
(***************************************************************************)
EXTENDS SpringHome, SequenceTheorems, TLAPS

-----------------------------------------------------------------------------
(* Types.                                                                  *)

\* The stack without its top.
LEMMA Popped ==
    ASSUME NEW S, NEW s \in Seq(S), s # <<>>
    PROVE  /\ SubSeq(s, 1, Len(s) - 1) \in Seq(S)
           /\ Len(SubSeq(s, 1, Len(s) - 1)) = Len(s) - 1
           /\ \A i \in 1..Len(s) - 1 : SubSeq(s, 1, Len(s) - 1)[i] = s[i]
<1>1. Len(s) \in Nat \ {0}
  OBVIOUS
<1>2. \A i \in 1..Len(s) - 1 : s[i] \in S
  BY <1>1
<1> DEFINE n == Len(s) - 1
<1>3. n \in Nat
  BY <1>1
<1>4. \A i \in 1..n : s[i] \in S
  BY <1>2
<1> HIDE DEF n
<1>5. /\ SubSeq(s, 1, n) \in Seq(S)
      /\ Len(SubSeq(s, 1, n)) = IF 1 <= n THEN n - 1 + 1 ELSE 0
      /\ \A i \in 1..n - 1 + 1 : SubSeq(s, 1, n)[i] = s[1 + i - 1]
  BY <1>3, <1>4, SubSeqProperties
<1>6. /\ SubSeq(s, 1, n) \in Seq(S)
      /\ Len(SubSeq(s, 1, n)) = n
      /\ \A i \in 1..n : SubSeq(s, 1, n)[i] = s[i]
  BY <1>3, <1>5
<1> QED
  BY <1>6 DEF n

\* The bounds are numbers.
LEMMA Bounds ==
    /\ MaxCrashes \in Nat /\ MaxFaults \in Nat
    /\ MaxInits \in Nat /\ MaxWrites \in Nat
BY SpringHomeAssumption

\* Types are kept because a file that is copied is one of the package, and
\* move() is in some directory while it runs.
TypeInv ==
    /\ TypeOK
    /\ step = "move" => stack # <<>> /\ stack[1] = Root
    /\ step \in {"truncate", "write", "remove"} =>
          moving \in Paths /\ stack # <<>> /\ stack[1] = Root

\* Each step keeps it.
LEMMA NextTypeInv == TypeInv /\ [Next]_vars => TypeInv'
<1> SUFFICES ASSUME TypeInv, [Next]_vars
             PROVE  TypeInv'
  OBVIOUS
<1> USE SpringHomeAssumption
    DEF TypeInv, TypeOK, Settings, SourceKinds, TargetKinds, vars, envVars, confVars, dataVars,
        moveVars, histVars, counters, Goto
<1>1. ASSUME Start
      PROVE  TypeInv'
  <2>1. inits' \in 0..MaxInits
    BY <1>1, Bounds DEF Start
  <2>2. /\ step' = "idle"
        /\ UNCHANGED <<envVars, after, swlrc, dataVars, moveVars, histVars, counters>>
    BY <1>1 DEF Start
  <2>3. setting' \in Settings /\ home' \in Homes
    BY <1>1 DEF Start
  <2> QED
    BY <2>1, <2>2, <2>3
<1>2. ASSUME Die
      PROVE  TypeInv'
  BY <1>2 DEF Die
<1>3. ASSUME InitReadFails
      PROVE  TypeInv'
  <2>1. inits' \in 0..MaxInits /\ faults' \in 0..MaxFaults
    BY <1>3, Bounds DEF InitReadFails, Fault
  <2>2. UNCHANGED <<envVars, home, dataVars, moveVars, wanted, spoiled, crashes, writes>>
    BY <1>3 DEF InitReadFails, Fault
  <2>3. /\ step' \in {"flush", "folders"} /\ after' \in {"idle", "folders"}
        /\ lost' \in BOOLEAN /\ swlrc' \in Settings /\ setting' \in Settings
    BY <1>3 DEF InitReadFails, WriteSetting, WriteNothing
  <2> QED
    BY <2>1, <2>2, <2>3
<1>4. ASSUME InitReads
      PROVE  TypeInv'
  BY <1>4 DEF InitReads, WriteSetting, WriteNothing
<1>5. ASSUME NEW s \in Settings, WriteSpringHomeSetting(s)
      PROVE  TypeInv'
  <2>1. writes' \in 0..MaxWrites
    BY <1>5, Bounds DEF WriteSpringHomeSetting
  <2>2. CASE writable
    BY <1>5, <2>1, <2>2 DEF WriteSpringHomeSetting, WriteSetting
  <2>3. CASE ~ writable
    BY <1>5, <2>1, <2>3 DEF WriteSpringHomeSetting, WriteSetting
  <2> QED
    BY <2>2, <2>3
<1>6. ASSUME Flush
      PROVE  TypeInv'
  BY <1>6 DEF Flush
<1>7. ASSUME Folders
      PROVE  TypeInv'
  BY <1>7 DEF Folders, NewHome
<1>8. ASSUME FoldersFail
      PROVE  TypeInv'
  BY <1>8 DEF FoldersFail, NewHome, Leave, Fault
<1>9. ASSUME step = "move", NEW p \in Paths, Rename(p)
      PROVE  TypeInv'
  BY <1>9 DEF Rename
<1>10. ASSUME step = "move", NEW p \in Paths, RenameFails(p)
       PROVE  TypeInv'
  BY <1>10 DEF RenameFails
<1>11. ASSUME step = "move", NEW p \in Paths, Enter(p)
       PROVE  TypeInv'
  BY <1>11 DEF Enter
<1>12. ASSUME step = "move", NEW p \in Paths, EnterFails(p)
       PROVE  TypeInv'
  BY <1>12 DEF EnterFails, Leave
<1>13. ASSUME step = "move", NEW p \in Paths, Pass(p)
       PROVE  TypeInv'
  BY <1>13 DEF Pass
<1>14. ASSUME Up
       PROVE  TypeInv'
  <2>1. CASE Children(Top) # {} \/ locked
    <3>1. Leave /\ UNCHANGED <<envVars, after, confVars, dataVars, inits, histVars, counters>>
      BY <1>14, <2>1 DEF Up
    <3> QED
      BY <3>1 DEF Leave
  <2>2. CASE Children(Top) = {} /\ ~ locked
    <3>1. /\ stack' = SubSeq(stack, 1, Len(stack) - 1)
          /\ src' = [src EXCEPT ![Top] = "none"]
          /\ stack # <<>>
      BY <1>14, <2>2 DEF Up
    <3>2. Len(stack) \in Nat \ {0}
      BY <3>1
    <3>3. /\ stack' \in Seq(Paths \cup {Root})
          /\ Len(stack') = Len(stack) - 1
          /\ \A i \in 1..Len(stack') : stack'[i] = stack[i]
      <4>1. /\ SubSeq(stack, 1, Len(stack) - 1) \in Seq(Paths \cup {Root})
            /\ Len(SubSeq(stack, 1, Len(stack) - 1)) = Len(stack) - 1
            /\ \A i \in 1..Len(stack) - 1 : SubSeq(stack, 1, Len(stack) - 1)[i] = stack[i]
        BY <3>1, Popped
      <4> QED
        BY <3>1, <4>1
    <3>4. src' \in [Paths -> SourceKinds]
      BY <3>1
    <3>5. Len(stack) # 1
      BY <1>14 DEF Up, Top
    <3>6. stack' # <<>> /\ stack'[1] = stack[1]
      <4>1. 1 \in 1..Len(stack')
        BY <3>2, <3>3, <3>5
      <4>2. stack'[1] = stack[1]
        BY <3>3, <4>1
      <4> QED
        BY <4>1, <4>2
    <3>7. stack[1] = Root /\ step' = "move"
      BY <1>14, <2>2 DEF Up
    <3> QED
      BY <1>14, <2>2, <3>3, <3>4, <3>6, <3>7 DEF Up
  <2> QED
    BY <1>14, <2>1, <2>2 DEF Up
<1>15. ASSUME InitReturns
       PROVE  TypeInv'
  BY <1>15 DEF InitReturns, Leave
<1>16. ASSUME CopyTruncate
       PROVE  TypeInv'
  <2>1. CASE dst[home][moving] = "dir"
    BY <1>16, <2>1 DEF CopyTruncate
  <2>2. CASE dst[home][moving] # "dir"
    <3>1. /\ moving \in Paths
          /\ dst' = [dst EXCEPT ![home][moving] = "torn"]
          /\ step' = "write"
          /\ UNCHANGED <<envVars, after, confVars, src, moveVars, inits, histVars, counters>>
      BY <1>16, <2>2 DEF CopyTruncate
    <3>2. dst' \in [Homes -> [Paths -> TargetKinds]]
      BY <3>1
    <3>3. stack # <<>> /\ stack[1] = Root
      BY <1>16 DEF CopyTruncate
    <3>4. TypeOK'
      BY <3>1, <3>2
    <3> QED
      BY <3>1, <3>3, <3>4
  <2> QED
    BY <2>1, <2>2
<1>17. ASSUME CopyWrite
       PROVE  TypeInv'
  BY <1>17 DEF CopyWrite
<1>18. ASSUME CopyFails
       PROVE  TypeInv'
  BY <1>18, Bounds DEF CopyFails, Fault
<1>19. ASSUME RemoveSource
       PROVE  TypeInv'
  BY <1>19 DEF RemoveSource
<1>21. ASSUME NEW s \in Settings, WriteSpringHomeFails(s)
       PROVE  TypeInv'
  BY <1>21 DEF WriteSpringHomeFails, WriteNothing
<1>22. ASSUME FlushFails
       PROVE  TypeInv'
  BY <1>22 DEF FlushFails, Fault
<1>23. ASSUME MoveFails
       PROVE  TypeInv'
  BY <1>23 DEF MoveFails, Leave, Fault
<1>24. ASSUME RemoveFails
       PROVE  TypeInv'
  BY <1>24 DEF RemoveFails, Leave, Fault
<1>20. CASE UNCHANGED vars
  BY <1>20
<1> QED
  BY <1>1, <1>2, <1>3, <1>4, <1>5, <1>6, <1>7, <1>8, <1>9, <1>10, <1>11, <1>12, <1>13,
     <1>14, <1>15, <1>16, <1>17, <1>18, <1>19, <1>20, <1>21, <1>22, <1>23, <1>24
     DEF Next, GuiThread, Visit, Unseen, Children, Over

\* It holds at first.
LEMMA InitTypeInv == Init => TypeInv
<1> SUFFICES ASSUME Init
             PROVE  TypeInv
  OBVIOUS
<1> USE SpringHomeAssumption DEF Init, Settings, SourceKinds, TargetKinds
<1>1. /\ inits \in 0..MaxInits /\ crashes \in 0..MaxCrashes
      /\ faults \in 0..MaxFaults /\ writes \in 0..MaxWrites
  BY Bounds
<1>2. package \in [Paths -> SourceKinds] /\ src \in [Paths -> SourceKinds]
  OBVIOUS
<1>3. dst \in [Homes -> [Paths -> TargetKinds]]
  <2>1. Present \subseteq [Paths -> TargetKinds]
    OBVIOUS
  <2> QED
    BY <2>1
<1>4. stack \in Seq(Paths \cup {Root})
  OBVIOUS
<1> QED
  BY <1>1, <1>2, <1>3, <1>4 DEF TypeInv, TypeOK

\* Every variable keeps its type: init(), move() and copyFile() leave nothing
\* but settings in swlrc and files and directories in the homes.
THEOREM TypeCorrect == Spec => []TypeOK
<1>1. Init => TypeInv
  BY InitTypeInv
<1>2. TypeInv => TypeOK
  BY DEF TypeInv
<1> QED
  BY <1>1, <1>2, NextTypeInv, PTL DEF Spec

-----------------------------------------------------------------------------
(* The setting.                                                            *)

\* While swlrc is empty, the setting in memory is the page's last one, unless
\* that has been lost.
SettingInv ==
    IF step = "flush"
    THEN after # "flush" /\ swlrc = Unset /\ (setting = wanted \/ (lost /\ setting = Unset))
    ELSE swlrc = wanted \/ (lost /\ swlrc = Unset)

\* Each step keeps it: swlrc is emptied only after the setting has been read.
LEMMA NextSettingInv == SettingInv /\ [Next]_vars => SettingInv'
<1> SUFFICES ASSUME SettingInv, [Next]_vars
             PROVE  SettingInv'
  OBVIOUS
<1> USE DEF SettingInv, SettingKept, vars, envVars, confVars, dataVars, moveVars, histVars,
            counters, Goto
<1>1. ASSUME Start
      PROVE  SettingInv'
  BY <1>1 DEF Start
<1>2. ASSUME Die
      PROVE  SettingInv'
  BY <1>2 DEF Die
<1>3. ASSUME InitReadFails
      PROVE  SettingInv'
  BY <1>3 DEF InitReadFails, WriteSetting, WriteNothing, Fault
<1>4. ASSUME InitReads
      PROVE  SettingInv'
  <2>1. CASE writable
    BY <1>4, <2>1 DEF InitReads, WriteSetting, WriteNothing
  <2>2. CASE ~ writable
    BY <1>4, <2>2 DEF InitReads, WriteSetting, WriteNothing
  <2> QED
    BY <2>1, <2>2
<1>5. ASSUME NEW s \in Settings, WriteSpringHomeSetting(s)
      PROVE  SettingInv'
  <2>1. CASE writable
    BY <1>5, <2>1 DEF WriteSpringHomeSetting, WriteSetting
  <2>2. CASE ~ writable
    BY <1>5, <2>2 DEF WriteSpringHomeSetting, WriteSetting
  <2> QED
    BY <2>1, <2>2
<1>6. ASSUME Flush
      PROVE  SettingInv'
  BY <1>6 DEF Flush
<1>7. ASSUME Folders
      PROVE  SettingInv'
  BY <1>7 DEF Folders, NewHome
<1>8. ASSUME FoldersFail
      PROVE  SettingInv'
  BY <1>8 DEF FoldersFail, NewHome, Leave, Fault
<1>9. ASSUME step = "move", NEW p \in Paths, Rename(p)
      PROVE  SettingInv'
  BY <1>9 DEF Rename
<1>10. ASSUME step = "move", NEW p \in Paths, RenameFails(p)
       PROVE  SettingInv'
  BY <1>10 DEF RenameFails
<1>11. ASSUME step = "move", NEW p \in Paths, Enter(p)
       PROVE  SettingInv'
  BY <1>11 DEF Enter
<1>12. ASSUME step = "move", NEW p \in Paths, EnterFails(p)
       PROVE  SettingInv'
  BY <1>12 DEF EnterFails, Leave
<1>13. ASSUME step = "move", NEW p \in Paths, Pass(p)
       PROVE  SettingInv'
  BY <1>13 DEF Pass
<1>14. ASSUME Up
       PROVE  SettingInv'
  BY <1>14 DEF Up, Leave
<1>15. ASSUME InitReturns
       PROVE  SettingInv'
  BY <1>15 DEF InitReturns, Leave
<1>16. ASSUME CopyTruncate
       PROVE  SettingInv'
  BY <1>16 DEF CopyTruncate
<1>17. ASSUME CopyWrite
       PROVE  SettingInv'
  BY <1>17 DEF CopyWrite
<1>18. ASSUME CopyFails
       PROVE  SettingInv'
  BY <1>18 DEF CopyFails, Fault
<1>19. ASSUME RemoveSource
       PROVE  SettingInv'
  BY <1>19 DEF RemoveSource
<1>21. ASSUME NEW s \in Settings, WriteSpringHomeFails(s)
       PROVE  SettingInv'
  BY <1>21 DEF WriteSpringHomeFails, WriteNothing
<1>22. ASSUME FlushFails
       PROVE  SettingInv'
  BY <1>22 DEF FlushFails, Fault
<1>23. ASSUME MoveFails
       PROVE  SettingInv'
  BY <1>23 DEF MoveFails, Leave, Fault
<1>24. ASSUME RemoveFails
       PROVE  SettingInv'
  BY <1>24 DEF RemoveFails, Leave, Fault
<1>20. CASE UNCHANGED vars
  BY <1>20
<1> QED
  BY <1>1, <1>2, <1>3, <1>4, <1>5, <1>6, <1>7, <1>8, <1>9, <1>10, <1>11, <1>12, <1>13,
     <1>14, <1>15, <1>16, <1>17, <1>18, <1>19, <1>20, <1>21, <1>22, <1>23, <1>24
     DEF Next, GuiThread, Visit, Unseen, Children, Over

\* The setting the page chose last is in swlrc, however often init() reads it and
\* writes it back.  What can lose it is named: an end of the program or a full
\* disk between emptying and writing the file, and an init() that could not read
\* it.  Then there is none; swlrc never names a folder the page has not chosen last.
THEOREM SettingSafe == Spec => []SettingKept
<1>1. Init => SettingInv
  BY DEF Init, SettingInv, SettingKept
<1>2. SettingInv => SettingKept
  BY DEF SettingInv, SettingKept
<1> QED
  BY <1>1, <1>2, NextSettingInv, PTL DEF Spec

-----------------------------------------------------------------------------
(* The prepackaged data.                                                   *)

\* move() is in directories only, the outermost of which is the package.
StackInv ==
    /\ stack \in Seq(Paths \cup {Root})
    /\ stack # <<>> => stack[1] = Root
    /\ step \in {"move", "truncate", "write", "remove"} => stack # <<>>
    /\ \A i \in 1..Len(stack) : stack[i] \in Paths => src[stack[i]] # "file"

\* A file that is copied is still in the package; where its copy has been
\* made, it is whole, unless it is spoiled.
CopyInv ==
    /\ step \in {"truncate", "write", "remove"} => moving \in Paths
    /\ step \in {"truncate", "write"} => src[moving] = "file"
    /\ step = "remove" => dst[home][moving] = "new" \/ moving \in spoiled

DataTypes ==
    /\ after \in {"idle", "folders"}
    /\ home \in Homes /\ setting \in Settings /\ swlrc \in Settings
    /\ src \in [Paths -> SourceKinds]
    /\ dst \in [Homes -> [Paths -> TargetKinds]]

DataInv == DataTypes /\ StackInv /\ CopyInv /\ DataKept

\* Each step keeps it: a source goes only after its copy, or a rename.
LEMMA NextDataInv == DataInv /\ [Next]_vars => DataInv'
<1> SUFFICES ASSUME DataInv, [Next]_vars
             PROVE  DataInv'
  OBVIOUS
<1> USE SpringHomeAssumption
    DEF DataInv, DataTypes, StackInv, CopyInv, DataKept, Settings, SourceKinds, TargetKinds,
        vars, envVars, confVars, dataVars, moveVars, histVars, counters, Goto
<1>1. ASSUME Start
      PROVE  DataInv'
  BY <1>1 DEF Start
<1>2. ASSUME Die
      PROVE  DataInv'
  BY <1>2 DEF Die
<1>3. ASSUME InitReadFails
      PROVE  DataInv'
  BY <1>3 DEF InitReadFails, WriteSetting, WriteNothing, Fault
<1>4. ASSUME InitReads
      PROVE  DataInv'
  BY <1>4 DEF InitReads, WriteSetting, WriteNothing
<1>5. ASSUME NEW s \in Settings, WriteSpringHomeSetting(s)
      PROVE  DataInv'
  BY <1>5 DEF WriteSpringHomeSetting, WriteSetting
<1>6. ASSUME Flush
      PROVE  DataInv'
  BY <1>6 DEF Flush
<1>7. ASSUME Folders
      PROVE  DataInv'
  BY <1>7 DEF Folders, NewHome
<1>8. ASSUME FoldersFail
      PROVE  DataInv'
  BY <1>8 DEF FoldersFail, NewHome, Leave, Fault
<1>9. ASSUME step = "move", NEW p \in Paths, Rename(p)
      PROVE  DataInv'
  BY <1>9 DEF Rename
<1>10. ASSUME step = "move", NEW p \in Paths, RenameFails(p)
       PROVE  DataInv'
  BY <1>10 DEF RenameFails
<1>11. ASSUME step = "move", NEW p \in Paths, Enter(p)
       PROVE  DataInv'
  BY <1>11 DEF Enter
<1>12. ASSUME step = "move", NEW p \in Paths, EnterFails(p)
       PROVE  DataInv'
  BY <1>12 DEF EnterFails, Leave
<1>13. ASSUME step = "move", NEW p \in Paths, Pass(p)
       PROVE  DataInv'
  BY <1>13 DEF Pass
<1>14. ASSUME Up
       PROVE  DataInv'
  <2>1. CASE Children(Top) # {} \/ locked
    <3>1. Leave /\ UNCHANGED <<envVars, after, confVars, dataVars, inits, histVars, counters>>
      BY <1>14, <2>1 DEF Up
    <3> QED
      BY <3>1 DEF Leave
  <2>2. CASE Children(Top) = {} /\ ~ locked
    <3>1. Len(stack) \in Nat \ {0, 1} /\ stack \in Seq(Paths \cup {Root}) /\ stack # <<>>
      BY <1>14 DEF Up, Top
    <3>2. /\ stack' = SubSeq(stack, 1, Len(stack) - 1)
          /\ src' = [src EXCEPT ![Top] = "none"]
          /\ UNCHANGED <<step, seen, moving, dst, home, package, spoiled>>
      BY <1>14, <2>2 DEF Up
    <3>3. /\ stack' \in Seq(Paths \cup {Root})
          /\ Len(stack') = Len(stack) - 1
          /\ \A i \in 1..Len(stack') : stack'[i] = stack[i]
      <4>1. /\ SubSeq(stack, 1, Len(stack) - 1) \in Seq(Paths \cup {Root})
            /\ Len(SubSeq(stack, 1, Len(stack) - 1)) = Len(stack) - 1
            /\ \A i \in 1..Len(stack) - 1 : SubSeq(stack, 1, Len(stack) - 1)[i] = stack[i]
        BY <3>1, <3>2, Popped
      <4> QED
        BY <3>1, <3>2, <4>1
    <3>4. StackInv'
      <4>1. stack'[1] = Root /\ stack' # <<>>
        <5>1. 1 \in 1..Len(stack') /\ stack[1] = Root
          BY <3>1, <3>3
        <5>2. stack'[1] = stack[1]
          BY <3>3, <5>1
        <5> QED
          BY <5>1, <5>2
      <4>2. \A q \in Paths : src'[q] = "file" => src[q] = "file"
        BY <3>2
      <4>3. \A i \in 1..Len(stack') : stack'[i] \in Paths => src'[stack'[i]] # "file"
        BY <3>1, <3>3, <4>2
      <4> QED
        BY <3>3, <4>1, <4>3
    <3>8. CopyInv'
      BY <1>14, <2>2, <3>2 DEF Up
    <3>5. Top \in Paths => src[Top] # "file"
      BY <3>1 DEF Top
    <3>6. DataKept'
      BY <3>2, <3>5
    <3>7. DataTypes'
      BY <1>14, <2>2, <3>2 DEF Up
    <3> QED
      BY <3>4, <3>6, <3>7, <3>8
  <2> QED
    BY <1>14, <2>1, <2>2 DEF Up
<1>15. ASSUME InitReturns
       PROVE  DataInv'
  BY <1>15 DEF InitReturns, Leave
<1>16. ASSUME CopyTruncate
       PROVE  DataInv'
  <2>1. CASE dst[home][moving] = "dir"
    BY <1>16, <2>1 DEF CopyTruncate
  <2>2. CASE dst[home][moving] # "dir"
    <3>1. /\ moving \in Paths /\ home \in Homes /\ src[moving] = "file"
          /\ dst' = [dst EXCEPT ![home][moving] = "torn"]
          /\ step' = "write"
          /\ UNCHANGED <<envVars, after, confVars, src, moveVars, inits, histVars, counters>>
      BY <1>16, <2>2 DEF CopyTruncate
    <3>2. /\ dst' \in [Homes -> [Paths -> TargetKinds]]
          /\ \A p \in Paths, h \in Homes : p # moving => dst'[h][p] = dst[h][p]
      BY <3>1
    <3>3. DataKept'
      BY <3>1, <3>2
    <3>4. StackInv'
      BY <1>16, <3>1 DEF CopyTruncate
    <3>5. CopyInv' /\ DataTypes'
      BY <3>1, <3>2
    <3> QED
      BY <3>3, <3>4, <3>5
  <2> QED
    BY <2>1, <2>2
<1>17. ASSUME CopyWrite
       PROVE  DataInv'
  BY <1>17 DEF CopyWrite
<1>18. ASSUME CopyFails
       PROVE  DataInv'
  BY <1>18 DEF CopyFails, Fault
<1>19. ASSUME RemoveSource
       PROVE  DataInv'
  BY <1>19 DEF RemoveSource
<1>21. ASSUME NEW s \in Settings, WriteSpringHomeFails(s)
       PROVE  DataInv'
  BY <1>21 DEF WriteSpringHomeFails, WriteNothing
<1>22. ASSUME FlushFails
       PROVE  DataInv'
  BY <1>22 DEF FlushFails, Fault
<1>23. ASSUME MoveFails
       PROVE  DataInv'
  BY <1>23 DEF MoveFails, Leave, Fault
<1>24. ASSUME RemoveFails
       PROVE  DataInv'
  BY <1>24 DEF RemoveFails, Leave, Fault
<1>20. CASE UNCHANGED vars
  BY <1>20
<1> QED
  BY <1>1, <1>2, <1>3, <1>4, <1>5, <1>6, <1>7, <1>8, <1>9, <1>10, <1>11, <1>12, <1>13,
     <1>14, <1>15, <1>16, <1>17, <1>18, <1>19, <1>20, <1>21, <1>22, <1>23, <1>24
     DEF Next, GuiThread, Visit, Unseen, Children, Over

\* It holds at first.
LEMMA InitDataInv == Init => DataInv
BY SpringHomeAssumption
   DEF Init, DataInv, DataTypes, StackInv, CopyInv, DataKept, Settings, SourceKinds, TargetKinds

\* No prepackaged file is lost: it is whole in the package or in a home, unless
\* a copy of it failed, wherever the program died.
THEOREM NoDataLost == Spec => []DataKept
<1>1. Init => DataInv
  BY InitDataInv
<1>2. DataInv => DataKept
  BY DEF DataInv
<1> QED
  BY <1>1, <1>2, NextDataInv, PTL DEF Spec

-----------------------------------------------------------------------------
(* What move() leaves in the package.                                      *)

Copying == step \in {"truncate", "write", "remove"}

\* Whatever an iterator of this init() has returned has been moved, is being
\* copied, is a directory move() is in, or is none of its business; and what is
\* left in the package is in a directory of the package, even where the program
\* died half-way.
WalkInv ==
    /\ package \in Packages
    /\ step # "move" /\ ~ Copying => stack = <<>> /\ seen = {}
    /\ \A i \in 2..Len(stack) : stack[i] \in Paths
    /\ Copying => src[moving] = "file"
    /\ \A p \in seen :
          \/ src[p] \in {"none", "special"}
          \/ Copying /\ p = moving
          \/ \E i \in 1..Len(stack) : stack[i] = p
    /\ \A p \in Paths : src[p] \in {"none", package[p]}
    /\ \A p \in Paths : src[p] # "none" => Parent[p] = Root \/ src[Parent[p]] # "none"

\* A file has nothing in it, so that it may go.
LEMMA FileGoes ==
    ASSUME WalkInv, TypeInv, NEW p \in Paths, src[p] = "file",
           src' = [src EXCEPT ![p] = "none"], package' = package
    PROVE  /\ \A q \in Paths : src'[q] \in {"none", package'[q]}
           /\ \A q \in Paths : src'[q] # "none" => Parent[q] = Root \/ src'[Parent[q]] # "none"
<1>1. src \in [Paths -> SourceKinds] /\ Parent \in [Paths -> Paths \cup {Root}]
  BY SpringHomeAssumption DEF TypeInv, TypeOK
<1>2. package[p] = "file" /\ package \in Packages
  BY DEF WalkInv
<1>3. ASSUME NEW q \in Paths, Parent[q] = p, q # p
      PROVE  src[q] = "none"
  <2>1. package[q] = "none"
    BY <1>2, <1>3, SpringHomeAssumption, TreeAssumption
  <2> QED
    BY <2>1 DEF WalkInv
<1> QED
  BY <1>1, <1>3 DEF WalkInv

\* Each step keeps it: a directory goes only when it is empty, and after it
\* and all that was in it have been seen.
LEMMA NextWalkInv == TypeInv /\ DataInv /\ WalkInv /\ [Next]_vars => WalkInv'
<1> SUFFICES ASSUME TypeInv, DataInv, WalkInv, [Next]_vars
             PROVE  WalkInv'
  OBVIOUS
<1>t. /\ src \in [Paths -> SourceKinds] /\ stack \in Seq(Paths \cup {Root})
      /\ seen \subseteq Paths
      /\ step = "move" => stack # <<>>
      /\ Copying => moving \in Paths /\ stack # <<>>
  BY DEF TypeInv, TypeOK, Copying
<1> USE DEF WalkInv, Copying, vars, envVars, confVars, dataVars, moveVars, histVars, counters, Goto
<1>1. ASSUME Start
      PROVE  WalkInv'
  BY <1>1, <1>t DEF Start, TypeInv, TypeOK
<1>2. ASSUME Die
      PROVE  WalkInv'
  BY <1>2, <1>t DEF Die
<1>3. ASSUME InitReadFails
      PROVE  WalkInv'
  BY <1>3, <1>t DEF InitReadFails, WriteSetting, WriteNothing, Fault
<1>4. ASSUME InitReads
      PROVE  WalkInv'
  BY <1>4, <1>t DEF InitReads, WriteSetting, WriteNothing, TypeInv, TypeOK
<1>5. ASSUME NEW s \in Settings, WriteSpringHomeSetting(s)
      PROVE  WalkInv'
  BY <1>5, <1>t DEF WriteSpringHomeSetting, WriteSetting
<1>6. ASSUME Flush
      PROVE  WalkInv'
  BY <1>6, <1>t DEF Flush, TypeInv, TypeOK
<1>7. ASSUME Folders
      PROVE  WalkInv'
  BY <1>7, <1>t DEF Folders
<1>8. ASSUME FoldersFail
      PROVE  WalkInv'
  BY <1>8, <1>t DEF FoldersFail, Leave, Fault
<1>9. ASSUME step = "move", NEW p \in Unseen, Rename(p)
      PROVE  WalkInv'
  <2>1. p \in Paths /\ src[p] = "file" /\ src' = [src EXCEPT ![p] = "none"] /\ package' = package
    BY <1>9 DEF Rename, Unseen, Children
  <2>2. \A q \in seen' : src'[q] \in {"none", "special"} \/ \E i \in 1..Len(stack') : stack'[i] = q
    BY <1>9, <1>t, <2>1 DEF Rename
  <2> QED
    BY <1>9, <2>1, <2>2, FileGoes DEF Rename
<1>10. ASSUME step = "move", NEW p \in Unseen, RenameFails(p)
       PROVE  WalkInv'
  BY <1>10, <1>t DEF RenameFails, Unseen, Children
<1>11. ASSUME step = "move", NEW p \in Unseen, Enter(p)
       PROVE  WalkInv'
  <2>1. /\ p \in Paths /\ stack' = Append(stack, p) /\ seen' = seen \cup {p}
        /\ UNCHANGED <<src, step, package>>
    BY <1>11 DEF Enter, Unseen, Children
  <2>2. /\ Len(stack') = Len(stack) + 1 /\ stack'[Len(stack) + 1] = p /\ Len(stack) \in Nat \ {0}
        /\ \A i \in 1..Len(stack) : stack'[i] = stack[i]
    BY <1>11, <1>t, <2>1
  <2>3. \A i \in 2..Len(stack') : stack'[i] \in Paths
    BY <2>1, <2>2
  <2>4. ASSUME NEW q \in seen'
        PROVE  src'[q] \in {"none", "special"} \/ \E i \in 1..Len(stack') : stack'[i] = q
    <3>1. CASE q = p
      BY <2>2, <3>1
    <3>2. CASE q \in seen
      BY <1>11, <2>1, <2>2, <3>2
    <3> QED
      BY <2>1, <2>4, <3>1, <3>2
  <2> QED
    BY <1>11, <2>1, <2>3, <2>4
<1>12. ASSUME step = "move", NEW p \in Unseen, EnterFails(p)
       PROVE  WalkInv'
  BY <1>12, <1>t DEF EnterFails, Leave
<1>13. ASSUME step = "move", NEW p \in Unseen, Pass(p)
       PROVE  WalkInv'
  BY <1>13, <1>t DEF Pass
<1>14. ASSUME Up
       PROVE  WalkInv'
  <2>1. CASE Children(Top) # {} \/ locked
    BY <1>14, <2>1 DEF Up, Leave
  <2>2. CASE Children(Top) = {} /\ ~ locked
    <3>1. /\ step = "move" /\ Top # Root
          /\ src' = [src EXCEPT ![Top] = "none"]
          /\ stack' = SubSeq(stack, 1, Len(stack) - 1)
          /\ UNCHANGED <<step, seen, moving, package>>
      BY <1>14, <2>2 DEF Up
    <3>2. Len(stack) \in Nat \ {0} /\ Top \in Paths /\ stack # <<>>
      BY <1>t, <3>1 DEF Top
    <3>3. /\ Len(stack') = Len(stack) - 1
          /\ \A i \in 1..Len(stack') : stack'[i] = stack[i]
      <4>1. /\ Len(SubSeq(stack, 1, Len(stack) - 1)) = Len(stack) - 1
            /\ \A i \in 1..Len(stack) - 1 : SubSeq(stack, 1, Len(stack) - 1)[i] = stack[i]
        BY <1>t, <3>2, Popped
      <4> QED
        BY <3>1, <3>2, <4>1
    <3>4. \A i \in 2..Len(stack') : stack'[i] \in Paths
      BY <3>2, <3>3
    <3>5. ASSUME NEW q \in seen'
          PROVE  src'[q] \in {"none", "special"} \/ \E i \in 1..Len(stack') : stack'[i] = q
      <4>1. q \in seen /\ q \in Paths
        BY <1>t, <3>1, <3>5
      <4>2. CASE q = Top
        BY <1>t, <3>1, <3>2, <4>2
      <4>3. CASE q # Top /\ src[q] \in {"none", "special"}
        BY <1>t, <3>1, <3>2, <4>1, <4>3
      <4>4. CASE q # Top /\ \E i \in 1..Len(stack) : stack[i] = q
        <5>1. PICK i \in 1..Len(stack) : stack[i] = q
          BY <4>4
        <5>2. i \in 1..Len(stack')
          BY <3>2, <3>3, <4>4, <5>1 DEF Top
        <5> QED
          BY <3>3, <5>1, <5>2
      <4> QED
        BY <3>1, <4>1, <4>2, <4>3, <4>4
    <3>6. \A q \in Paths : src'[q] \in {"none", package'[q]}
      BY <1>t, <3>1, <3>2
    <3>7. ASSUME NEW q \in Paths, src'[q] # "none"
          PROVE  Parent[q] = Root \/ src'[Parent[q]] # "none"
      <4>1. src[q] # "none"
        BY <1>t, <3>1, <3>2, <3>7
      <4>2. Parent[q] # Top
        BY <2>2, <4>1 DEF Children
      <4>3. Parent[q] = Root \/ (Parent[q] \in Paths /\ src[Parent[q]] # "none")
        BY <4>1, SpringHomeAssumption
      <4> QED
        BY <1>t, <3>1, <3>2, <4>2, <4>3
    <3> QED
      BY <3>1, <3>4, <3>5, <3>6, <3>7
  <2> QED
    BY <2>1, <2>2
<1>15. ASSUME InitReturns
       PROVE  WalkInv'
  BY <1>15, <1>t DEF InitReturns, Leave
<1>16. ASSUME CopyTruncate
       PROVE  WalkInv'
  BY <1>16, <1>t DEF CopyTruncate
<1>17. ASSUME CopyWrite
       PROVE  WalkInv'
  BY <1>17, <1>t DEF CopyWrite
<1>18. ASSUME CopyFails
       PROVE  WalkInv'
  BY <1>18, <1>t DEF CopyFails, Fault
<1>19. ASSUME RemoveSource
       PROVE  WalkInv'
  <2>1. /\ moving \in Paths /\ src[moving] = "file"
        /\ src' = [src EXCEPT ![moving] = "none"] /\ package' = package
    BY <1>19, <1>t DEF RemoveSource
  <2>2. \A q \in seen' : src'[q] \in {"none", "special"} \/ \E i \in 1..Len(stack') : stack'[i] = q
    BY <1>19, <1>t, <2>1 DEF RemoveSource
  <2> QED
    BY <1>19, <2>1, <2>2, FileGoes DEF RemoveSource
<1>21. ASSUME NEW s \in Settings, WriteSpringHomeFails(s)
       PROVE  WalkInv'
  BY <1>21, <1>t DEF WriteSpringHomeFails, WriteNothing
<1>22. ASSUME FlushFails
       PROVE  WalkInv'
  BY <1>22, <1>t DEF FlushFails, Fault, TypeInv, TypeOK
<1>23. ASSUME MoveFails
       PROVE  WalkInv'
  BY <1>23, <1>t DEF MoveFails, Leave, Fault
<1>24. ASSUME RemoveFails
       PROVE  WalkInv'
  BY <1>24, <1>t DEF RemoveFails, Leave, Fault
<1>20. CASE UNCHANGED vars
  BY <1>20
<1> QED
  BY <1>1, <1>2, <1>3, <1>4, <1>5, <1>6, <1>7, <1>8, <1>9, <1>10, <1>11, <1>12, <1>13,
     <1>14, <1>15, <1>16, <1>17, <1>18, <1>19, <1>20, <1>21, <1>22, <1>23, <1>24
     DEF Next, GuiThread, Visit, Over

\* It holds at first.
LEMMA InitWalkInv == Init => WalkInv
<1> SUFFICES ASSUME Init
             PROVE  WalkInv
  OBVIOUS
<1>1. \A p \in Paths : src[p] # "none" => Parent[p] = Root \/ src[Parent[p]] # "none"
  BY TreeAssumption DEF Init
<1> QED
  BY <1>1 DEF Init, WalkInv, Copying

\* An init() that returns without an exception has moved everything: what is
\* left of the package is neither file nor directory, and every file of it is in
\* a home, but for those whose copy has failed now or earlier.  So only an
\* exception, or an end of the program, keeps move() from its work.
THEOREM MoveIsComplete ==
    Spec => [][InitReturns =>
                  /\ \A p \in Paths : src[p] \in {"none", "special"}
                  /\ \A p \in Paths : package[p] = "file" =>
                        p \in spoiled \/ \E h \in Homes : dst[h][p] = "new"]_vars
<1>1. Init => WalkInv
  BY InitWalkInv
<1>2. ASSUME TypeInv, DataInv, WalkInv, InitReturns
      PROVE  /\ \A p \in Paths : src[p] \in {"none", "special"}
             /\ \A p \in Paths : package[p] = "file" =>
                   p \in spoiled \/ \E h \in Homes : dst[h][p] = "new"
  <2> DEFINE Left == {p \in Paths : src[p] \notin {"none", "special"}}
  <2>1. \A i \in 1..Len(stack) : stack[i] \notin Paths
    <3>1. stack \in Seq(Paths \cup {Root}) /\ stack # <<>> /\ stack[Len(stack)] = Root
      BY <1>2 DEF InitReturns, Top, TypeInv, TypeOK
    <3>2. Len(stack) = 1
      <4>1. Len(stack) \in Nat \ {0}
        BY <3>1
      <4>2. \A i \in 2..Len(stack) : stack[i] # Root
        <5>1. \A i \in 2..Len(stack) : stack[i] \in Paths
          BY <1>2 DEF WalkInv
        <5>2. Root \notin Paths
          BY SpringHomeAssumption
        <5> QED
          BY <5>1, <5>2
      <4>3. Len(stack) \notin 2..Len(stack)
        BY <3>1, <4>2
      <4>4. ASSUME NEW n \in Nat \ {0}, n \notin 2..n
            PROVE  n = 1
        BY <4>4
      <4> QED
        BY <4>1, <4>3, <4>4
    <3> QED
      BY <3>1, <3>2, SpringHomeAssumption
  <2>2. ASSUME NEW p \in Left
        PROVE  Parent[p] \in Left
    <3>1. Parent[p] # Root
      BY <1>2, <2>1 DEF InitReturns, Unseen, Children, WalkInv, Copying
    <3>2. src[Parent[p]] # "none" /\ Parent[p] \in Paths
      BY <1>2, <3>1, SpringHomeAssumption DEF WalkInv
    <3>3. package \in Packages /\ package[p] # "none" /\ src[Parent[p]] = package[Parent[p]]
      BY <1>2, <3>2 DEF WalkInv
    <3>4. package[Parent[p]] = "dir"
      BY <3>1, <3>3, TreeAssumption
    <3> QED
      BY <3>2, <3>3, <3>4
  <2>3. Left = {}
    BY <2>2, TreeAssumption
  <2>4. \A p \in Paths : src[p] # "file"
    BY <2>3
  <2> QED
    BY <1>2, <2>3, <2>4 DEF DataInv, DataKept
<1>3. TypeInv /\ DataInv /\ WalkInv =>
         [InitReturns =>
             /\ \A p \in Paths : src[p] \in {"none", "special"}
             /\ \A p \in Paths : package[p] = "file" =>
                   p \in spoiled \/ \E h \in Homes : dst[h][p] = "new"]_vars
  BY <1>2
<1>4. Init => TypeInv
  BY InitTypeInv
<1>5. Init => DataInv
  BY InitDataInv
<1> QED
  BY <1>1, <1>3, <1>4, <1>5, NextTypeInv, NextDataInv, NextWalkInv, PTL DEF Spec

\* The directories move() is in are each in the one before, none twice, and all
\* have been seen; and only files of the package are written into a home.
PathInv ==
    /\ \A i \in 1..Len(stack) - 1 :
          stack[i + 1] \in seen /\ Parent[stack[i + 1]] = stack[i]
    /\ \A i, j \in 1..Len(stack) : stack[i] = stack[j] => i = j
    /\ \A h \in Homes, p \in Paths : dst[h][p] \in {"torn", "new"} => package[p] = "file"

\* Each step keeps it: what is entered is unseen, so move() is not in it yet.
LEMMA NextPathInv == TypeInv /\ WalkInv /\ PathInv /\ [Next]_vars => PathInv'
<1> SUFFICES ASSUME TypeInv, WalkInv, PathInv, [Next]_vars
             PROVE  PathInv'
  OBVIOUS
<1>t. /\ src \in [Paths -> SourceKinds] /\ stack \in Seq(Paths \cup {Root})
      /\ dst \in [Homes -> [Paths -> TargetKinds]] /\ home \in Homes
      /\ seen \subseteq Paths
      /\ step = "move" => stack # <<>> /\ stack[1] = Root
      /\ Copying => moving \in Paths /\ package[moving] = "file"
  BY DEF TypeInv, TypeOK, Copying, WalkInv
<1> USE DEF PathInv, vars, envVars, confVars, dataVars, moveVars, histVars, counters, Goto
<1>1. ASSUME Start
      PROVE  PathInv'
  BY <1>1, <1>t DEF Start
<1>2. ASSUME Die
      PROVE  PathInv'
  BY <1>2, <1>t DEF Die
<1>3. ASSUME InitReadFails
      PROVE  PathInv'
  BY <1>3, <1>t DEF InitReadFails, WriteSetting, WriteNothing, Fault
<1>4. ASSUME InitReads
      PROVE  PathInv'
  BY <1>4, <1>t DEF InitReads, WriteSetting, WriteNothing
<1>5. ASSUME NEW s \in Settings, WriteSpringHomeSetting(s)
      PROVE  PathInv'
  BY <1>5, <1>t DEF WriteSpringHomeSetting, WriteSetting
<1>6. ASSUME Flush
      PROVE  PathInv'
  BY <1>6, <1>t DEF Flush
<1>7. ASSUME Folders
      PROVE  PathInv'
  BY <1>7, <1>t DEF Folders
<1>8. ASSUME FoldersFail
      PROVE  PathInv'
  BY <1>8, <1>t DEF FoldersFail, Leave, Fault
<1>9. ASSUME step = "move", NEW p \in Unseen, Rename(p)
      PROVE  PathInv'
  <2>1. p \in Paths /\ package[p] = "file"
    BY <1>9 DEF Rename, Unseen, Children, WalkInv
  <2> QED
    BY <1>9, <1>t, <2>1 DEF Rename
<1>10. ASSUME step = "move", NEW p \in Unseen, RenameFails(p)
       PROVE  PathInv'
  BY <1>10, <1>t DEF RenameFails
<1>11. ASSUME step = "move", NEW p \in Unseen, Enter(p)
       PROVE  PathInv'
  <2>1. /\ p \in Paths /\ p \notin seen /\ Parent[p] = stack[Len(stack)]
        /\ stack' = Append(stack, p) /\ seen' = seen \cup {p} /\ package' = package
    BY <1>11 DEF Enter, Unseen, Children, Top
  <2>2. /\ Len(stack') = Len(stack) + 1 /\ stack'[Len(stack) + 1] = p /\ Len(stack) \in Nat \ {0}
        /\ \A i \in 1..Len(stack) : stack'[i] = stack[i]
    BY <1>11, <1>t, <2>1
  <2>3. ASSUME NEW i \in 1..Len(stack') - 1
        PROVE  stack'[i + 1] \in seen' /\ Parent[stack'[i + 1]] = stack'[i]
    <3>1. CASE i = Len(stack)
      BY <2>1, <2>2, <3>1
    <3>2. CASE i \in 1..Len(stack) - 1
      BY <2>1, <2>2, <3>2
    <3> QED
      BY <2>2, <3>1, <3>2
  <2>4. ASSUME NEW i \in 1..Len(stack)
        PROVE  stack[i] # p
    <3>1. CASE i = 1
      BY <1>11, <1>t, <2>1, <3>1, SpringHomeAssumption
    <3>2. CASE i - 1 \in 1..Len(stack) - 1
      <4>1. stack[(i - 1) + 1] \in seen
        BY <3>2
      <4> QED
        BY <2>1, <4>1
    <3> QED
      BY <2>2, <3>1, <3>2
  <2>5. ASSUME NEW i \in 1..Len(stack'), NEW j \in 1..Len(stack'), stack'[i] = stack'[j]
        PROVE  i = j
    <3>1. CASE i \in 1..Len(stack) /\ j \in 1..Len(stack)
      BY <2>2, <2>5, <3>1
    <3>2. CASE i = Len(stack) + 1 \/ j = Len(stack) + 1
      BY <2>2, <2>4, <2>5, <3>2
    <3> QED
      BY <2>2, <3>1, <3>2
  <2>6. \A h \in Homes, q \in Paths : dst'[h][q] \in {"torn", "new"} => package[q] = "file"
    BY <1>11, <1>t, <2>1 DEF Enter
  <2> QED
    BY <2>1, <2>3, <2>5, <2>6
<1>12. ASSUME step = "move", NEW p \in Unseen, EnterFails(p)
       PROVE  PathInv'
  BY <1>12, <1>t DEF EnterFails, Leave
<1>13. ASSUME step = "move", NEW p \in Unseen, Pass(p)
       PROVE  PathInv'
  BY <1>13, <1>t DEF Pass
<1>14. ASSUME Up
       PROVE  PathInv'
  <2>1. CASE Children(Top) # {} \/ locked
    BY <1>14, <2>1 DEF Up, Leave
  <2>2. CASE Children(Top) = {} /\ ~ locked
    <3>1. /\ stack' = SubSeq(stack, 1, Len(stack) - 1) /\ stack # <<>>
          /\ UNCHANGED <<seen, dst, package>>
      BY <1>14, <1>t, <2>2 DEF Up
    <3>2. /\ Len(SubSeq(stack, 1, Len(stack) - 1)) = Len(stack) - 1
          /\ \A i \in 1..Len(stack) - 1 : SubSeq(stack, 1, Len(stack) - 1)[i] = stack[i]
      BY <1>t, <3>1, Popped
    <3>3. /\ Len(stack') = Len(stack) - 1 /\ Len(stack) \in Nat \ {0}
          /\ \A i \in 1..Len(stack') : stack'[i] = stack[i]
      BY <1>t, <3>1, <3>2
    <3>4. ASSUME NEW i \in 1..Len(stack') - 1
          PROVE  stack'[i + 1] \in seen' /\ Parent[stack'[i + 1]] = stack'[i]
      <4>1. i \in 1..Len(stack) - 1 /\ i \in 1..Len(stack') /\ i + 1 \in 1..Len(stack')
        BY <3>3
      <4> QED
        BY <3>1, <3>3, <4>1
    <3>5. \A i, j \in 1..Len(stack') : stack'[i] = stack'[j] => i = j
      BY <3>3
    <3> QED
      BY <3>1, <3>4, <3>5
  <2> QED
    BY <2>1, <2>2
<1>15. ASSUME InitReturns
       PROVE  PathInv'
  BY <1>15, <1>t DEF InitReturns, Leave
<1>16. ASSUME CopyTruncate
       PROVE  PathInv'
  <2>1. moving \in Paths /\ package[moving] = "file"
    BY <1>16, <1>t DEF CopyTruncate, Copying
  <2> QED
    BY <1>16, <1>t, <2>1 DEF CopyTruncate
<1>17. ASSUME CopyWrite
       PROVE  PathInv'
  BY <1>17, <1>t DEF CopyWrite, Copying
<1>18. ASSUME CopyFails
       PROVE  PathInv'
  BY <1>18, <1>t DEF CopyFails, Fault
<1>19. ASSUME RemoveSource
       PROVE  PathInv'
  BY <1>19, <1>t DEF RemoveSource
<1>21. ASSUME NEW s \in Settings, WriteSpringHomeFails(s)
       PROVE  PathInv'
  BY <1>21, <1>t DEF WriteSpringHomeFails, WriteNothing
<1>22. ASSUME FlushFails
       PROVE  PathInv'
  BY <1>22, <1>t DEF FlushFails, Fault
<1>23. ASSUME MoveFails
       PROVE  PathInv'
  BY <1>23, <1>t DEF MoveFails, Leave, Fault
<1>24. ASSUME RemoveFails
       PROVE  PathInv'
  BY <1>24, <1>t DEF RemoveFails, Leave, Fault
<1>20. CASE UNCHANGED vars
  BY <1>20
<1> QED
  BY <1>1, <1>2, <1>3, <1>4, <1>5, <1>6, <1>7, <1>8, <1>9, <1>10, <1>11, <1>12, <1>13,
     <1>14, <1>15, <1>16, <1>17, <1>18, <1>19, <1>20, <1>21, <1>22, <1>23, <1>24
     DEF Next, GuiThread, Visit, Over

\* move() ends by an exception only if a call of the file system fails that might
\* have succeeded, or at what Obstructed names: a package nothing may be taken
\* from, something in it that is neither file nor directory, or a file in a home
\* where the package has a directory.  What an earlier init() has left, cut short
\* by an exception or by the end of the program, is never in its way.
THEOREM OnlyObstaclesThrow ==
    Spec => [][step' = "idle" /\ step \in {"move", "remove"} /\ ~ InitReturns =>
                  Obstructed \/ faults' = faults + 1]_vars
<1>1. Init => PathInv
  BY SpringHomeAssumption DEF Init, PathInv
<1>2. ASSUME TypeInv, WalkInv, PathInv, step = "move", NEW p \in Unseen, EnterFails(p)
      PROVE  Obstructed
  <2>1. /\ p \in Paths /\ src[p] = "dir" /\ package[p] = "dir"
        /\ home \in Homes /\ dst[home][p] \in TargetKinds \ {"none", "dir"}
    BY <1>2 DEF EnterFails, Unseen, Children, TypeInv, TypeOK, WalkInv
  <2>2. dst[home][p] = "old"
    BY <1>2, <2>1 DEF PathInv, TargetKinds
  <2> QED
    BY <2>1, <2>2 DEF Obstructed
<1>3. ASSUME TypeInv, WalkInv, PathInv, Up, ~ locked, step' = "idle"
      PROVE  Obstructed
  <2>1. Unseen = {} /\ Children(Top) # {} /\ step = "move" /\ stack # <<>>
    BY <1>3 DEF Up, TypeInv
  <2>2. PICK p \in Paths : Parent[p] = Top /\ src[p] # "none" /\ p \in seen
    BY <2>1 DEF Unseen, Children
  <2>3. ASSUME NEW i \in 1..Len(stack), stack[i] = p
        PROVE  FALSE
    <3>1. Len(stack) \in Nat \ {0} /\ stack[1] = Root
      BY <1>3, <2>1 DEF TypeInv, TypeOK
    <3>2. i # 1
      BY <2>3, <3>1, SpringHomeAssumption
    <3>3. i - 1 \in 1..Len(stack) - 1 /\ (i - 1) + 1 = i
      BY <3>1, <3>2
    <3>4. Parent[stack[(i - 1) + 1]] = stack[i - 1]
      BY <1>3, <3>3 DEF PathInv
    <3>5. stack[i - 1] = stack[Len(stack)]
      BY <2>2, <2>3, <3>3, <3>4 DEF Top
    <3>6. i - 1 = Len(stack)
      BY <1>3, <3>1, <3>3, <3>5 DEF PathInv
    <3> QED
      BY <3>1, <3>6
  <2>4. src[p] = "special"
    BY <1>3, <2>1, <2>2, <2>3 DEF WalkInv, Copying
  <2>5. package[p] = "special"
    BY <1>3, <2>4 DEF WalkInv
  <2> QED
    BY <2>5 DEF Obstructed
<1>4. ASSUME TypeInv, WalkInv, PathInv, [Next]_vars,
             step \in {"move", "remove"}, step' = "idle", ~ InitReturns
      PROVE  Obstructed \/ faults' = faults + 1
  <2>1. Visit \/ Up \/ MoveFails \/ RemoveFails
    BY <1>4 DEF Next, GuiThread, Start, Die, InitReads, InitReadFails, WriteSpringHomeSetting,
                WriteSpringHomeFails, Over, Flush, FlushFails, Folders, FoldersFail,
                CopyTruncate, CopyWrite, CopyFails, RemoveSource, Goto, vars
  <2>2. ASSUME NEW p \in Unseen, step = "move",
               EnterFails(p) \/ Rename(p) \/ RenameFails(p) \/ Enter(p) \/ Pass(p)
        PROVE  EnterFails(p)
    BY <1>4, <2>2 DEF Rename, RenameFails, Enter, Pass, Goto
  <2>3. CASE Visit
    BY <1>2, <1>4, <2>2, <2>3 DEF Visit
  <2>4. CASE Up
    BY <1>3, <1>4, <2>4 DEF Obstructed
  <2>5. CASE MoveFails
    BY <2>5 DEF MoveFails, Fault
  <2>6. CASE RemoveFails
    BY <2>6 DEF RemoveFails, Fault, Obstructed
  <2> QED
    BY <2>1, <2>3, <2>4, <2>5, <2>6
<1>5. TypeInv /\ WalkInv /\ PathInv /\ [Next]_vars =>
         [step' = "idle" /\ step \in {"move", "remove"} /\ ~ InitReturns =>
             Obstructed \/ faults' = faults + 1]_vars
  BY <1>4
<1> QED
  BY <1>1, <1>5, InitTypeInv, InitDataInv, InitWalkInv, NextTypeInv, NextDataInv, NextWalkInv,
     NextPathInv, PTL DEF Spec
=============================================================================
