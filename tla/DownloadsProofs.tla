---------------------------- MODULE DownloadsProofs ----------------------------
(***************************************************************************)
(* Theorems about downloads, for any number of download threads, files,    *)
(* versions, crashes and file system errors.                               *)
(***************************************************************************)
EXTENDS Downloads, TLAPS

\* The bounds are numbers.
LEMMA Bounds ==
    MaxStarts \in Nat /\ MaxPublish \in Nat /\ MaxCrashes \in Nat /\ MaxFaults \in Nat
  BY DownloadsAssumption

-----------------------------------------------------------------------------
(* Types.                                                                  *)

\* Nothing is on the disk and nobody downloads at first.
LEMMA InitTypeOK == Init => TypeOK
  BY Bounds, DownloadsAssumption
     DEF Init, TypeOK, Steps, Versions, Times, Callers, Absent, Whole, Blocks, NoDate

\* Every step keeps the types.
LEMMA NextTypeOK == TypeOK /\ [Next]_vars => TypeOK'
<1> SUFFICES ASSUME TypeOK, [Next]_vars
             PROVE  TypeOK'
  OBVIOUS
<1> USE DEF vars, callVars, diskVars, serverVars, histVars, counters, Goto,
        NoFault
<1>1. ASSUME NEW d \in Callers, NEW f \in Files, NEW c \in BOOLEAN, Call(d, f, c)
      PROVE  TypeOK'
  BY <1>1, Bounds DEF Call, TypeOK, Steps, Versions, Times
<1>2. ASSUME Quit
      PROVE  TypeOK'
  BY <1>2, Bounds DEF Quit, TypeOK, Steps, Versions, Times
<1>3. ASSUME Joined
      PROVE  TypeOK'
  BY <1>3, Bounds DEF Joined, TypeOK, Steps, Versions, Times
<1>4. ASSUME NEW d \in Callers, Gmtime(d)
      PROVE  TypeOK'
  BY <1>4, Bounds DEF Gmtime, TypeOK, Steps, Versions, Times
<1>5. ASSUME NEW d \in Callers, Unconditional(d)
      PROVE  TypeOK'
  BY <1>5, Bounds DEF Unconditional, TypeOK, Steps, Versions, Times
<1>6. ASSUME NEW d \in Callers, Format(d)
      PROVE  TypeOK'
  BY <1>6, Bounds DEF Format, TypeOK, Steps, Versions, Times
<1>7. ASSUME NEW d \in Callers, OpenTemp(d)
      PROVE  TypeOK'
  BY <1>7, Bounds DEF OpenTemp, TypeOK, Steps, Versions, Times
<1>8. ASSUME NEW d \in Callers, OpenTempFails(d)
      PROVE  TypeOK'
  BY <1>8, Bounds DEF OpenTempFails, Fault, TypeOK, Steps, Versions, Times
<1>9. ASSUME NEW d \in Callers, PerformFails(d)
      PROVE  TypeOK'
  BY <1>9, Bounds DEF PerformFails, TypeOK, Steps, Versions, Times
<1>10. ASSUME NEW d \in Callers, NotModified(d)
       PROVE  TypeOK'
  BY <1>10, Bounds DEF NotModified, TypeOK, Steps, Versions, Times
<1>11. ASSUME NEW d \in Callers, Received(d)
       PROVE  TypeOK'
  BY <1>11, Bounds DEF Received, TypeOK, Steps, Versions, Times
<1>12. ASSUME NEW d \in Callers, ReceivedNothing(d)
       PROVE  TypeOK'
  BY <1>12, Bounds DEF ReceivedNothing, Fault, TypeOK, Steps, Versions, Times
<1>13. ASSUME NEW d \in Callers, CopyTruncate(d)
       PROVE  TypeOK'
  <2>1. disk' \in [Files -> [Blocks -> Versions \cup {0}]]
    <3>1. Absent \in [Blocks -> Versions \cup {0}]
      BY DEF Absent, Whole
    <3> QED
      BY <1>13, <3>1 DEF CopyTruncate, TypeOK
  <2>2. tainted' \in [Files -> BOOLEAN]
    <3>1. CASE Writing(file[d]) # {}
      BY <1>13, <3>1 DEF CopyTruncate, TypeOK
    <3>2. CASE Writing(file[d]) = {} /\ clean[d]
      BY <1>13, <3>2 DEF CopyTruncate, TypeOK
    <3>3. CASE Writing(file[d]) = {} /\ ~ clean[d]
      BY <1>13, <3>3 DEF CopyTruncate, TypeOK
    <3> QED
      BY <3>1, <3>2, <3>3
  <2> QED
    BY <1>13, <2>1, <2>2 DEF CopyTruncate, TypeOK, Steps
<1>14. ASSUME NEW d \in Callers, CopyFails(d)
       PROVE  TypeOK'
  BY <1>14, Bounds DEF CopyFails, Fault, TypeOK, Steps, Versions, Times
<1>15. ASSUME NEW d \in Callers, CopyBlock(d, 1, "block1", "block2")
       PROVE  TypeOK'
  BY <1>15, Bounds DEF CopyBlock, TypeOK, Steps, Versions, Times
<1>16. ASSUME NEW d \in Callers, CopyBlock(d, 2, "block2", "report")
       PROVE  TypeOK'
  BY <1>16, Bounds DEF CopyBlock, TypeOK, Steps, Versions, Times
<1>17. ASSUME NEW d \in Callers, Report(d)
       PROVE  TypeOK'
  BY <1>17, Bounds DEF Report, TypeOK, Steps, Versions, Times
<1>18. ASSUME NEW f \in Files, Publish(f)
       PROVE  TypeOK'
  BY <1>18, Bounds DEF Publish, TypeOK, Steps, Versions, Times
<1>19. ASSUME Crash
       PROVE  TypeOK'
  BY <1>19, Bounds DEF Crash, TypeOK, Steps, Versions, Times
<1>20. CASE UNCHANGED vars
  BY <1>20 DEF TypeOK, Steps, Versions, Times
<1> QED
  BY <1>1, <1>2, <1>3, <1>4, <1>5, <1>6, <1>7, <1>8, <1>9, <1>10, <1>11, <1>12, <1>13,
     <1>14, <1>15, <1>16, <1>17, <1>18, <1>19, <1>20
     DEF Next, StartDownload, DownloadFile, Callers, Step, Transfer, Copy, Over

\* Every variable keeps its type.
THEOREM TypeCorrect == Spec => []TypeOK
  BY InitTypeOK, NextTypeOK, PTL DEF Spec

-----------------------------------------------------------------------------
(* What disturbs a download.                                               *)

Copying(d)  == pc[d] \in {"block1", "block2"}
Fetching(d) == pc[d] = "truncate" \/ Copying(d)

\* Neither a target nor a version is from the future.
TimeInv == \A f \in Files : mtime[f] <= now /\ modified[f] <= now

\* No file is dated before the start.
LEMMA InitTimeInv == Init => TimeInv
  BY DEF Init, TimeInv, Absent, Whole, Blocks

\* The clock does not go back.
LEMMA NextTimeInv == TypeOK /\ TimeInv /\ [Next]_vars => TimeInv'
<1> SUFFICES ASSUME TypeOK /\ TimeInv, [Next]_vars
             PROVE  TimeInv'
  OBVIOUS
<1> USE DEF vars, callVars, diskVars, serverVars, histVars, counters, Goto,
        NoFault
<1>1. ASSUME NEW d \in Callers, NEW f \in Files, NEW c \in BOOLEAN, Call(d, f, c)
      PROVE  TimeInv'
  BY <1>1, Bounds DEF Call, TimeInv, TypeOK, Times
<1>2. ASSUME Quit
      PROVE  TimeInv'
  BY <1>2, Bounds DEF Quit, TimeInv, TypeOK, Times
<1>3. ASSUME Joined
      PROVE  TimeInv'
  BY <1>3, Bounds DEF Joined, TimeInv, TypeOK, Times
<1>4. ASSUME NEW d \in Callers, Gmtime(d)
      PROVE  TimeInv'
  BY <1>4, Bounds DEF Gmtime, TimeInv, TypeOK, Times
<1>5. ASSUME NEW d \in Callers, Unconditional(d)
      PROVE  TimeInv'
  BY <1>5, Bounds DEF Unconditional, TimeInv, TypeOK, Times
<1>6. ASSUME NEW d \in Callers, Format(d)
      PROVE  TimeInv'
  BY <1>6, Bounds DEF Format, TimeInv, TypeOK, Times
<1>7. ASSUME NEW d \in Callers, OpenTemp(d)
      PROVE  TimeInv'
  BY <1>7, Bounds DEF OpenTemp, TimeInv, TypeOK, Times
<1>8. ASSUME NEW d \in Callers, OpenTempFails(d)
      PROVE  TimeInv'
  BY <1>8, Bounds DEF OpenTempFails, Fault, TimeInv, TypeOK, Times
<1>9. ASSUME NEW d \in Callers, PerformFails(d)
      PROVE  TimeInv'
  BY <1>9, Bounds DEF PerformFails, TimeInv, TypeOK, Times
<1>10. ASSUME NEW d \in Callers, NotModified(d)
       PROVE  TimeInv'
  BY <1>10, Bounds DEF NotModified, TimeInv, TypeOK, Times
<1>11. ASSUME NEW d \in Callers, Received(d)
       PROVE  TimeInv'
  BY <1>11, Bounds DEF Received, TimeInv, TypeOK, Times
<1>12. ASSUME NEW d \in Callers, ReceivedNothing(d)
       PROVE  TimeInv'
  BY <1>12, Bounds DEF ReceivedNothing, Fault, TimeInv, TypeOK, Times
<1>13. ASSUME NEW d \in Callers, CopyTruncate(d)
       PROVE  TimeInv'
  BY <1>13, Bounds DEF CopyTruncate, TimeInv, TypeOK, Times
<1>14. ASSUME NEW d \in Callers, CopyFails(d)
       PROVE  TimeInv'
  BY <1>14, Bounds DEF CopyFails, Fault, TimeInv, TypeOK, Times
<1>15. ASSUME NEW d \in Callers, CopyBlock(d, 1, "block1", "block2")
       PROVE  TimeInv'
  BY <1>15, Bounds DEF CopyBlock, TimeInv, TypeOK, Times
<1>16. ASSUME NEW d \in Callers, CopyBlock(d, 2, "block2", "report")
       PROVE  TimeInv'
  BY <1>16, Bounds DEF CopyBlock, TimeInv, TypeOK, Times
<1>17. ASSUME NEW d \in Callers, Report(d)
       PROVE  TimeInv'
  BY <1>17, Bounds DEF Report, TimeInv, TypeOK, Times
<1>18. ASSUME NEW f \in Files, Publish(f)
       PROVE  TimeInv'
  BY <1>18, Bounds DEF Publish, TimeInv, TypeOK, Times
<1>19. ASSUME Crash
       PROVE  TimeInv'
  BY <1>19, Bounds DEF Crash, TimeInv, TypeOK, Times
<1>20. CASE UNCHANGED vars
  BY <1>20 DEF TimeInv, TypeOK, Times
<1> QED
  BY <1>1, <1>2, <1>3, <1>4, <1>5, <1>6, <1>7, <1>8, <1>9, <1>10, <1>11, <1>12, <1>13,
     <1>14, <1>15, <1>16, <1>17, <1>18, <1>19, <1>20
     DEF Next, StartDownload, DownloadFile, Callers, Step, Transfer, Copy, Over

\* A clean download is the only one that runs, and what it has fetched is
\* the version the server still has.
AloneInv ==
    \A d \in Callers : clean[d] =>
        /\ \A e \in Callers : pc[e] # "idle" => e = d
        /\ Fetching(d) => temp[d] = server[file[d]]

\* Nobody works on a temporary file before the first download.
LEMMA InitAloneInv == Init => AloneInv
  BY DEF Init, AloneInv

\* A call takes the cleanness of all others, a new version and a fault that
\* of the downloads they concern.
LEMMA NextAloneInv == TypeOK /\ AloneInv /\ [Next]_vars => AloneInv'
<1> SUFFICES ASSUME TypeOK /\ AloneInv, [Next]_vars
             PROVE  AloneInv'
  OBVIOUS
<1> USE DEF vars, callVars, diskVars, serverVars, histVars, counters, Goto,
        NoFault
<1>1. ASSUME NEW d \in Callers, NEW f \in Files, NEW c \in BOOLEAN, Call(d, f, c)
      PROVE  AloneInv'
  <2>1. /\ pc' = [pc EXCEPT ![d] = "begin"]
        /\ clean' = [e \in Callers |-> e = d /\ Running = {}]
    BY <1>1 DEF Call
  <2>2. ASSUME NEW e \in Callers, clean'[e]
        PROVE  e = d /\ \A x \in Callers : pc[x] = "idle"
    BY <2>1, <2>2 DEF Running
  <2>3. pc \in [Callers -> Steps]
    BY DEF TypeOK
  <2> QED
    BY <2>1, <2>2, <2>3 DEF AloneInv, Fetching, Copying
<1>2. ASSUME Quit
      PROVE  AloneInv'
  BY <1>2 DEF Quit, AloneInv, Fetching, Copying, TypeOK
<1>3. ASSUME Joined
      PROVE  AloneInv'
  BY <1>3 DEF Joined, AloneInv, Fetching, Copying, TypeOK
<1>4. ASSUME NEW d \in Callers, Gmtime(d)
      PROVE  AloneInv'
  BY <1>4 DEF Gmtime, AloneInv, Fetching, Copying, TypeOK
<1>5. ASSUME NEW d \in Callers, Unconditional(d)
      PROVE  AloneInv'
  BY <1>5 DEF Unconditional, AloneInv, Fetching, Copying, TypeOK
<1>6. ASSUME NEW d \in Callers, Format(d)
      PROVE  AloneInv'
  BY <1>6 DEF Format, AloneInv, Fetching, Copying, TypeOK
<1>7. ASSUME NEW d \in Callers, OpenTemp(d)
      PROVE  AloneInv'
  BY <1>7 DEF OpenTemp, AloneInv, Fetching, Copying, TypeOK
<1>8. ASSUME NEW d \in Callers, OpenTempFails(d)
      PROVE  AloneInv'
  BY <1>8 DEF OpenTempFails, Fault, AloneInv, Fetching, Copying, TypeOK
<1>9. ASSUME NEW d \in Callers, PerformFails(d)
      PROVE  AloneInv'
  BY <1>9 DEF PerformFails, AloneInv, Fetching, Copying, TypeOK
<1>10. ASSUME NEW d \in Callers, NotModified(d)
       PROVE  AloneInv'
  BY <1>10 DEF NotModified, AloneInv, Fetching, Copying, TypeOK
<1>11. ASSUME NEW d \in Callers, Received(d)
       PROVE  AloneInv'
  BY <1>11 DEF Received, AloneInv, Fetching, Copying, TypeOK
<1>12. ASSUME NEW d \in Callers, ReceivedNothing(d)
       PROVE  AloneInv'
  BY <1>12 DEF ReceivedNothing, Fault, AloneInv, Fetching, Copying, TypeOK
<1>13. ASSUME NEW d \in Callers, CopyTruncate(d)
       PROVE  AloneInv'
  BY <1>13 DEF CopyTruncate, AloneInv, Fetching, Copying, TypeOK
<1>14. ASSUME NEW d \in Callers, CopyFails(d)
       PROVE  AloneInv'
  BY <1>14 DEF CopyFails, Fault, AloneInv, Fetching, Copying, TypeOK
<1>15. ASSUME NEW d \in Callers, CopyBlock(d, 1, "block1", "block2")
       PROVE  AloneInv'
  BY <1>15 DEF CopyBlock, AloneInv, Fetching, Copying, TypeOK
<1>16. ASSUME NEW d \in Callers, CopyBlock(d, 2, "block2", "report")
       PROVE  AloneInv'
  BY <1>16 DEF CopyBlock, AloneInv, Fetching, Copying, TypeOK
<1>17. ASSUME NEW d \in Callers, Report(d)
       PROVE  AloneInv'
  BY <1>17 DEF Report, AloneInv, Fetching, Copying, TypeOK
<1>18. ASSUME NEW f \in Files, Publish(f)
       PROVE  AloneInv'
  BY <1>18 DEF Publish, AloneInv, Fetching, Copying, TypeOK
<1>19. ASSUME Crash
       PROVE  AloneInv'
  BY <1>19 DEF Crash, AloneInv, Fetching, Copying, TypeOK
<1>20. CASE UNCHANGED vars
  BY <1>20 DEF AloneInv, Fetching, Copying, TypeOK
<1> QED
  BY <1>1, <1>2, <1>3, <1>4, <1>5, <1>6, <1>7, <1>8, <1>9, <1>10, <1>11, <1>12, <1>13,
     <1>14, <1>15, <1>16, <1>17, <1>18, <1>19, <1>20
     DEF Next, StartDownload, DownloadFile, Callers, Step, Transfer, Copy, Over

-----------------------------------------------------------------------------
(* What is on the disk.                                                    *)

\* An undisturbed target has at most one writer, who has put there what it
\* has fetched, the server's version, as far as it has come.
WriterInv ==
    \A d \in Callers : ~ tainted[file[d]] =>
        /\ pc[d] = "block1" => disk[file[d]] = Absent
        /\ pc[d] = "block2" => disk[file[d]] = [Absent EXCEPT ![1] = temp[d]]
        /\ Fetching(d) => temp[d] = server[file[d]]
        /\ \A e \in Callers : Copying(d) /\ Copying(e) /\ file[e] = file[d] => d = e

\* Nobody has disturbed anybody at first.
LEMMA InitWriterInv == Init => WriterInv
  BY DEF Init, WriterInv, Fetching, Copying

\* Whoever empties a target that is being written taints it, and so do a copy
\* cut short and a version that a running download has missed.
LEMMA NextWriterInv == TypeOK /\ AloneInv /\ WriterInv /\ [Next]_vars => WriterInv'
<1> SUFFICES ASSUME TypeOK /\ AloneInv /\ WriterInv, [Next]_vars
             PROVE  WriterInv'
  OBVIOUS
<1> USE DEF vars, callVars, diskVars, serverVars, histVars, counters, Goto,
        NoFault
<1>1. ASSUME NEW d \in Callers, NEW f \in Files, NEW c \in BOOLEAN, Call(d, f, c)
      PROVE  WriterInv'
  BY <1>1 DEF Call, WriterInv, Fetching, Copying, TypeOK
<1>2. ASSUME Quit
      PROVE  WriterInv'
  BY <1>2 DEF Quit, WriterInv, Fetching, Copying, TypeOK
<1>3. ASSUME Joined
      PROVE  WriterInv'
  BY <1>3 DEF Joined, WriterInv, Fetching, Copying, TypeOK
<1>4. ASSUME NEW d \in Callers, Gmtime(d)
      PROVE  WriterInv'
  BY <1>4 DEF Gmtime, WriterInv, Fetching, Copying, TypeOK
<1>5. ASSUME NEW d \in Callers, Unconditional(d)
      PROVE  WriterInv'
  BY <1>5 DEF Unconditional, WriterInv, Fetching, Copying, TypeOK
<1>6. ASSUME NEW d \in Callers, Format(d)
      PROVE  WriterInv'
  BY <1>6 DEF Format, WriterInv, Fetching, Copying, TypeOK
<1>7. ASSUME NEW d \in Callers, OpenTemp(d)
      PROVE  WriterInv'
  BY <1>7 DEF OpenTemp, WriterInv, Fetching, Copying, TypeOK
<1>8. ASSUME NEW d \in Callers, OpenTempFails(d)
      PROVE  WriterInv'
  BY <1>8 DEF OpenTempFails, Fault, WriterInv, Fetching, Copying, TypeOK
<1>9. ASSUME NEW d \in Callers, PerformFails(d)
      PROVE  WriterInv'
  BY <1>9 DEF PerformFails, WriterInv, Fetching, Copying, TypeOK
<1>10. ASSUME NEW d \in Callers, NotModified(d)
       PROVE  WriterInv'
  BY <1>10 DEF NotModified, WriterInv, Fetching, Copying, TypeOK
<1>11. ASSUME NEW d \in Callers, Received(d)
       PROVE  WriterInv'
  BY <1>11 DEF Received, WriterInv, Fetching, Copying, TypeOK
<1>12. ASSUME NEW d \in Callers, ReceivedNothing(d)
       PROVE  WriterInv'
  BY <1>12 DEF ReceivedNothing, Fault, WriterInv, Fetching, Copying, TypeOK
<1>13. ASSUME NEW d \in Callers, CopyTruncate(d)
       PROVE  WriterInv'
  <2>1. /\ pc[d] = "truncate" /\ pc' = [pc EXCEPT ![d] = "block1"]
        /\ disk' = [disk EXCEPT ![file[d]] = Absent]
        /\ UNCHANGED <<file, temp, server, clean>>
    BY <1>13 DEF CopyTruncate
  <2>2. /\ tainted' = [tainted EXCEPT ![file[d]] = tainted'[file[d]]]
        /\ ~ tainted'[file[d]] =>
              Writing(file[d]) = {} /\ (clean[d] \/ ~ tainted[file[d]])
    BY <1>13 DEF CopyTruncate, TypeOK
  <2>3. ~ tainted'[file[d]] => \A e \in Callers : file[e] = file[d] => ~ Copying(e)
    BY <2>2 DEF Writing, Copying
  <2>4. ASSUME NEW e \in Callers, ~ tainted'[file[d]], file[e] = file[d], e # d
        PROVE  pc[e] = "idle" \/ ~ tainted[file[d]]
    BY <2>1, <2>2, <2>4 DEF AloneInv
  <2>5. ~ tainted'[file[d]] => temp[d] = server[file[d]]
    BY <2>1, <2>2 DEF AloneInv, WriterInv, Fetching
  <2> QED
    BY <2>1, <2>2, <2>3, <2>4, <2>5 DEF WriterInv, Fetching, Copying, TypeOK
<1>14. ASSUME NEW d \in Callers, CopyFails(d)
       PROVE  WriterInv'
  BY <1>14 DEF CopyFails, Fault, WriterInv, Fetching, Copying, TypeOK
<1>15. ASSUME NEW d \in Callers, CopyBlock(d, 1, "block1", "block2")
       PROVE  WriterInv'
  <2>1. /\ pc[d] = "block1" /\ pc' = [pc EXCEPT ![d] = "block2"]
        /\ disk' = [disk EXCEPT ![file[d]] = [disk[file[d]] EXCEPT ![1] = temp[d]]]
        /\ UNCHANGED <<file, temp, server, tainted>>
    BY <1>15 DEF CopyBlock
  <2>2. \A e \in Callers : file[e] = file[d] /\ e # d /\ ~ tainted[file[d]] => ~ Copying(e)
    BY <2>1 DEF WriterInv, Copying
  <2> QED
    BY <2>1, <2>2 DEF WriterInv, Fetching, Copying, TypeOK
<1>16. ASSUME NEW d \in Callers, CopyBlock(d, 2, "block2", "report")
       PROVE  WriterInv'
  BY <1>16 DEF CopyBlock, WriterInv, Fetching, Copying, TypeOK
<1>17. ASSUME NEW d \in Callers, Report(d)
       PROVE  WriterInv'
  BY <1>17 DEF Report, WriterInv, Fetching, Copying, TypeOK
<1>18. ASSUME NEW f \in Files, Publish(f)
       PROVE  WriterInv'
  <2>1. /\ server' = [server EXCEPT ![f] = @ + 1]
        /\ tainted' = [tainted EXCEPT ![f] = tainted'[f]]
        /\ UNCHANGED <<pc, file, temp, disk>>
    BY <1>18 DEF Publish, TypeOK
  <2>2. ~ tainted'[f] => ~ tainted[f] /\ \A e \in Callers : file[e] = f => pc[e] = "idle"
    BY <1>18 DEF Publish, TypeOK, Running
  <2> QED
    BY <2>1, <2>2 DEF WriterInv, Fetching, Copying, TypeOK
<1>19. ASSUME Crash
       PROVE  WriterInv'
  BY <1>19 DEF Crash, WriterInv, Fetching, Copying, TypeOK
<1>20. CASE UNCHANGED vars
  BY <1>20 DEF WriterInv, Fetching, Copying, TypeOK
<1> QED
  BY <1>1, <1>2, <1>3, <1>4, <1>5, <1>6, <1>7, <1>8, <1>9, <1>10, <1>11, <1>12, <1>13,
     <1>14, <1>15, <1>16, <1>17, <1>18, <1>19, <1>20
     DEF Next, StartDownload, DownloadFile, Callers, Step, Transfer, Copy, Over

\* A target that is not being written is whole, and if its date says that it
\* is new it is the version the server has.
DiskInv == WholeUnlessDisturbed /\ DateIsHonest

\* The two blocks of one version make it whole.
LEMMA BothBlocks ==
    ASSUME NEW v
    PROVE  [[Absent EXCEPT ![1] = v] EXCEPT ![2] = v] = Whole(v)
<1>1. Absent = [b \in 1..2 |-> 0]
  BY DEF Absent, Whole, Blocks
<1>2. Whole(v) = [b \in 1..2 |-> v]
  BY DEF Whole, Blocks
<1>3. \A b \in 1..2 : b = 1 \/ b = 2
  OBVIOUS
<1>4. \A b \in 1..2 : [[Absent EXCEPT ![1] = v] EXCEPT ![2] = v][b] = v
  BY <1>1, <1>3
<1> QED
  BY <1>1, <1>2, <1>4

\* The disk is empty at first.
LEMMA InitDiskInv == Init => DiskInv
  BY DownloadsAssumption
     DEF Init, DiskInv, WholeUnlessDisturbed, DateIsHonest, Writing, Versions, Absent, Whole, Blocks

\* The last block makes the target whole; nothing else ends a copy that
\* leaves it untainted.
LEMMA NextDiskInv ==
    TypeOK /\ TimeInv /\ WriterInv /\ DiskInv /\ [Next]_vars => DiskInv'
<1> SUFFICES ASSUME TypeOK /\ TimeInv /\ WriterInv /\ DiskInv, [Next]_vars
             PROVE  DiskInv'
  OBVIOUS
<1> USE DEF vars, callVars, diskVars, serverVars, histVars, counters, Goto,
        NoFault
<1>1. ASSUME NEW d \in Callers, NEW f \in Files, NEW c \in BOOLEAN, Call(d, f, c)
      PROVE  DiskInv'
  BY <1>1 DEF Call, DiskInv, WholeUnlessDisturbed, DateIsHonest, Writing, TypeOK
<1>2. ASSUME Quit
      PROVE  DiskInv'
  BY <1>2 DEF Quit, DiskInv, WholeUnlessDisturbed, DateIsHonest, Writing, TypeOK
<1>3. ASSUME Joined
      PROVE  DiskInv'
  BY <1>3 DEF Joined, DiskInv, WholeUnlessDisturbed, DateIsHonest, Writing, TypeOK
<1>4. ASSUME NEW d \in Callers, Gmtime(d)
      PROVE  DiskInv'
  BY <1>4 DEF Gmtime, DiskInv, WholeUnlessDisturbed, DateIsHonest, Writing, TypeOK
<1>5. ASSUME NEW d \in Callers, Unconditional(d)
      PROVE  DiskInv'
  BY <1>5 DEF Unconditional, DiskInv, WholeUnlessDisturbed, DateIsHonest, Writing,
     TypeOK
<1>6. ASSUME NEW d \in Callers, Format(d)
      PROVE  DiskInv'
  BY <1>6 DEF Format, DiskInv, WholeUnlessDisturbed, DateIsHonest, Writing, TypeOK
<1>7. ASSUME NEW d \in Callers, OpenTemp(d)
      PROVE  DiskInv'
  BY <1>7 DEF OpenTemp, DiskInv, WholeUnlessDisturbed, DateIsHonest, Writing, TypeOK
<1>8. ASSUME NEW d \in Callers, OpenTempFails(d)
      PROVE  DiskInv'
  BY <1>8 DEF OpenTempFails, Fault, DiskInv, WholeUnlessDisturbed, DateIsHonest,
     Writing, TypeOK
<1>9. ASSUME NEW d \in Callers, PerformFails(d)
      PROVE  DiskInv'
  BY <1>9 DEF PerformFails, DiskInv, WholeUnlessDisturbed, DateIsHonest, Writing, TypeOK
<1>10. ASSUME NEW d \in Callers, NotModified(d)
       PROVE  DiskInv'
  BY <1>10 DEF NotModified, DiskInv, WholeUnlessDisturbed, DateIsHonest, Writing, TypeOK
<1>11. ASSUME NEW d \in Callers, Received(d)
       PROVE  DiskInv'
  BY <1>11 DEF Received, DiskInv, WholeUnlessDisturbed, DateIsHonest, Writing, TypeOK
<1>12. ASSUME NEW d \in Callers, ReceivedNothing(d)
       PROVE  DiskInv'
  BY <1>12 DEF ReceivedNothing, Fault, DiskInv, WholeUnlessDisturbed, DateIsHonest,
     Writing, TypeOK
<1>13. ASSUME NEW d \in Callers, CopyTruncate(d)
       PROVE  DiskInv'
  BY <1>13 DEF CopyTruncate, DiskInv, WholeUnlessDisturbed, DateIsHonest, Writing,
     TypeOK
<1>14. ASSUME NEW d \in Callers, CopyFails(d)
       PROVE  DiskInv'
  <2>1. /\ pc' = [pc EXCEPT ![d] = "report"]
        /\ tainted' = [tainted EXCEPT ![file[d]] = @ \/ pc[d] # "truncate"]
        /\ UNCHANGED <<file, disk, mtime, server, modified>>
    BY <1>14 DEF CopyFails
  <2>2. ASSUME NEW f \in Files, ~ tainted'[f], Writing(f)' = {}
        PROVE  ~ tainted[f] /\ Writing(f) = {}
    <3>1. ~ tainted[f] /\ (file[d] = f => pc[d] = "truncate")
      BY <2>1, <2>2 DEF TypeOK
    <3>2. ASSUME NEW e \in Writing(f)
          PROVE  e \in Writing(f)'
      BY <2>1, <3>1 DEF Writing, TypeOK
    <3> QED
      BY <2>2, <3>1, <3>2
  <2> QED
    BY <2>1, <2>2 DEF DiskInv, WholeUnlessDisturbed, DateIsHonest
<1>15. ASSUME NEW d \in Callers, CopyBlock(d, 1, "block1", "block2")
       PROVE  DiskInv'
  BY <1>15 DEF CopyBlock, DiskInv, WholeUnlessDisturbed, DateIsHonest, Writing, TypeOK
<1>16. ASSUME NEW d \in Callers, CopyBlock(d, 2, "block2", "report")
       PROVE  DiskInv'
  <2>1. /\ pc[d] = "block2" /\ pc' = [pc EXCEPT ![d] = "report"]
        /\ disk' = [disk EXCEPT ![file[d]] = [disk[file[d]] EXCEPT ![2] = temp[d]]]
        /\ mtime' = [mtime EXCEPT ![file[d]] = now]
        /\ UNCHANGED <<file, server, modified, tainted>>
    BY <1>16 DEF CopyBlock
  <2>2. ASSUME NEW f \in Files, f # file[d]
        PROVE  Writing(f)' = Writing(f)
    BY <2>1, <2>2 DEF Writing, TypeOK
  <2>3. ~ tainted[file[d]] => disk'[file[d]] = Whole(temp[d]) /\ temp[d] = server[file[d]]
    <3>1. SUFFICES ASSUME ~ tainted[file[d]]
                   PROVE  disk'[file[d]] = Whole(temp[d]) /\ temp[d] = server[file[d]]
      OBVIOUS
    <3>2. disk[file[d]] = [Absent EXCEPT ![1] = temp[d]] /\ temp[d] = server[file[d]]
      BY <2>1, <3>1 DEF WriterInv, Fetching, Copying
    <3>3. disk'[file[d]] = [disk[file[d]] EXCEPT ![2] = temp[d]]
      BY <2>1 DEF TypeOK
    <3> QED
      BY <3>2, <3>3, BothBlocks
  <2>4. WholeUnlessDisturbed'
    BY <2>1, <2>2, <2>3 DEF DiskInv, WholeUnlessDisturbed, TypeOK
  <2>5. DateIsHonest'
    BY <2>1, <2>2, <2>3 DEF DiskInv, DateIsHonest, TypeOK
  <2> QED
    BY <2>4, <2>5 DEF DiskInv
<1>17. ASSUME NEW d \in Callers, Report(d)
       PROVE  DiskInv'
  BY <1>17 DEF Report, DiskInv, WholeUnlessDisturbed, DateIsHonest, Writing, TypeOK
<1>18. ASSUME NEW f \in Files, Publish(f)
       PROVE  DiskInv'
  <2>1. /\ server' = [server EXCEPT ![f] = @ + 1]
        /\ modified' = [modified EXCEPT ![f] = now'] /\ now' \in {now, now + 1}
        /\ tainted' = [tainted EXCEPT ![f] = tainted'[f]]
        /\ UNCHANGED <<pc, file, disk, mtime>>
    BY <1>18 DEF Publish, TypeOK
  <2>2. ~ tainted'[f] => ~ tainted[f] /\ mtime[f] # now'
    BY <1>18 DEF Publish, TypeOK
  <2>3. mtime[f] \in Int /\ now \in Int /\ mtime[f] <= now
    BY Bounds DEF TimeInv, TypeOK, Times
  <2>4. ~ tainted'[f] => ~ (modified'[f] <= mtime'[f])
    <3>1. modified'[f] = now' /\ mtime'[f] = mtime[f]
      BY <2>1 DEF TypeOK
    <3> QED
      BY <2>1, <2>2, <2>3, <3>1
  <2>5. \A g \in Files : ~ tainted'[g] => ~ tainted[g]
    BY <2>1, <2>2 DEF TypeOK
  <2>6. WholeUnlessDisturbed'
    BY <2>1, <2>5 DEF DiskInv, WholeUnlessDisturbed, Writing
  <2>7. DateIsHonest'
    BY <2>1, <2>4, <2>5 DEF DiskInv, DateIsHonest, Writing, TypeOK
  <2> QED
    BY <2>6, <2>7 DEF DiskInv
<1>19. ASSUME Crash
       PROVE  DiskInv'
  BY <1>19 DEF Crash, DiskInv, WholeUnlessDisturbed, DateIsHonest, Writing, TypeOK
<1>20. CASE UNCHANGED vars
  BY <1>20 DEF DiskInv, WholeUnlessDisturbed, DateIsHonest, Writing, TypeOK
<1> QED
  BY <1>1, <1>2, <1>3, <1>4, <1>5, <1>6, <1>7, <1>8, <1>9, <1>10, <1>11, <1>12, <1>13,
     <1>14, <1>15, <1>16, <1>17, <1>18, <1>19, <1>20
     DEF Next, StartDownload, DownloadFile, Callers, Step, Transfer, Copy, Over

\* A clean download asks with a date no later than that of its target, and
\* when it is about to say "done" the target is new, torn ones excepted.
AnswerInv ==
    \A d \in Callers : clean[d] =>
        /\ pc[d] = "format" => tm <= mtime[file[d]]
        /\ pc[d] \in {"open", "perform"} => asks[d] <= mtime[file[d]]
        /\ pc[d] = "report" /\ ~ tainted[file[d]] =>
              disk[file[d]] = Whole(server[file[d]])

\* Nothing has been answered at first.
LEMMA InitAnswerInv == Init => AnswerInv
  BY DEF Init, AnswerInv

\* Nobody writes the target of a clean download, nor to the buffer of
\* gmtime(), from the question to the answer.
LEMMA NextAnswerInv ==
    TypeOK /\ AloneInv /\ WriterInv /\ DiskInv /\ AnswerInv /\ [Next]_vars => AnswerInv'
<1> SUFFICES ASSUME TypeOK /\ AloneInv /\ WriterInv /\ DiskInv /\ AnswerInv, [Next]_vars
             PROVE  AnswerInv'
  OBVIOUS
<1> USE DEF vars, callVars, diskVars, serverVars, histVars, counters, Goto,
        NoFault
<1>1. ASSUME NEW d \in Callers, NEW f \in Files, NEW c \in BOOLEAN, Call(d, f, c)
      PROVE  AnswerInv'
  BY <1>1 DEF Call, AnswerInv, AloneInv, TypeOK
<1>2. ASSUME Quit
      PROVE  AnswerInv'
  BY <1>2 DEF Quit, AnswerInv, AloneInv, TypeOK
<1>3. ASSUME Joined
      PROVE  AnswerInv'
  BY <1>3 DEF Joined, AnswerInv, AloneInv, TypeOK
<1>4. ASSUME NEW d \in Callers, Gmtime(d)
      PROVE  AnswerInv'
  <2>1. /\ pc[d] = "begin" /\ pc' = [pc EXCEPT ![d] = "format"]
        /\ tm' = mtime[file[d]]
        /\ UNCHANGED <<file, asks, mtime, clean>>
    BY <1>4 DEF Gmtime
  <2>2. \A e \in Callers : clean[e] => e = d
    BY <2>1 DEF AloneInv
  <2>3. mtime[file[d]] <= mtime[file[d]]
    BY Bounds DEF TypeOK, Times
  <2> QED
    BY <2>1, <2>2, <2>3 DEF AnswerInv, TypeOK
<1>5. ASSUME NEW d \in Callers, Unconditional(d)
      PROVE  AnswerInv'
  <2>1. /\ pc' = [pc EXCEPT ![d] = "open"]
        /\ asks' = [asks EXCEPT ![d] = NoDate]
        /\ UNCHANGED <<tm, file, disk, mtime, server, clean, tainted>>
    BY <1>5 DEF Unconditional
  <2>2. NoDate <= mtime[file[d]]
    BY Bounds DEF TypeOK, Times, NoDate
  <2> QED
    BY <2>1, <2>2 DEF AnswerInv, TypeOK
<1>6. ASSUME NEW d \in Callers, Format(d)
      PROVE  AnswerInv'
  <2>1. /\ pc[d] = "format" /\ pc' = [pc EXCEPT ![d] = "open"]
        /\ asks' = [asks EXCEPT ![d] = tm]
        /\ UNCHANGED <<tm, file, disk, mtime, server, clean, tainted>>
    BY <1>6 DEF Format
  <2>2. clean[d] => asks'[d] <= mtime[file[d]]
    BY <2>1 DEF AnswerInv, TypeOK
  <2> QED
    BY <2>1, <2>2 DEF AnswerInv, TypeOK
<1>7. ASSUME NEW d \in Callers, OpenTemp(d)
      PROVE  AnswerInv'
  BY <1>7 DEF OpenTemp, AnswerInv, AloneInv, TypeOK
<1>8. ASSUME NEW d \in Callers, OpenTempFails(d)
      PROVE  AnswerInv'
  BY <1>8 DEF OpenTempFails, Fault, AnswerInv, AloneInv, TypeOK
<1>9. ASSUME NEW d \in Callers, PerformFails(d)
      PROVE  AnswerInv'
  BY <1>9 DEF PerformFails, AnswerInv, AloneInv, TypeOK
<1>10. ASSUME NEW d \in Callers, NotModified(d)
       PROVE  AnswerInv'
  <2>1. /\ pc[d] = "perform" /\ pc' = [pc EXCEPT ![d] = "report"]
        /\ modified[file[d]] <= asks[d]
        /\ UNCHANGED <<tm, file, asks, disk, mtime, server, clean, tainted>>
    BY <1>10 DEF NotModified, SaysNotModified
  <2>2. clean[d] /\ ~ tainted[file[d]] => disk[file[d]] = Whole(server[file[d]])
    <3>1. SUFFICES ASSUME clean[d], ~ tainted[file[d]]
                   PROVE  disk[file[d]] = Whole(server[file[d]])
      OBVIOUS
    <3>2. Writing(file[d]) = {}
      BY <2>1, <3>1 DEF AloneInv, Writing
    <3>3. modified[file[d]] <= mtime[file[d]]
      <4>1. asks[d] <= mtime[file[d]]
        BY <2>1, <3>1 DEF AnswerInv
      <4>2. modified[file[d]] \in Int /\ asks[d] \in Int /\ mtime[file[d]] \in Int
        BY Bounds DEF TypeOK, Times, NoDate
      <4> QED
        BY <2>1, <4>1, <4>2
    <3> QED
      BY <3>1, <3>2, <3>3 DEF DiskInv, DateIsHonest, TypeOK
  <2> QED
    BY <2>1, <2>2 DEF AnswerInv, TypeOK
<1>11. ASSUME NEW d \in Callers, Received(d)
       PROVE  AnswerInv'
  BY <1>11 DEF Received, AnswerInv, AloneInv, TypeOK
<1>12. ASSUME NEW d \in Callers, ReceivedNothing(d)
       PROVE  AnswerInv'
  BY <1>12 DEF ReceivedNothing, Fault, AnswerInv, AloneInv, TypeOK
<1>13. ASSUME NEW d \in Callers, CopyTruncate(d)
       PROVE  AnswerInv'
  BY <1>13 DEF CopyTruncate, AnswerInv, AloneInv, TypeOK
<1>14. ASSUME NEW d \in Callers, CopyFails(d)
       PROVE  AnswerInv'
  BY <1>14 DEF CopyFails, Fault, AnswerInv, AloneInv, TypeOK
<1>15. ASSUME NEW d \in Callers, CopyBlock(d, 1, "block1", "block2")
       PROVE  AnswerInv'
  BY <1>15 DEF CopyBlock, AnswerInv, AloneInv, TypeOK
<1>16. ASSUME NEW d \in Callers, CopyBlock(d, 2, "block2", "report")
       PROVE  AnswerInv'
  <2>1. /\ pc[d] = "block2" /\ pc' = [pc EXCEPT ![d] = "report"]
        /\ disk' = [disk EXCEPT ![file[d]] = [disk[file[d]] EXCEPT ![2] = temp[d]]]
        /\ UNCHANGED <<tm, file, asks, server, clean, tainted>>
    BY <1>16 DEF CopyBlock
  <2>2. \A e \in Callers : clean[e] => e = d
    BY <2>1 DEF AloneInv
  <2>3. ~ tainted[file[d]] =>
           disk[file[d]] = [Absent EXCEPT ![1] = temp[d]] /\ temp[d] = server[file[d]]
    BY <2>1 DEF WriterInv, Fetching, Copying
  <2>4. disk'[file[d]] = [disk[file[d]] EXCEPT ![2] = temp[d]]
    BY <2>1 DEF TypeOK
  <2>5. ~ tainted[file[d]] => disk'[file[d]] = Whole(server[file[d]])
    BY <2>3, <2>4, BothBlocks
  <2> QED
    BY <2>1, <2>2, <2>5 DEF AnswerInv, TypeOK
<1>17. ASSUME NEW d \in Callers, Report(d)
       PROVE  AnswerInv'
  BY <1>17 DEF Report, AnswerInv, AloneInv, TypeOK
<1>18. ASSUME NEW f \in Files, Publish(f)
       PROVE  AnswerInv'
  BY <1>18 DEF Publish, AnswerInv, AloneInv, TypeOK
<1>19. ASSUME Crash
       PROVE  AnswerInv'
  BY <1>19 DEF Crash, AnswerInv, AloneInv, TypeOK
<1>20. CASE UNCHANGED vars
  BY <1>20 DEF AnswerInv, AloneInv, TypeOK
<1> QED
  BY <1>1, <1>2, <1>3, <1>4, <1>5, <1>6, <1>7, <1>8, <1>9, <1>10, <1>11, <1>12, <1>13,
     <1>14, <1>15, <1>16, <1>17, <1>18, <1>19, <1>20
     DEF Next, StartDownload, DownloadFile, Callers, Step, Transfer, Copy, Over

\* "done" is said by Report only.
LEMMA DoneIsReported ==
    ASSUME TypeOK, Next, NEW e \in Callers, answer[e] # "done", answer'[e] = "done"
    PROVE  pc[e] = "report" /\ UNCHANGED disk
<1> USE DEF vars, callVars, diskVars, serverVars, histVars, counters, Goto,
        NoFault
<1>1. ASSUME NEW d \in Callers, NEW f \in Files, NEW c \in BOOLEAN, Call(d, f, c)
      PROVE  pc[e] = "report" /\ UNCHANGED disk
  BY <1>1 DEF Call, TypeOK
<1>2. ASSUME Quit
      PROVE  pc[e] = "report" /\ UNCHANGED disk
  BY <1>2 DEF Quit, TypeOK
<1>3. ASSUME Joined
      PROVE  pc[e] = "report" /\ UNCHANGED disk
  BY <1>3 DEF Joined, TypeOK
<1>4. ASSUME NEW d \in Callers, Gmtime(d)
      PROVE  pc[e] = "report" /\ UNCHANGED disk
  BY <1>4 DEF Gmtime, TypeOK
<1>5. ASSUME NEW d \in Callers, Unconditional(d)
      PROVE  pc[e] = "report" /\ UNCHANGED disk
  BY <1>5 DEF Unconditional, TypeOK
<1>6. ASSUME NEW d \in Callers, Format(d)
      PROVE  pc[e] = "report" /\ UNCHANGED disk
  BY <1>6 DEF Format, TypeOK
<1>7. ASSUME NEW d \in Callers, OpenTemp(d)
      PROVE  pc[e] = "report" /\ UNCHANGED disk
  BY <1>7 DEF OpenTemp, TypeOK
<1>8. ASSUME NEW d \in Callers, OpenTempFails(d)
      PROVE  pc[e] = "report" /\ UNCHANGED disk
  BY <1>8 DEF OpenTempFails, TypeOK
<1>9. ASSUME NEW d \in Callers, PerformFails(d)
      PROVE  pc[e] = "report" /\ UNCHANGED disk
  BY <1>9 DEF PerformFails, TypeOK
<1>10. ASSUME NEW d \in Callers, NotModified(d)
       PROVE  pc[e] = "report" /\ UNCHANGED disk
  BY <1>10 DEF NotModified, TypeOK
<1>11. ASSUME NEW d \in Callers, Received(d)
       PROVE  pc[e] = "report" /\ UNCHANGED disk
  BY <1>11 DEF Received, TypeOK
<1>12. ASSUME NEW d \in Callers, ReceivedNothing(d)
       PROVE  pc[e] = "report" /\ UNCHANGED disk
  BY <1>12 DEF ReceivedNothing, TypeOK
<1>13. ASSUME NEW d \in Callers, CopyTruncate(d)
       PROVE  pc[e] = "report" /\ UNCHANGED disk
  BY <1>13 DEF CopyTruncate, TypeOK
<1>14. ASSUME NEW d \in Callers, CopyFails(d)
       PROVE  pc[e] = "report" /\ UNCHANGED disk
  BY <1>14 DEF CopyFails, TypeOK
<1>15. ASSUME NEW d \in Callers, CopyBlock(d, 1, "block1", "block2")
       PROVE  pc[e] = "report" /\ UNCHANGED disk
  BY <1>15 DEF CopyBlock, TypeOK
<1>16. ASSUME NEW d \in Callers, CopyBlock(d, 2, "block2", "report")
       PROVE  pc[e] = "report" /\ UNCHANGED disk
  BY <1>16 DEF CopyBlock, TypeOK
<1>17. ASSUME NEW d \in Callers, Report(d)
       PROVE  pc[e] = "report" /\ UNCHANGED disk
  BY <1>17 DEF Report, TypeOK
<1>18. ASSUME NEW f \in Files, Publish(f)
       PROVE  pc[e] = "report" /\ UNCHANGED disk
  BY <1>18 DEF Publish, TypeOK
<1>19. ASSUME Crash
       PROVE  pc[e] = "report" /\ UNCHANGED disk
  BY <1>19 DEF Crash, TypeOK
<1>20. CASE UNCHANGED vars
  BY <1>20 DEF TypeOK
<1> QED
  BY <1>1, <1>2, <1>3, <1>4, <1>5, <1>6, <1>7, <1>8, <1>9, <1>10, <1>11, <1>12, <1>13,
     <1>14, <1>15, <1>16, <1>17, <1>18, <1>19, <1>20
     DEF Next, StartDownload, DownloadFile, Callers, Step, Transfer, Copy, Over

-----------------------------------------------------------------------------
(* The theorems.                                                           *)

IInv == TypeOK /\ TimeInv /\ AloneInv /\ WriterInv /\ DiskInv /\ AnswerInv

\* The inductive invariant holds in every state.
LEMMA Invariance == Spec => []IInv
<1>1. Init => IInv
  BY InitTypeOK, InitTimeInv, InitAloneInv, InitWriterInv, InitDiskInv, InitAnswerInv DEF IInv
<1>2. IInv /\ [Next]_vars => IInv'
  BY NextTypeOK, NextTimeInv, NextAloneInv, NextWriterInv, NextDiskInv, NextAnswerInv DEF IInv
<1> QED
  BY <1>1, <1>2, PTL DEF Spec

\* A target that nobody is writing is of one version, whatever number of
\* downloads, crashes and faults there were, unless one of them tainted it.
THEOREM TargetsAreWhole == Spec => []WholeUnlessDisturbed
<1>1. IInv => WholeUnlessDisturbed
  BY DEF IInv, DiskInv
<1> QED
  BY <1>1, Invariance, PTL

\* What puts the date of a target in doubt: a version published while the target
\* is downloaded, or within the second it was written in; a copy that fails, or
\* is cut short by the end of the program; a second copy onto the same target.
PutInDoubt(f) ==
    \/ Publish(f) /\ (mtime[f] = now' \/ \E d \in Running : file[d] = f)
    \/ Crash /\ Writing(f) # {}
    \/ \E d \in Callers : file[d] = f /\ CopyFails(d) /\ pc[d] # "truncate"
    \/ \E d \in Callers : file[d] = f /\ CopyTruncate(d) /\ Writing(f) # {}

\* Nothing else does.
LEMMA DoubtHasCause ==
  ASSUME TypeOK, Next, NEW f \in Files, ~ tainted[f], tainted'[f]
  PROVE  PutInDoubt(f)
<1>1. ASSUME NEW g \in Files, Publish(g)
      PROVE  PutInDoubt(f)
  BY <1>1 DEF Publish, PutInDoubt, TypeOK
<1>2. CASE Crash
  BY <1>2 DEF Crash, PutInDoubt
<1>3. ASSUME NEW d \in Callers, CopyFails(d)
      PROVE  PutInDoubt(f)
  BY <1>3 DEF CopyFails, PutInDoubt, TypeOK
<1>4. ASSUME NEW d \in Callers, CopyTruncate(d)
      PROVE  PutInDoubt(f)
  BY <1>4 DEF CopyTruncate, PutInDoubt, TypeOK
<1>5. ASSUME NEW d \in Callers, Step(d)
      PROVE  PutInDoubt(f)
  <2>1. CASE \/ Gmtime(d) \/ Unconditional(d) \/ Format(d) \/ OpenTemp(d) \/ OpenTempFails(d)
            \/ PerformFails(d) \/ NotModified(d) \/ Received(d) \/ ReceivedNothing(d)
            \/ Report(d)
    BY <2>1 DEF Gmtime, Unconditional, Format, OpenTemp, OpenTempFails, PerformFails,
                NotModified, Received, ReceivedNothing, Report
  <2>2. CASE Copy(d)
    BY <2>2 DEF Copy, CopyBlock
  <2> QED
    BY <1>3, <1>4, <1>5, <2>1, <2>2 DEF Step, Transfer
<1>6. CASE StartDownload \/ DownloadFile \/ Quit \/ Joined \/ Over
  BY <1>6 DEF StartDownload, DownloadFile, Call, Quit, Joined, Over, vars, histVars
<1> QED
  BY <1>1, <1>2, <1>5, <1>6 DEF Next

\* As long as nothing has put it in doubt, the date of a target tells the server
\* the truth: the next conditional download does not keep an old version.  What
\* puts it in doubt is one of four events, and no other step.
THEOREM DatesAreHonest ==
    Spec => /\ []DateIsHonest
            /\ [][\A f \in Files : ~ tainted[f] /\ tainted'[f] => PutInDoubt(f)]_vars
<1>1. IInv => DateIsHonest
  BY DEF IInv, DiskInv
<1>2. IInv /\ [Next]_vars =>
          [\A f \in Files : ~ tainted[f] /\ tainted'[f] => PutInDoubt(f)]_vars
  BY DoubtHasCause DEF IInv
<1> QED
  BY <1>1, <1>2, Invariance, PTL DEF Spec

\* After the "done" of a download that ran alone the target is the version
\* the server has.
THEOREM DoneMeansCurrent == Spec => DoneIsCurrent
<1>1. ASSUME IInv, [Next]_vars
      PROVE  [\A d \in Threads :
                answer[d] = "none" /\ answer'[d] = "done" /\ clean[d] /\ ~ tainted[file[d]] =>
                    disk'[file[d]] = Whole(server[file[d]])]_vars
  <2>1. SUFFICES ASSUME NEW d \in Threads, answer[d] = "none", answer'[d] = "done",
                        clean[d], ~ tainted[file[d]], Next
                 PROVE  disk'[file[d]] = Whole(server[file[d]])
    BY <1>1
  <2>2. pc[d] = "report" /\ UNCHANGED disk
    BY <1>1, <2>1, DoneIsReported DEF IInv, Callers
  <2> QED
    BY <1>1, <2>1, <2>2 DEF IInv, AnswerInv, Callers
<1> QED
  BY <1>1, Invariance, PTL DEF Spec, DoneIsCurrent

=============================================================================
