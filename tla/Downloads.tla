----------------------------- MODULE Downloads -----------------------------
(***************************************************************************)
(* downloadFile(), called on threads of their own by startDownload() and   *)
(* on the GUI thread by the slot: the question whether the server has      *)
(* something newer, the temporary file, the copy onto the target.          *)
(*                                                                         *)
(* Versions of a file on the server are numbered; a copy on disk is the    *)
(* version each of its two blocks is of, 0 if the block is not there.      *)
(***************************************************************************)
EXTENDS Integers, FiniteSets

CONSTANTS Threads,         \* the download threads
          Gui,             \* the GUI thread
          Files,           \* what can be downloaded, each to a path of its own
          MaxStarts, MaxPublish, MaxCrashes, MaxFaults \* bounds on the environment

ASSUME DownloadsAssumption ==
    /\ Gui \notin Threads
    /\ Files # {}
    /\ {MaxStarts, MaxPublish, MaxCrashes, MaxFaults} \subseteq Nat

VARIABLES
    pc,       \* where each download is
    file,     \* what it downloads
    cond,     \* checkIfModified
    asks,     \* the date in its If-Modified-Since
    temp,     \* the version in its temporary file
    answer,   \* what was said of it last: "none", "done" or "error"
    tm,       \* the buffer std::gmtime() returns a pointer to
    disk,     \* the blocks of each target
    mtime,    \* when it was last written, 0 if it does not exist
    server,   \* the version the server has
    modified, \* since when
    now,      \* seconds
    clean,    \* history: a download nothing else has touched
    tainted,  \* history: a target whose date says nothing of its contents
    starts, crashes, faults, \* how often
    phase     \* "up", "quit" or "down"

callVars   == <<pc, file, cond, asks, temp, answer>>
diskVars   == <<disk, mtime>>
serverVars == <<server, modified>>
histVars   == <<clean, tainted>>
counters   == <<starts, crashes, faults>>
vars       == <<callVars, tm, diskVars, serverVars, now, histVars, counters, phase>>

Callers  == Threads \cup {Gui}
Blocks   == 1..2
Versions == 1..(MaxPublish + 1)
Times    == 0..(MaxPublish + 1)
NoDate   == -1 \* no If-Modified-Since
Steps    == {"idle", "begin", "format", "open", "perform", "truncate", "block1", "block2",
             "report"}

Whole(v) == [b \in Blocks |-> v]
Absent   == Whole(0)

TypeOK ==
    /\ pc \in [Callers -> Steps]
    /\ file \in [Callers -> Files]
    /\ cond \in [Callers -> BOOLEAN]
    /\ asks \in [Callers -> Times \cup {NoDate}]
    /\ temp \in [Callers -> Versions \cup {0}]
    /\ answer \in [Callers -> {"none", "done", "error"}]
    /\ tm \in Times
    /\ disk \in [Files -> [Blocks -> Versions \cup {0}]]
    /\ mtime \in [Files -> Times]
    /\ server \in [Files -> Versions]
    /\ modified \in [Files -> Times]
    /\ now \in Times
    /\ clean \in [Callers -> BOOLEAN]
    /\ tainted \in [Files -> BOOLEAN]
    /\ starts \in 0..MaxStarts /\ crashes \in 0..MaxCrashes /\ faults \in 0..MaxFaults
    /\ phase \in {"up", "quit", "down"}

\* Every file is on the server; some of them have been downloaded already.
Init ==
    /\ pc = [d \in Callers |-> "idle"]
    /\ file \in [Callers -> {CHOOSE f \in Files : TRUE}]
    /\ cond = [d \in Callers |-> FALSE]
    /\ asks = [d \in Callers |-> NoDate]
    /\ temp = [d \in Callers |-> 0]
    /\ answer = [d \in Callers |-> "none"]
    /\ tm = 0
    /\ disk \in [Files -> {Absent, Whole(1)}]
    /\ mtime = [f \in Files |-> disk[f][1]]
    /\ server = [f \in Files |-> 1]
    /\ modified = [f \in Files |-> 1]
    /\ now = 1
    /\ clean = [d \in Callers |-> FALSE]
    /\ tainted = [f \in Files |-> FALSE]
    /\ starts = 0 /\ crashes = 0 /\ faults = 0
    /\ phase = "up"

Running == {d \in Callers : pc[d] # "idle"}
Writing(f) == {d \in Callers : file[d] = f /\ pc[d] \in {"block1", "block2"}}

Goto(d, step) == pc' = [pc EXCEPT ![d] = step]

\* Something goes wrong in the file system, in download d.
Fault(d) ==
    /\ faults < MaxFaults
    /\ faults' = faults + 1
    /\ clean' = [clean EXCEPT ![d] = FALSE]
    /\ UNCHANGED <<starts, crashes>>

NoFault == UNCHANGED <<clean, counters>>

-----------------------------------------------------------------------------
(* The slots.  downloadFile() keeps the GUI thread until it has finished.  *)

Call(d, f, c) ==
    /\ phase = "up" /\ starts < MaxStarts
    /\ pc[Gui] = "idle" /\ pc[d] = "idle"
    /\ starts' = starts + 1
    /\ Goto(d, "begin")
    /\ file' = [file EXCEPT ![d] = f]
    /\ cond' = [cond EXCEPT ![d] = c]
    /\ answer' = [answer EXCEPT ![d] = "none"]
    /\ clean' = [e \in Callers |-> e = d /\ Running = {}]
    /\ UNCHANGED <<asks, temp, tm, diskVars, serverVars, now, tainted, crashes,
                   faults, phase>>

StartDownload == \E d \in Threads, f \in Files, c \in BOOLEAN : Call(d, f, c)

DownloadFile == \E f \in Files : Call(Gui, f, TRUE)

\* Mutation of Quit: the threads are not waited for.
QuitDetached ==
    /\ phase = "up" /\ pc[Gui] = "idle"
    /\ phase' = "down"
    /\ pc' = [d \in Callers |-> "idle"]
    /\ UNCHANGED <<file, cond, asks, temp, answer, tm, diskVars, serverVars, now,
                   histVars, counters>>

\* ~LobbyInterface joins the threads.
Quit ==
    /\ phase = "up" /\ pc[Gui] = "idle"
    /\ phase' = "quit"
    /\ UNCHANGED <<callVars, tm, diskVars, serverVars, now, histVars, counters>>

Joined ==
    /\ phase = "quit" /\ Running = {}
    /\ phase' = "down"
    /\ UNCHANGED <<callVars, tm, diskVars, serverVars, now, histVars, counters>>

-----------------------------------------------------------------------------
(* downloadFile().                                                         *)

\* Whether the cached file exists, and the time it was written at, which
\* std::gmtime() leaves in a buffer that all threads share.
Gmtime(d) ==
    /\ pc[d] = "begin"
    /\ cond[d] /\ mtime[file[d]] # 0
    /\ tm' = mtime[file[d]]
    /\ Goto(d, "format")
    /\ UNCHANGED <<file, cond, asks, temp, answer, diskVars, serverVars, now, tainted, phase>>
    /\ NoFault

Unconditional(d) ==
    /\ pc[d] = "begin"
    /\ ~ (cond[d] /\ mtime[file[d]] # 0)
    /\ asks' = [asks EXCEPT ![d] = NoDate]
    /\ Goto(d, "open")
    /\ UNCHANGED <<file, cond, temp, answer, tm, diskVars, serverVars, now, tainted,
                   phase>>
    /\ NoFault

\* std::strftime() of what is in the buffer by now, with English names: whoever
\* else sets and puts back the global locale, what is put back is the classic one.
Format(d) ==
    /\ pc[d] = "format"
    /\ asks' = [asks EXCEPT ![d] = tm]
    /\ Goto(d, "open")
    /\ UNCHANGED <<file, cond, temp, answer, tm, diskVars, serverVars, now, tainted, phase>>
    /\ NoFault

OpenTemp(d) ==
    /\ pc[d] = "open"
    /\ Goto(d, "perform")
    /\ UNCHANGED <<file, cond, asks, temp, answer, tm, diskVars, serverVars, now,
                   tainted, phase>>
    /\ NoFault

\* No event: the page is not told.
OpenTempFails(d) ==
    /\ pc[d] = "open"
    /\ Fault(d)
    /\ Goto(d, "idle")
    /\ UNCHANGED <<file, cond, asks, temp, answer, tm, diskVars, serverVars, now,
                   tainted, phase>>

\* curl_easy_perform() fails, at any point of the transfer.
PerformFails(d) ==
    /\ pc[d] = "perform"
    /\ answer' = [answer EXCEPT ![d] = IF d = Gui THEN @ ELSE "error"]
    /\ Goto(d, "idle")
    /\ UNCHANGED <<file, cond, asks, temp, tm, diskVars, serverVars, now, tainted,
                   phase>>
    /\ NoFault

SaysNotModified(d) == modified[file[d]] <= asks[d]

\* The server answers that there is nothing newer: the cached version is used.
NotModified(d) ==
    /\ pc[d] = "perform"
    /\ SaysNotModified(d)
    /\ temp' = [temp EXCEPT ![d] = 0]
    /\ Goto(d, "report")
    /\ UNCHANGED <<file, cond, asks, answer, tm, diskVars, serverVars, now, tainted,
                   phase>>
    /\ NoFault

Received(d) ==
    /\ pc[d] = "perform"
    /\ ~ SaysNotModified(d)
    /\ temp' = [temp EXCEPT ![d] = server[file[d]]]
    /\ Goto(d, "truncate")
    /\ UNCHANGED <<file, cond, asks, answer, tm, diskVars, serverVars, now, tainted,
                   phase>>
    /\ NoFault

\* The temporary file could not be written: tellp() is -1, nothing is copied,
\* which passes for nothing newer.
ReceivedNothing(d) ==
    /\ pc[d] = "perform"
    /\ ~ SaysNotModified(d)
    /\ Fault(d)
    /\ temp' = [temp EXCEPT ![d] = 0]
    /\ Goto(d, "report")
    /\ UNCHANGED <<file, cond, asks, answer, tm, diskVars, serverVars, now, tainted,
                   phase>>

\* copyFile(): opening the target empties it.
CopyTruncate(d) ==
    /\ pc[d] = "truncate"
    /\ disk' = [disk EXCEPT ![file[d]] = Absent]
    /\ mtime' = [mtime EXCEPT ![file[d]] = now]
    /\ tainted' = [tainted EXCEPT ![file[d]] = IF Writing(file[d]) # {} THEN TRUE
                                               ELSE IF clean[d] THEN FALSE ELSE @]
    /\ Goto(d, "block1")
    /\ UNCHANGED <<file, cond, asks, temp, answer, tm, serverVars, now, phase>>
    /\ NoFault

\* Its result is not looked at.
CopyFails(d) ==
    /\ pc[d] \in {"truncate", "block1", "block2"}
    /\ Fault(d)
    /\ tainted' = [tainted EXCEPT ![file[d]] = @ \/ pc[d] # "truncate"]
    /\ Goto(d, "report")
    /\ UNCHANGED <<file, cond, asks, temp, answer, tm, diskVars, serverVars, now,
                   phase>>

\* Each block is written where it belongs, whoever emptied the file meanwhile.
CopyBlock(d, b, from, to) ==
    /\ pc[d] = from
    /\ disk' = [disk EXCEPT ![file[d]][b] = temp[d]]
    /\ mtime' = [mtime EXCEPT ![file[d]] = now]
    /\ Goto(d, to)
    /\ UNCHANGED <<file, cond, asks, temp, answer, tm, serverVars, now, tainted,
                   phase>>
    /\ NoFault

Copy(d) == CopyBlock(d, 1, "block1", "block2") \/ CopyBlock(d, 2, "block2", "report")

\* Mutation of Report: said before the copy, which still goes on.
ReportEarly(d) ==
    /\ pc[d] \in {"truncate", "report"}
    /\ answer' = [answer EXCEPT ![d] = IF d = Gui THEN @ ELSE "done"]
    /\ Goto(d, IF pc[d] = "report" THEN "idle" ELSE "block1")
    /\ UNCHANGED <<file, cond, asks, temp, tm, diskVars, serverVars, now, tainted,
                   phase>>
    /\ NoFault

\* Mutation of Report: the target is given the date of the check.
ReportTouch(d) ==
    /\ pc[d] = "report"
    /\ answer' = [answer EXCEPT ![d] = IF d = Gui THEN @ ELSE "done"]
    /\ mtime' = [mtime EXCEPT ![file[d]] = now]
    /\ Goto(d, "idle")
    /\ UNCHANGED <<file, cond, asks, temp, tm, disk, serverVars, now, tainted,
                   phase>>
    /\ NoFault

\* Mutation of Report: the page is told what the log is told.
ReportFinished(d) ==
    /\ pc[d] = "report"
    /\ answer' = [answer EXCEPT ![d] = "finished"]
    /\ Goto(d, "idle")
    /\ UNCHANGED <<file, cond, asks, temp, tm, diskVars, serverVars, now, tainted,
                   phase>>
    /\ NoFault

\* The last DownloadEvent, and the end of the thread or of the slot.
Report(d) ==
    /\ pc[d] = "report"
    /\ answer' = [answer EXCEPT ![d] = IF d = Gui THEN @ ELSE "done"]
    /\ Goto(d, "idle")
    /\ UNCHANGED <<file, cond, asks, temp, tm, diskVars, serverVars, now, tainted,
                   phase>>
    /\ NoFault

Transfer(d) == PerformFails(d) \/ NotModified(d) \/ Received(d) \/ ReceivedNothing(d)

Step(d) ==
    \/ Gmtime(d) \/ Unconditional(d) \/ Format(d) \/ OpenTemp(d) \/ OpenTempFails(d)
    \/ Transfer(d) \/ CopyTruncate(d) \/ CopyFails(d) \/ Copy(d) \/ Report(d)

-----------------------------------------------------------------------------
(* The environment.                                                        *)

\* A new version, in the same second as what happened last or later.
Publish(f) ==
    /\ server[f] \in 1..MaxPublish
    /\ server' = [server EXCEPT ![f] = @ + 1]
    /\ now' \in {now, now + 1} \cap Times
    /\ modified' = [modified EXCEPT ![f] = now']
    /\ clean' = [d \in Callers |-> clean[d] /\ file[d] # f]
    /\ tainted' = [tainted EXCEPT ![f] =
                      @ \/ mtime[f] = now' \/ \E d \in Running : file[d] = f]
    /\ UNCHANGED <<callVars, tm, diskVars, counters, phase>>

\* The program dies and is started again: threads and memory are gone, files
\* are as they were.
Crash ==
    /\ phase = "up" /\ crashes < MaxCrashes
    /\ crashes' = crashes + 1
    /\ pc' = [d \in Callers |-> "idle"]
    /\ answer' = [d \in Callers |-> "none"]
    /\ tm' = 0
    /\ clean' = [d \in Callers |-> FALSE]
    /\ tainted' = [f \in Files |-> tainted[f] \/ Writing(f) # {}]
    /\ UNCHANGED <<file, cond, asks, temp, diskVars, serverVars, now, starts, faults, phase>>

-----------------------------------------------------------------------------
Over == phase = "down" /\ UNCHANGED vars

Next ==
    \/ StartDownload \/ DownloadFile \/ Quit \/ Joined
    \/ \E d \in Callers : Step(d)
    \/ \E f \in Files : Publish(f)
    \/ Crash \/ Over

Spec == Init /\ [][Next]_vars

-----------------------------------------------------------------------------
(* Properties.                                                             *)

\* A target nobody is writing is whole, of one version, unless a copy was cut
\* short by a crash or a full disk, or two copies went on at a time.
WholeUnlessDisturbed ==
    \A f \in Files :
        ~ tainted[f] /\ Writing(f) = {} => \E v \in Versions \cup {0} : disk[f] = Whole(v)

\* A download alone on the machine that says "done" has brought the target to
\* the version the server has, sent or left as it was: a torn target is mended
\* if it is sent, and left torn if it looks new.
DoneIsCurrent ==
    [][\A d \in Threads :
          answer[d] = "none" /\ answer'[d] = "done" /\ clean[d] /\ ~ tainted[file[d]] =>
              disk'[file[d]] = Whole(server[file[d]])]_vars

\* The date of a target tells the server the truth: what is older than the
\* server's version is never dated later, unless disturbed.
DateIsHonest ==
    \A f \in Files :
        ~ tainted[f] /\ Writing(f) = {} /\ modified[f] <= mtime[f] =>
            disk[f] = Whole(server[f])

\* "not modified, using the cached version": what is on the disk is a version
\* of the file.
CachedVersionIsWhole ==
    [][\A d \in Callers : NotModified(d) /\ Writing(file[d]) = {} =>
          \E v \in Versions : disk[file[d]] = Whole(v)]_vars
=============================================================================
