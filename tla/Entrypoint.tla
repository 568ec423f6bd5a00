----------------------------- MODULE Entrypoint -----------------------------
(***************************************************************************)
(* The container of chronyd (entrypoint.sh) with NTS enabled. The script,  *)
(* process 1 of the container, copies the certificate and the key, starts  *)
(* chronyd, starts a watcher of the mounted files and waits; the watcher   *)
(* ends chronyd when the files have changed, and docker restarts the       *)
(* container (restart: unless-stopped), which loads the new files.         *)
(*                                                                         *)
(* Around the script: the renewal of the files on the host, chronyd,       *)
(* inotify, and docker. A file is the number of the renewal that wrote it. *)
(* Rendering the configuration and setting owners and modes are left out.  *)
(*                                                                         *)
(* An operator that nothing uses is a faulty variant of the definition     *)
(* after it: the mutation of the code that a property has to notice.       *)
(***************************************************************************)
EXTENDS Integers

CONSTANTS
  MaxRenewals,      (* bound on the renewals on the host                    *)
  MaxFaults         (* bound on the faults of chronyd and of inotifywait    *)

ASSUME EntrypointAssumption == MaxRenewals \in Nat /\ MaxFaults \in Nat

Gone == -1
File == {"cert", "key"}

VARIABLES
  inotify,          (* the image has inotifywait                            *)
  host,             (* the files under /certs                               *)
  version, renewal, (* the last renewal, and the file it writes next        *)
  tmp,              (* the copies in /tmp                                   *)
  script, resume,   (* where the script is; where a trap returns to         *)
  pid, term,        (* CHRONYD_PID is set; a TERM is pending                *)
  chronyd, pidfile, loaded,
  watcher,          (* where the watcher is                                 *)
  prev_hash, loop,  (* loop: in the loop that reads events of inotifywait   *)
  event,            (* events that were not read yet                        *)
  stopping, faults,
  early, slow       (* history: the TERM came before CHRONYD_PID was set;   *)
                    (* chronyd outlived 10 s, or docker's grace, after it   *)

hostVars == <<host, version, renewal>>
scriptVars == <<script, resume, pid, term>>
chronydVars == <<chronyd, pidfile, loaded>>
watcherVars == <<watcher, prev_hash, loop>>
history == <<early, slow>>
vars == <<inotify, hostVars, tmp, scriptVars, chronydVars, watcherVars, event,
          stopping, faults, history>>

Init ==
  /\ inotify \in BOOLEAN /\ host = [f \in File |-> 0]
  /\ version = 0 /\ renewal = "none"
  /\ tmp = [f \in File |-> 0] /\ loaded = [f \in File |-> 0]
  /\ script = "copyCert" /\ resume = "wait" /\ pid = FALSE /\ term = FALSE
  /\ chronyd = "off" /\ pidfile \in BOOLEAN
  /\ watcher = "off" /\ prev_hash = host /\ loop = FALSE /\ event = FALSE
  /\ stopping = FALSE /\ faults = 0 /\ early = FALSE /\ slow = FALSE

Readable == \A f \in File : host[f] # Gone
Terminated(c) == IF c \in {"off", "stuck"} THEN c ELSE "dying"
-----------------------------------------------------------------------------
(* The script. Its exit takes the processes of the container with it.      *)

Exit ==
  /\ script' = "exit" /\ pid' = FALSE /\ term' = FALSE
  /\ chronyd' = "off" /\ watcher' = "off" /\ loop' = FALSE /\ event' = FALSE
  /\ resume' = "wait"
  /\ UNCHANGED <<inotify, hostVars, tmp, pidfile, loaded, prev_hash, stopping, faults>>

(* A step of the script from one line to another.                          *)
Go(from, to) ==
  /\ script = from /\ script' = to
  /\ UNCHANGED <<inotify, hostVars, resume, faults, stopping>>

CopyCert ==
  /\ Readable /\ Go("copyCert", "copyKey")
  /\ tmp' = [tmp EXCEPT !["cert"] = host["cert"]]
  /\ UNCHANGED <<pid, term, chronydVars, watcherVars, event, history>>

CopyKey ==
  /\ host["key"] # Gone /\ Go("copyKey", "clean")
  /\ tmp' = [tmp EXCEPT !["key"] = host["key"]]
  /\ UNCHANGED <<pid, term, chronydVars, watcherVars, event, history>>

CopyFails ==
  /\ \/ script = "copyCert" /\ ~ Readable
     \/ script = "copyKey" /\ host["key"] = Gone
  /\ Exit /\ UNCHANGED history

CleanNothing ==
  /\ Go("clean", "start")
  /\ UNCHANGED <<tmp, pid, term, chronydVars, watcherVars, event, history>>

(* rm -f of the pid file; the trap is set from here on.                    *)
Clean ==
  /\ Go("clean", "start") /\ pidfile' = FALSE
  /\ UNCHANGED <<tmp, pid, term, chronyd, loaded, watcherVars, event, history>>

Start ==
  /\ Go("start", "pid") /\ ~ term /\ chronyd' = "started"
  /\ UNCHANGED <<tmp, pid, term, pidfile, loaded, watcherVars, event, history>>

SetPidLate ==
  /\ Go("pid", "spawn") /\ ~ term
  /\ UNCHANGED <<tmp, pid, term, chronydVars, watcherVars, event, history>>

SetPid ==
  /\ Go("pid", "spawn") /\ ~ term /\ pid' = TRUE
  /\ UNCHANGED <<tmp, term, chronydVars, watcherVars, event, history>>

(* Without inotifywait chronyd is ended at once.                           *)
Spawn ==
  /\ Go("spawn", "wait") /\ ~ term
  /\ \/ inotify /\ watcher' = "hash" /\ UNCHANGED chronyd
     \/ ~ inotify /\ chronyd' = Terminated(chronyd) /\ UNCHANGED watcher
  /\ UNCHANGED <<tmp, pid, term, pidfile, loaded, prev_hash, loop, event, history>>

WaitReturns == script = "wait" /\ ~ term /\ chronyd = "off" /\ Exit /\ UNCHANGED history

(* forward_term, run between two commands or when wait is interrupted.     *)
Trap ==
  /\ term /\ script \in {"start", "pid", "spawn", "wait"} /\ term' = FALSE
  /\ \/ pid /\ chronyd' = Terminated(chronyd) /\ script' = "drain" /\ resume' = script
     \/ ~ pid /\ UNCHANGED <<chronyd, script, resume>>
  /\ UNCHANGED <<inotify, hostVars, tmp, pid, pidfile, loaded, watcherVars, event,
                 stopping, faults, history>>

DrainedUntilGone == chronyd = "off" /\ UNCHANGED slow

(* The loop on kill -0 ends: chronyd is gone, or 10 s have passed, which   *)
(* may be at any moment of chronyd's end.                                  *)
Drained ==
  \/ chronyd = "off" /\ UNCHANGED slow
  \/ chronyd # "off" /\ slow' = TRUE

DrainEnds ==
  /\ script = "drain" /\ Drained
  /\ \/ resume = "wait" /\ Exit
     \/ /\ resume # "wait" /\ Go("drain", resume)
        /\ UNCHANGED <<tmp, pid, term, chronydVars, watcherVars, event>>
  /\ UNCHANGED early

ScriptStep ==
  \/ CopyCert \/ CopyKey \/ CopyFails \/ Clean \/ Start \/ SetPid \/ Spawn
  \/ WaitReturns \/ Trap \/ DrainEnds
-----------------------------------------------------------------------------
(* The watcher, a subshell of the script. check_and_restart runs once up   *)
(* front, where exit and a failing command end the watcher, and then after *)
(* each event, where exit only ends the loop: the pipeline goes on until   *)
(* inotifywait writes the next event and finds nobody to read it. Events   *)
(* it wrote before are lost.                                               *)

Watch(from, to) ==
  /\ watcher = from /\ watcher' = to
  /\ UNCHANGED <<inotify, hostVars, scriptVars, pidfile, loaded, stopping, faults, history>>

ExitSubshell(from) ==
  Watch(from, IF loop THEN "orphan" ELSE "off") /\ event' = FALSE

TakeHash ==
  /\ Watch("hash", "check") /\ prev_hash' = host
  /\ UNCHANGED <<tmp, chronyd, loop, event>>

Check ==
  /\ \/ chronyd = "off" /\ ExitSubshell("check")
     \/ /\ chronyd # "off" /\ UNCHANGED event
        /\ \/ host # prev_hash /\ Watch("check", "test")
           \/ host = prev_hash /\ Watch("check", IF loop THEN "read" ELSE "watch")
  /\ UNCHANGED <<tmp, chronyd, prev_hash, loop>>

(* copy_nts_files                                                          *)
TestReadable ==
  /\ Watch("test", IF Readable THEN "cert" ELSE "unreadable")
  /\ UNCHANGED <<tmp, chronyd, prev_hash, loop, event>>

GiveUp == ExitSubshell("unreadable") /\ UNCHANGED <<tmp, chronyd, prev_hash, loop>>

(* cp fails if the file went away after the test: set -e is in force up    *)
(* front only.                                                             *)
CopyAgain(f, next) ==
  /\ \/ host[f] # Gone /\ Watch(f, next) /\ tmp' = [tmp EXCEPT ![f] = host[f]]
     \/ host[f] = Gone /\ Watch(f, IF loop THEN next ELSE "off") /\ UNCHANGED tmp
  /\ UNCHANGED <<chronyd, prev_hash, loop, event>>

CopyCertAgain == CopyAgain("cert", "key")
CopyKeyAgain  == CopyAgain("key", "term")

Restart ==
  /\ ExitSubshell("term") /\ chronyd' = Terminated(chronyd)
  /\ UNCHANGED <<tmp, prev_hash, loop>>

StartWatching ==
  /\ Watch("watch", "read") /\ loop' = TRUE
  /\ UNCHANGED <<tmp, chronyd, prev_hash, event>>

ReadEventTwice ==
  /\ event /\ event' = FALSE /\ Watch("read", "read")
  /\ UNCHANGED <<tmp, chronyd, prev_hash, loop>>

(* One event wakes the loop; what happened meanwhile wakes it again.       *)
ReadEvent ==
  /\ event /\ event' = FALSE /\ Watch("read", "check")
  /\ UNCHANGED <<tmp, chronyd, prev_hash, loop>>

BrokenPipe ==
  /\ event /\ event' = FALSE /\ Watch("orphan", "failed")
  /\ UNCHANGED <<tmp, chronyd, prev_hash, loop>>

WatcherFailed ==
  /\ Watch("failed", "off") /\ chronyd' = Terminated(chronyd)
  /\ UNCHANGED <<tmp, prev_hash, loop, event>>

WatcherStep ==
  \/ TakeHash \/ Check \/ TestReadable \/ GiveUp \/ CopyCertAgain \/ CopyKeyAgain
  \/ Restart \/ StartWatching \/ ReadEvent \/ BrokenPipe \/ WatcherFailed
-----------------------------------------------------------------------------
(* chronyd loads the files when it starts, and refuses to start if there   *)
(* is a pid file.                                                          *)

Load ==
  /\ chronyd = "started"
  /\ \/ pidfile /\ chronyd' = "off" /\ UNCHANGED <<pidfile, loaded>>
     \/ ~ pidfile /\ chronyd' = "up" /\ pidfile' = TRUE /\ loaded' = tmp
  /\ UNCHANGED <<inotify, hostVars, tmp, scriptVars, watcherVars, event, stopping, faults, history>>

ChronydExits ==
  /\ chronyd = "dying" /\ chronyd' = "off" /\ pidfile' = FALSE
  /\ UNCHANGED <<inotify, hostVars, tmp, loaded, scriptVars, watcherVars, event, stopping, faults, history>>

(* chronyd is killed, or does not end on its TERM; inotifywait dies.       *)
Fault ==
  /\ faults < MaxFaults /\ faults' = faults + 1
  /\ \/ chronyd \in {"started", "up", "dying"} /\ chronyd' = "off" /\ UNCHANGED watcher
     \/ chronyd = "dying" /\ chronyd' = "stuck" /\ UNCHANGED watcher
     \/ watcher \in {"read", "orphan"} /\ watcher' = "failed" /\ UNCHANGED chronyd
  /\ UNCHANGED <<inotify, hostVars, tmp, scriptVars, pidfile, loaded, prev_hash, loop, event,
                 stopping, history>>

(* A renewal replaces the certificate, then the key; it may remove a file  *)
(* before it writes the new one.                                           *)
Renew ==
  /\ \/ /\ renewal = "none" /\ version < MaxRenewals
        /\ version' = version + 1 /\ renewal' = "cert" /\ UNCHANGED <<host, event>>
     \/ /\ renewal # "none" /\ host[renewal] # Gone
        /\ host' = [host EXCEPT ![renewal] = Gone] /\ event' = (event \/ loop)
        /\ UNCHANGED <<version, renewal>>
  /\ UNCHANGED <<inotify, tmp, scriptVars, chronydVars, watcherVars, stopping, faults, history>>

WriteFile ==
  /\ renewal # "none"
  /\ host' = [host EXCEPT ![renewal] = version] /\ event' = (event \/ loop)
  /\ renewal' = IF renewal = "cert" THEN "key" ELSE "none"
  /\ UNCHANGED <<inotify, version, tmp, scriptVars, chronydVars, watcherVars, stopping, faults,
                 history>>

(* docker stop: process 1 ignores a signal it has no trap for.             *)
Stop ==
  /\ ~ stopping /\ stopping' = TRUE
  /\ term' = (script \in {"start", "pid", "spawn", "wait"})
  /\ early' = (script \notin {"spawn", "wait", "drain"})
  /\ UNCHANGED <<inotify, hostVars, tmp, script, resume, pid, chronydVars, watcherVars, event,
                 faults, slow>>

(* ... and kills what is left after the grace period, which is long        *)
(* compared with any command of the script but a wait.                     *)
Kill ==
  /\ stopping /\ ~ term /\ script \in {"wait", "drain"} /\ chronyd # "off"
  /\ slow' = (slow \/ chronyd \in {"dying", "stuck"})
  /\ script' = "killed" /\ chronyd' = "off" /\ watcher' = "off"
  /\ loop' = FALSE /\ event' = FALSE
  /\ UNCHANGED <<inotify, hostVars, tmp, resume, pid, term, pidfile, loaded, prev_hash,
                 stopping, faults, early>>

RestartContainer ==
  /\ script = "exit" /\ ~ stopping /\ script' = "copyCert"
  /\ UNCHANGED <<inotify, hostVars, tmp, resume, pid, term, chronydVars, watcherVars, event,
                 stopping, faults, history>>

Next ==
  \/ ScriptStep \/ WatcherStep \/ Load \/ ChronydExits \/ Fault
  \/ Renew \/ WriteFile \/ Stop \/ Kill \/ RestartContainer

(* Processes run, a TERM ends chronyd, docker restarts, and a renewal that *)
(* has begun is completed.                                                 *)
Fairness ==
  /\ WF_vars(ScriptStep) /\ WF_vars(WatcherStep) /\ WF_vars(Load)
  /\ WF_vars(ChronydExits) /\ WF_vars(WriteFile) /\ WF_vars(RestartContainer)

Spec == Init /\ [][Next]_vars /\ Fairness
-----------------------------------------------------------------------------
(* docker has to kill the container only when its TERM came before         *)
(* CHRONYD_PID was set, or chronyd is slow: any other TERM reaches chronyd *)
(* through forward_term, whatever line of the script it interrupts.        *)
TermReachesChronyd == script = "killed" => early \/ slow

(* entrypoint.sh:138-154. A TERM that finds the script waiting ends it by  *)
(* itself, without docker's kill: forward_term waits for chronyd inside    *)
(* the trap, but gives up on one that does not end, and the wait it        *)
(* interrupted is not resumed.                                             *)
StopEnds == (script = "wait" /\ term) ~> script \in {"exit", "killed"}

AtLeast(p, q) == \A f \in File : p[f] >= q[f]

(* Files that change while the watcher is in its loop come to be loaded,   *)
(* these or newer ones, whichever process dies and whatever is missing     *)
(* when the watcher copies them: if it gives up on a missing file, the     *)
(* event of its return ends chronyd too, unless it comes right when the    *)
(* watcher gives up. A chronyd that does not end on its TERM keeps the     *)
(* script waiting. (check_and_restart, the failure path of the watcher,    *)
(* the restart and the copy at the start.)                                 *)
RenewalLoaded ==
  \A v \in 1 .. MaxRenewals : \A k \in {v - 1, v} :
    LET p == [f \in File |-> IF f = "cert" THEN v ELSE k]
    IN  (event /\ host = p) ~>
          \/ stopping \/ chronyd = "stuck" \/ watcher = "unreadable"
          \/ chronyd = "up" /\ AtLeast(loaded, p)

(* Whatever ends chronyd, it serves again unless it is being stopped or    *)
(* hangs: the script exits, docker restarts it, and a stale pid file is    *)
(* removed.                                                                *)
ServiceRestored ==
  (inotify /\ chronyd = "off") ~> (stopping \/ chronyd \in {"up", "stuck"})

(* When no renewal is under way and the watcher waits for events, the      *)
(* files are those it compares with, or there is an event to be read: the  *)
(* comment in the script says of the check up front that it is there "to   *)
(* close the race between prev_hash above and inotifywait actually         *)
(* starting to watch".                                                     *)
RaceClosed ==
  watcher = "read" /\ renewal = "none" => event \/ host = prev_hash
=============================================================================
