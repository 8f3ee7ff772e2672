--------------------------- MODULE DriverSteps ---------------------------
(* The vocabulary of the GPU study drivers of scripts/.  Each driver is a   *)
(* Python (or shell) program that checks its inputs, takes the GPU lock,    *)
(* stops the production service, runs containers, records its result and    *)
(* cleans up in finally clauses.  A driver is a sequence of steps here; a   *)
(* step names its operation, its argument and, in h, how far ahead the      *)
(* clause lies that an exception raised in it goes to (0: out of the        *)
(* program).  Drivers gives the steps their meaning.                        *)
EXTENDS Naturals, Sequences

\* How a driver ends up being recorded; PASS_* and COMPLETE_* are one.
Absent == "absent"
Running == "RUNNING"
Failed == "FAILED"
Rejected == "REJECTED"
Complete == "COMPLETE"
Statuses == {Absent, Running, Failed, Rejected, Complete}

Unnamed == "unnamed"    \* a docker run without --name

LOCAL Step(op, arg) == [op |-> op, arg |-> arg, h |-> 0]

(* Preconditions.  They raise when they do not hold.                        *)
Fresh == Step("fresh", "")              \* refuse an output directory that exists
Need(earlier) == Step("need", earlier)          \* evidence of `earlier', final, on this image
Finished(earlier) == Step("finished", earlier)  \* evidence of `earlier', final, image not compared
Outcome(earlier) == Step("outcome", earlier)    \* poll the record of `earlier' until it is final
Inspect == Step("inspect", "")          \* the image id behind the tag, kept
Pinned == Step("pinned", "")            \* the tag still names the expected image
Idle == Step("idle", "")                \* production is up, the right one, without requests
NoService == Step("no_service", "")     \* production must not be active
Alone(names) == Step("alone", names)    \* production is down, none of these runs

(* The worker that answers: the container id the driver keeps, and a        *)
(* request, which whatever worker is up answers.                            *)
Identify == Step("identify", "")
SameWorker == Step("same_worker", "")   \* raises in the presence of another container
Ask == Step("ask", "")

(* run.lock, released when the process ends.                                *)
WaitLock == Step("wait_lock", "")
TryLock == Step("try_lock", "")

(* The record of the run.  The directory is created with its first record;  *)
(* a record cut short in its write reads like the one that is not final.    *)
Open == Step("open", "")
Reopen == Step("reopen", "")            \* --resume: read the record, and write it again
Same == Step("same", "")                \* the record is of the inspected image
Announce == Step("announce", "")        \* a status that is not final, on disk only
Note(statuses) == Step("note", statuses)
Save == Step("save", "")
Conclude(statuses) == <<Note(statuses), Save>>

(* The production service; start returns before the service is healthy.     *)
Stop == Step("stop", "")
Start == Step("start", "")
Restart == Step("restart", "")
Await == Step("await", "")
Poll == Step("poll", "")                \* like Await, but its failure is not looked at

(* Containers.  Up is docker run -d, or the begin of a docker run in the    *)
(* foreground that Exit ends; Spawn is Popen of a docker run whose          *)
(* container is created later, Ready polls it; Down is docker rm -f or stop.*)
Up(c) == Step("up", c)
Exit(c) == Step("exit", c)
Spawn(c) == Step("spawn", c)
Ready(c) == Step("ready", c)
Down(c) == Step("down", c)
Foreground(c) == <<Up(c), Exit(c)>>
Work == <<Step("work", "")>>            \* requests, checks, files: may only fail
Look == <<Step("look", "")>>            \* in a clause, before the cleanup

(* except: the record becomes FAILED, in memory or on disk too; Signals are *)
(* BaseExceptions and pass an `except Exception'.                           *)
Error == "error"
Signal == "signal"
Anything == {Error, Signal}
Except(kinds) == <<Step("except", kinds)>>
ExceptSave(kinds) == <<Step("except_save", kinds)>>
Swallow(kinds) == <<Step("swallow", kinds)>>

(* try: body finally: clauses.  Whatever body raises, or the clauses of an  *)
(* inner try raise, goes to the clauses; a pending exception goes on after  *)
(* them.                                                                    *)
Try(body, clauses) ==
  [i \in 1..Len(body) |->
     IF body[i].h = 0 THEN [body[i] EXCEPT !.h = Len(body) + 1 - i] ELSE body[i]]
  \o clauses \o <<Step("reraise", "")>>

\* Skipped or taken, by data the model leaves out: an option, a failed gate.
Maybe(body) == <<Step("either", Len(body) + 1)>> \o body
\* Two rounds stand for the arms, stages, cases or limits a driver lists.
Each(body) == body \o body

(* ExecStopPost of a transient unit: it follows the process however that    *)
(* ended, as a process of its own, without the lock.                        *)
Unit(body, post) == Try(body, <<Step("post", "")>> \o post)
=============================================================================
