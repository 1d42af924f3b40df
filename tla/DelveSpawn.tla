------------------------------ MODULE DelveSpawn ------------------------------
(***************************************************************************)
(* startDelve: the child process, the goroutine that scans its standard    *)
(* output for the announcement and drains it afterwards, and the caller    *)
(* that waits for the result or for the startup timer, whichever is first. *)
(***************************************************************************)
EXTENDS Naturals, Sequences

CONSTANTS MaxLines,  \* bound: lines the child prints
          PipeSize   \* lines the pipe holds before the child blocks

ASSUME SpawnAssumption == MaxLines \in Nat /\ PipeSize \in Nat \ {0}

VARIABLES
    spawn,    \* where startDelve is; "running" and "failed" are its two results
    child,    \* the adapter process: "none", "up", "dead" (a zombie) or "reaped"
    printed,  \* lines printed so far
    pipe,     \* lines in the stdout pipe
    readEnd,  \* our end of the pipe is open
    scanner,  \* the goroutine: "none", "scan", "drain" or "done"
    ready     \* the channel of capacity 1: "empty", or the result in it

spawnVars == <<spawn, child, printed, pipe, readEnd, scanner, ready>>

\* What a line means to the scanner: nothing, a usable loopback address, an
\* address it refuses, or more than the scanner's buffer holds.
Lines == {"noise", "address", "invalid", "long"}

SpawnInit ==
    /\ spawn = "start" /\ child = "none" /\ printed = 0
    /\ pipe = <<>> /\ readEnd = TRUE /\ scanner = "none" /\ ready = "empty"

------------------------------------------------------------------------------
(* startDelve.                                                              *)

StartFails ==
    /\ spawn = "start"
    /\ spawn' = "failed"
    /\ readEnd' = FALSE
    /\ UNCHANGED <<child, printed, pipe, scanner, ready>>

Start ==
    /\ spawn = "start"
    /\ child' = "up"
    /\ scanner' = "scan"
    /\ spawn' = "select"
    /\ UNCHANGED <<printed, pipe, readEnd, ready>>

\* The select takes the scanner's result.
Announced ==
    /\ spawn = "select"
    /\ ready # "empty"
    /\ ready' = "empty"
    /\ spawn' = IF ready = "address" THEN "running" ELSE "kill"
    /\ UNCHANGED <<child, printed, pipe, readEnd, scanner>>

\* Fault: the start is not bounded.
NeverTimesOut == FALSE /\ UNCHANGED spawnVars

\* Or the timer, even if a result is there by now.
Timeout ==
    /\ spawn = "select"
    /\ spawn' = "kill"
    /\ UNCHANGED <<child, printed, pipe, readEnd, scanner, ready>>

Kill ==
    /\ spawn = "kill"
    /\ child' = "dead"
    /\ spawn' = "close"
    /\ UNCHANGED <<printed, pipe, readEnd, scanner, ready>>

CloseOutput ==
    /\ spawn = "close"
    /\ readEnd' = FALSE
    /\ spawn' = "reap"
    /\ UNCHANGED <<child, printed, pipe, scanner, ready>>

\* Fault: a child that was killed is not waited for.
ReapOmitted == UNCHANGED child
ReapChild   == child' = "reaped"

Reap ==
    /\ spawn = "reap"
    /\ ReapChild
    /\ spawn' = "failed"
    /\ UNCHANGED <<printed, pipe, readEnd, scanner, ready>>

------------------------------------------------------------------------------
(* The scanner goroutine.                                                   *)

\* Fault: without a buffer the send needs a caller that still selects.
UnbufferedSend == ready = "empty" /\ spawn = "select"
CanSend        == ready = "empty"

Send(result, next) == CanSend /\ ready' = result /\ scanner' = next

\* Fault: nobody reads on after the announcement, or every line is still parsed.
StopsReading  == "done"
KeepsScanning == "scan"
AfterAnnouncement == "drain"

Scan ==
    /\ scanner = "scan" /\ readEnd
    /\ pipe # <<>>
    /\ pipe' = Tail(pipe)
    /\ CASE Head(pipe) = "noise"   -> UNCHANGED <<ready, scanner>>
         [] Head(pipe) = "address" -> Send("address", AfterAnnouncement)
         [] OTHER                  -> Send("error", "done")
    /\ UNCHANGED <<spawn, child, printed, readEnd>>

\* The child can write no more and all is read, or our end was closed.
AtEnd == ~readEnd \/ (pipe = <<>> /\ child # "up")

ScanEnds ==
    /\ scanner = "scan"
    /\ AtEnd
    /\ Send("error", "done")
    /\ UNCHANGED <<spawn, child, printed, pipe, readEnd>>

Drain ==
    /\ scanner = "drain"
    /\ readEnd /\ pipe # <<>>
    /\ pipe' = <<>>
    /\ UNCHANGED <<spawn, child, printed, readEnd, scanner, ready>>

DrainEnds ==
    /\ scanner = "drain"
    /\ AtEnd
    /\ scanner' = "done"
    /\ UNCHANGED <<spawn, child, printed, pipe, readEnd, ready>>

------------------------------------------------------------------------------
(* The child (external): what it prints and when it exits is its own matter. *)

Prints(line) ==
    /\ child = "up"
    /\ readEnd
    /\ printed < MaxLines
    /\ Len(pipe) < PipeSize
    /\ pipe' = Append(pipe, line)
    /\ printed' = printed + 1
    /\ UNCHANGED <<spawn, child, readEnd, scanner, ready>>

ChildExits ==
    /\ child = "up"
    /\ child' = "dead"
    /\ UNCHANGED <<spawn, printed, pipe, readEnd, scanner, ready>>

------------------------------------------------------------------------------
StartDelve == \/ StartFails \/ Start \/ Announced \/ Timeout
              \/ Kill \/ CloseOutput \/ Reap
Scanner    == Scan \/ ScanEnds \/ Drain \/ DrainEnds

------------------------------------------------------------------------------
SpawnTypeOK ==
    /\ spawn \in {"start", "select", "kill", "close", "reap", "running", "failed"}
    /\ child \in {"none", "up", "dead", "reaped"}
    /\ printed \in 0..MaxLines
    /\ pipe \in Seq(Lines) /\ Len(pipe) <= PipeSize
    /\ readEnd \in BOOLEAN
    /\ scanner \in {"none", "scan", "drain", "done"}
    /\ ready \in {"empty", "address", "error"}
    /\ spawn = "running" => ready = "empty" /\ scanner # "scan"
==============================================================================
