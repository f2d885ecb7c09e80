------------------------------ MODULE ListCommand ------------------------------
(***************************************************************************)
(* ctc_lib: one call of Execute for a ContainerToolListCommand.  A command *)
(* that streams has a goroutine of its own, the producer, which writes     *)
(* its items to a channel and closes it; the library reads them, shows     *)
(* them, adds up a total, and afterwards looks for an update of the tool.  *)
(* What a tool provides may return errors and may panic, which Execute     *)
(* recovers from; a panic of the producer it could not, and that one is    *)
(* left out, like errors of a write to the standard output.                *)
(***************************************************************************)
EXTENDS Integers, Sequences

CONSTANTS
  Items,      \* what the command yields, in order
  Texts,      \* the strings among them, which are shown but are not output
  Capacities  \* of the channels a tool may make

ASSUME CapacitiesAssumption == Capacities \subseteq Nat
ASSUME ItemsAssumption == Items \in Seq({Items[i] : i \in DOMAIN Items})

\* How the tool was written and called.
Calls == [valid : BOOLEAN,        \* does not define both Run and RunO
          args : {"good", "wrong", "unparsable"},  \* what cobra says to them
          streams : BOOLEAN,      \* StreamO is defined
          capacity : Capacities,  \* of Stream
          totals : BOOLEAN,       \* TotalO and SummaryTemplate are defined
          json : BOOLEAN,         \* --jsonOutput
          debug : BOOLEAN,        \* --verbosity=debug: log to a file
          checkDue : BOOLEAN,     \* ReleaseUrl is set and the last check is old
          exitOnError : BOOLEAN]  \* SetExitOnError

VARIABLES
  call,      \* the call, fixed
  producer,  \* "none", "sending" or "closed"
  sent,      \* items the producer has written to the channel
  channel,   \* items in the channel
  pc,        \* control point of the library
  item,      \* the item read last
  output,    \* OutputList
  shown,     \* items written to the command's standard output
  errors,    \* those of "command", "total", "summary" and "result" that occurred
  returned,  \* the error Execute ends with, a "panic", or "nil"
  fileLog,   \* Log writes to a file
  panicked,  \* "none", or what did: "command", "update" or "log"
  outcome    \* "none"; "ok", "failed" (status 1) or "returned" (an error, no exit)

streamVars == <<producer, sent, channel>>
resultVars == <<item, output, shown, errors>>
endVars    == <<returned, fileLog, panicked, outcome>>
vars       == <<call, streamVars, pc, resultVars, endVars>>

\* The objects among the first n items.
ObjectsIn[n \in 0..Len(Items)] ==
  IF n = 0 THEN << >>
  ELSE IF Items[n] \in Texts THEN ObjectsIn[n - 1] ELSE Append(ObjectsIn[n - 1], Items[n])

Objects == ObjectsIn[Len(Items)]

GoTo(s) == pc' = s

-------------------------------------------------------------------------------
(***************************************************************************)
(* Execute, up to the command's own code.                                  *)
(***************************************************************************)

\* ExecuteE returns before it checks for updates.
Invalid ==
  /\ pc = "start" /\ ~call.valid
  /\ returned' = "invalid" /\ GoTo("exit")
  /\ UNCHANGED <<call, streamVars, resultVars, fileLog, panicked, outcome>>

\* initLogging runs when the flags are parsed; it falls back to a logger
\* without a file if it cannot make one.
Leveled == call.debug /\ call.args # "unparsable"
InitLogging == fileLog' \in IF Leveled THEN BOOLEAN ELSE {FALSE}

BadArgs ==
  /\ pc = "start" /\ call.valid /\ call.args # "good"
  /\ InitLogging
  /\ returned' = "args" /\ GoTo("update")
  /\ UNCHANGED <<call, streamVars, resultVars, panicked, outcome>>

Begin ==
  /\ pc = "start" /\ call.valid /\ call.args = "good"
  /\ InitLogging
  /\ GoTo("run")
  /\ UNCHANGED <<call, streamVars, resultVars, returned, panicked, outcome>>

\* StreamO starts the producer and comes back.
StreamO ==
  /\ pc = "run" /\ call.streams
  /\ producer' = "sending" /\ GoTo("read")
  /\ UNCHANGED <<call, sent, channel, resultVars, endVars>>

\* RunO returns its list, or an error.
RunO ==
  /\ pc = "run" /\ ~call.streams
  /\ \/ output' = Objects /\ UNCHANGED errors
     \/ errors' = errors \cup {"command"} /\ UNCHANGED output
  /\ GoTo("total")
  /\ UNCHANGED <<call, streamVars, item, shown, endVars>>

\* Log.Panic and any other panic: the hook of initLogging, or errRecover and
\* CommandExit, end the process, unless the tool does not want that.  What
\* ExecuteE would have returned is gone.  (In the mutant errRecover drops what it
\* recovers.)
PanicSwallowed(what) ==
  /\ panicked' = what /\ returned' = "panic"
  /\ outcome' = IF call.exitOnError THEN "failed" ELSE outcome
  /\ GoTo("ended")

Panic(what) ==
  /\ panicked' = what /\ returned' = "panic"
  /\ outcome' = IF call.exitOnError THEN "failed" ELSE "returned"
  /\ GoTo("ended")

\* StreamO, RunO or TotalO panics.
CommandPanics ==
  /\ pc = "run" \/ (pc = "total" /\ call.totals)
  /\ Panic("command")
  /\ UNCHANGED <<call, streamVars, resultVars, fileLog>>

-------------------------------------------------------------------------------
(***************************************************************************)
(* The stream.                                                             *)
(***************************************************************************)

\* A send to a channel with room.
Send ==
  /\ producer = "sending" /\ outcome = "none"
  /\ sent < Len(Items) /\ Len(channel) < call.capacity
  /\ channel' = Append(channel, Items[sent + 1]) /\ sent' = sent + 1
  /\ UNCHANGED <<call, producer, pc, resultVars, endVars>>

\* A send that a waiting reader takes.
Handoff ==
  /\ producer = "sending" /\ sent < Len(Items)
  /\ pc = "read" /\ channel = << >>
  /\ item' = Items[sent + 1] /\ sent' = sent + 1
  /\ GoTo("got")
  /\ UNCHANGED <<call, producer, channel, output, shown, errors, endVars>>

Close ==
  /\ producer = "sending" /\ outcome = "none" /\ sent = Len(Items)
  /\ producer' = "closed"
  /\ UNCHANGED <<call, sent, channel, pc, resultVars, endVars>>

Receive ==
  /\ pc = "read" /\ channel # << >>
  /\ item' = Head(channel) /\ channel' = Tail(channel)
  /\ GoTo("got")
  /\ UNCHANGED <<call, producer, sent, output, shown, errors, endVars>>

\* The loop over the channel ends when it is closed and empty.  (Its mutant
\* goes on receiving from the closed channel.)
EndOfStreamUnseen ==
  /\ pc = "read" /\ channel = << >> /\ producer = "closed"
  /\ GoTo("read")
  /\ UNCHANGED <<call, streamVars, resultVars, endVars>>

EndOfStream ==
  /\ pc = "read" /\ channel = << >> /\ producer = "closed"
  /\ GoTo("total")
  /\ UNCHANGED <<call, streamVars, resultVars, endVars>>

\* A string is shown as it is; an error in that is not looked at.
Text ==
  /\ pc = "got" /\ item \in Texts
  /\ shown' = IF call.json THEN shown ELSE Append(shown, item)
  /\ GoTo("read")
  /\ UNCHANGED <<call, streamVars, item, output, errors, endVars>>

\* Mutant of Object: what is not shown is not kept.
ObjectIfShown ==
  /\ pc = "got" /\ item \notin Texts
  /\ output' = IF call.json THEN output ELSE Append(output, item)
  /\ shown' = IF call.json THEN shown ELSE Append(shown, item)
  /\ GoTo("read")
  /\ UNCHANGED <<call, streamVars, item, errors, endVars>>

Object ==
  /\ pc = "got" /\ item \notin Texts
  /\ output' = Append(output, item)
  /\ shown' = IF call.json THEN shown ELSE Append(shown, item)
  /\ GoTo("read")
  /\ UNCHANGED <<call, streamVars, item, errors, endVars>>

\* The template does not fit the object: the reader leaves with no list at
\* all, and the channel to the producer.
ObjectFails ==
  /\ pc = "got" /\ item \notin Texts /\ ~call.json
  /\ output' = << >>
  /\ errors' = errors \cup {"command"}
  /\ GoTo("total")
  /\ UNCHANGED <<call, streamVars, item, shown, endVars>>

-------------------------------------------------------------------------------
(***************************************************************************)
(* The total, the result, and the end.                                     *)
(***************************************************************************)

\* TotalO and the summary template may both fail.
Total ==
  /\ pc = "total"
  /\ \E failures \in SUBSET (IF call.totals THEN {"total", "summary"} ELSE {}) :
       errors' = errors \cup failures
  /\ GoTo("print")
  /\ UNCHANGED <<call, streamVars, item, output, shown, endVars>>

\* Mutant of FirstError: the last one.
LastError ==
  IF "summary" \in errors THEN "summary"
  ELSE IF "total" \in errors THEN "total"
  ELSE IF "command" \in errors THEN "command" ELSE "nil"

\* The error printO returns.
FirstError ==
  IF "command" \in errors THEN "command"
  ELSE IF "total" \in errors THEN "total"
  ELSE IF "summary" \in errors THEN "summary" ELSE "nil"

\* What was not streamed is shown now; a template that does not fit the list is
\* logged and forgotten, and a list that does not go into JSON just forgotten.
PrintResult ==
  /\ pc = "print"
  /\ IF call.json \/ ~call.streams
       THEN \/ shown' = output /\ UNCHANGED errors
            \/ errors' = errors \cup {"result"} /\ UNCHANGED shown
       ELSE UNCHANGED <<shown, errors>>
  /\ returned' = FirstError
  /\ GoTo("update")
  /\ UNCHANGED <<call, streamVars, item, output, fileLog, panicked, outcome>>

\* The update command's own error and that of WriteTimeToFile are ignored.
UpdateCheck ==
  /\ pc = "update"
  /\ GoTo("logName")
  /\ UNCHANGED <<call, streamVars, resultVars, endVars>>

\* No answer, or one that is no version: RunO panics.
UpdateCheckFails ==
  /\ pc = "update" /\ call.checkDue
  /\ Panic("update")
  /\ UNCHANGED <<call, streamVars, resultVars, fileLog>>

\* Tells where the log file is.
LogName ==
  /\ pc = "logName"
  /\ fileLog \/ ~Leveled
  /\ GoTo("exit")
  /\ UNCHANGED <<call, streamVars, resultVars, endVars>>

\* GetCurrentFileName calls CurrentFileName of a logger that is none.
NoLogName ==
  /\ pc = "logName"
  /\ Leveled /\ ~fileLog
  /\ Panic("log")
  /\ UNCHANGED <<call, streamVars, resultVars, fileLog>>

\* CommandExit
Exit ==
  /\ pc = "exit"
  /\ outcome' = IF returned = "nil" THEN "ok"
                ELSE IF call.exitOnError THEN "failed" ELSE "returned"
  /\ GoTo("ended")
  /\ UNCHANGED <<call, streamVars, resultVars, returned, fileLog, panicked>>

-------------------------------------------------------------------------------
Init ==
  /\ call \in Calls
  /\ producer = "none" /\ sent = 0 /\ channel = << >>
  /\ pc = "start" /\ item = "none"
  /\ output = << >> /\ shown = << >> /\ errors = {}
  /\ returned = "nil" /\ fileLog = FALSE /\ panicked = "none" /\ outcome = "none"

Producer == Send \/ Close

Library ==
  \/ Invalid \/ BadArgs \/ Begin \/ StreamO \/ RunO \/ CommandPanics
  \/ Handoff \/ Receive \/ EndOfStream \/ Text \/ Object \/ ObjectFails
  \/ Total \/ PrintResult \/ UpdateCheck \/ UpdateCheckFails
  \/ LogName \/ NoLogName \/ Exit

\* The process is gone; a producer that still waits goes with it.
Ended == pc = "ended" /\ UNCHANGED vars

Next == Producer \/ Library \/ Ended

Spec == Init /\ [][Next]_vars

\* Go runs every goroutine that can run; StreamO's writes everything it has and
\* closes the channel.
FairSpec == Spec /\ WF_vars(Producer) /\ WF_vars(Library)

-------------------------------------------------------------------------------
(***************************************************************************)
(* Properties.                                                             *)
(***************************************************************************)
\* The library is at one of its control points, and the channel holds at most
\* what fits (Stream).
TypeOK ==
  /\ call \in Calls
  /\ pc \in {"start", "run", "read", "got", "total", "print", "update",
             "logName", "exit", "ended"}
  /\ producer \in {"none", "sending", "closed"}
  /\ sent \in 0..Len(Items) /\ Len(channel) <= call.capacity
  /\ errors \subseteq {"command", "total", "summary", "result"}
  /\ returned \in errors \cup {"nil", "invalid", "args", "panic"}
  /\ panicked \in {"none", "command", "update", "log"}
  /\ outcome \in {"none", "ok", "failed", "returned"}
  /\ outcome # "none" <=> pc = "ended"

\* The list a command puts out is the objects it yielded, all of them and in
\* their order, whether they came through the channel or not; while they come,
\* each is shown at once, with the strings between them (ReadFromStream, printO).
OutputIsWhatWasYielded ==
  /\ (pc \in {"total", "print", "update", "logName", "exit"}
        /\ returned \notin {"invalid", "args"} /\ "command" \notin errors)
       => output = Objects
  /\ (call.streams /\ ~call.json /\ pc \in {"read", "got"}) =>
       shown = SubSeq(Items, 1, sent - Len(channel) - (IF pc = "got" THEN 1 ELSE 0))

\* "Error in Command and in Summary Template should return CommandError": the
\* error that is returned is the first one of the command and its total, and
\* status 0 means that they had none and nothing panicked (printO,
\* TestContainerToolCommandListFailureOutput1).  Only a panic that comes after an
\* error takes its place: of TotalO, or when the command is over and a check for
\* an update is due or the log file could not be made.  The error of the result's
\* own template is not returned to anybody.
FirstErrorIsReported ==
  pc = "ended" =>
    /\ outcome = "ok" => errors \subseteq {"result"} /\ panicked = "none"
    /\ "command" \in errors =>
         \/ returned = "command"
         \/ panicked = "command" /\ call.totals
         \/ panicked = "update" /\ call.checkDue
         \/ panicked = "log" /\ Leveled /\ ~fileLog
    /\ "total" \in errors =>
         \/ returned \in {"command", "total"}
         \/ panicked = "update" /\ call.checkDue
         \/ panicked = "log" /\ Leveled /\ ~fileLog

\* Every command ends, although the reader may leave the producer waiting.
CommandEnds == <>(pc = "ended")

===============================================================================
