----------------------------- MODULE EngineLoop -----------------------------
(***************************************************************************)
(* The life of the process: the main thread with its console, the engine   *)
(* thread it starts, the two message queues between them, and the workers  *)
(* that run the systems of a tick.                                         *)
(* (main.cpp, EngineLoop.cpp, ConsoleCommands..., Utils/ServiceLocator)    *)
(*                                                                         *)
(* The engine thread starts, sets up its singletons and then ticks until   *)
(* it takes MSG_IN_EXIT.  The main thread prints what comes back and hands *)
(* console lines to the command handler.  The console is external: a       *)
(* reader thread waits for one line at a time, and lines come whenever the *)
(* user types them.                                                        *)
(***************************************************************************)
EXTENDS Naturals, Sequences

CONSTANTS Word,      \* what the first word of a line can be, "" for an empty line
          Line,      \* the lines the user may type: a word and a number of parameters
          Hash,      \* external: the hash of a word (fnv1a_32)
          KeyRange,  \* number of keys of commandHandlers: 2^16
          MaxLines   \* bound: lines typed in a behaviour

Command == {"quit", "ping", "account"}
NoLine  == [word |-> "none", params |-> 0]

ASSUME WordAssumption == Command \subseteq Word /\ Hash \in [Word -> Nat]
ASSUME LineAssumption == Line \subseteq [word : Word, params : Nat] /\ NoLine \notin Line
ASSUME BoundAssumption == KeyRange \in Nat \ {0} /\ MaxLines \in Nat

VARIABLES
  mainAt,    \* where the main thread is
  engineAt,  \* where the engine thread is
  isRunning, \* _isRunning
  setUp,     \* what AccountCommand needs: the registry pointer, the connected DBSingleton
  inQueue,   \* _inputQueue
  outQueue,  \* _outputQueue
  line,      \* the line the console reader has, or NoLine
  pongs,     \* answers printed
  fault,     \* AccountCommand used something that is not set up
  running,   \* the systems of this tick a worker runs just now
  finished,  \* the systems of this tick that have run
  typed,     \* history: lines typed
  wanted,    \* history: lines typed whose word has the key of a command
  quitTaken, \* history: a quit found the engine running
  pingsFirst \* history: pings passed on before that

threads == <<mainAt, engineAt, isRunning, setUp>>
queues  == <<inQueue, outQueue>>
console == <<line, typed, wanted>>
effects == <<pongs, fault>>
tick    == <<running, finished>>
passed  == <<quitTaken, pingsFirst>>
loopVars == <<threads, queues, console, effects, tick, passed>>

MainPlace   == {"start", "poll", "wait", "command", "stop", "join", "done"}
EnginePlace == {"absent", "thread", "framework", "singletons", "messages", "systems",
                "confirm", "ended"}

Init ==
  /\ mainAt = "start" /\ engineAt = "absent"
  /\ isRunning = FALSE
  /\ setUp = {}
  /\ inQueue = <<>> /\ outQueue = <<>>
  /\ line = NoLine /\ typed = 0 /\ wanted = [c \in Command |-> 0]
  /\ pongs = 0 /\ fault = FALSE
  /\ running = {} /\ finished = {}
  /\ quitTaken = FALSE /\ pingsFirst = 0

-----------------------------------------------------------------------------
(* Console commands.                                                         *)

(* The handler map has 16-bit keys: a 32-bit hash loses its upper half when  *)
(* a command is registered and when a line is looked up.                     *)
Key(word) == Hash[word] % KeyRange

(* The constructor registers "quit", then "ping", then "account", each with  *)
(* insert_or_assign: a later command would take over the key of an earlier.  *)
commandHandlers ==
  [k \in {Key(c) : c \in Command} |->
     IF k = Key("account") THEN "account" ELSE IF k = Key("ping") THEN "ping" ELSE "quit"]

(* Mutant: the next key that is not smaller is taken (lower_bound). *)
FoundByLowerBound(l) ==
  IF l.word = "" THEN {}
  ELSE {c \in Command : /\ Key(c) >= Key(l.word)
                        /\ \A k \in DOMAIN commandHandlers : k >= Key(l.word) => k >= Key(c)}

(* The command a line runs, if any: an empty line is not looked at. *)
Found(l) ==
  IF l.word = "" \/ Key(l.word) \notin DOMAIN commandHandlers THEN {}
  ELSE {commandHandlers[Key(l.word)]}

-----------------------------------------------------------------------------
(* History: a line counts for a command when its word has the command's key. *)
Asks(l, c) == l.word # "" /\ Key(l.word) = Key(c)

(* External: the user types a line; the reader keeps it until the main       *)
(* thread asks for the next one.                                             *)
TypeLine(l) ==
  /\ mainAt \notin {"start", "done"} /\ line = NoLine
  /\ typed < MaxLines
  /\ line' = l
  /\ typed' = typed + 1
  /\ wanted' = [c \in Command |-> IF Asks(l, c) THEN wanted[c] + 1 ELSE wanted[c]]
  /\ UNCHANGED <<threads, queues, effects, tick, passed>>

-----------------------------------------------------------------------------
(* Main thread.                                                              *)

(* EngineLoop::Start; the first reader is started as well. *)
MainStart ==
  /\ mainAt = "start"
  /\ mainAt' = "poll"
  /\ engineAt' = IF isRunning THEN engineAt ELSE "thread"
  /\ UNCHANGED <<isRunning, setUp, queues, console, effects, tick, passed>>

Receive(message) ==
  IF message = "EXIT_CONFIRM"
  THEN mainAt' = "stop" /\ UNCHANGED pongs
  ELSE pongs' = pongs + 1 /\ UNCHANGED mainAt

(* Mutant: one message is taken and the rest of the queue is dropped. *)
MainPollDrops ==
  /\ mainAt = "poll"
  /\ \/ outQueue = <<>> /\ mainAt' = "wait" /\ UNCHANGED <<outQueue, pongs>>
     \/ outQueue # <<>> /\ outQueue' = <<>> /\ Receive(Head(outQueue))
  /\ UNCHANGED <<engineAt, isRunning, setUp, inQueue, console, fault, tick, passed>>

(* The inner loop over TryGetMessage. *)
MainPoll ==
  /\ mainAt = "poll"
  /\ \/ outQueue = <<>> /\ mainAt' = "wait" /\ UNCHANGED <<outQueue, pongs>>
     \/ outQueue # <<>> /\ outQueue' = Tail(outQueue) /\ Receive(Head(outQueue))
  /\ UNCHANGED <<engineAt, isRunning, setUp, inQueue, console, fault, tick, passed>>

(* future.wait_for: the line is there, or 50 ms are over. *)
MainWait ==
  /\ mainAt = "wait"
  /\ mainAt' = IF line = NoLine THEN "poll" ELSE "command"
  /\ UNCHANGED <<engineAt, isRunning, setUp, queues, console, effects, tick, passed>>

(* Mutant: the exit message overtakes what is queued. *)
StopFirst ==
  /\ inQueue' = IF isRunning THEN <<"EXIT">> \o inQueue ELSE inQueue
  /\ quitTaken' = (quitTaken \/ isRunning)

(* EngineLoop::Stop. *)
Stop ==
  /\ inQueue' = IF isRunning THEN Append(inQueue, "EXIT") ELSE inQueue
  /\ quitTaken' = (quitTaken \/ isRunning)

QuitCommand == Stop /\ UNCHANGED <<fault, pingsFirst>>

PingCommand ==
  /\ inQueue' = Append(inQueue, "PING")
  /\ pingsFirst' = IF quitTaken THEN pingsFirst ELSE pingsFirst + 1
  /\ UNCHANGED <<fault, quitTaken>>

(* Without both parameters nothing is touched. *)
AccountCommand ==
  /\ fault' = (line.params >= 2 /\ setUp # {"registry", "database"})
  /\ UNCHANGED <<inQueue, passed>>

(* HandleCommand, then the next reader is started. *)
MainCommand ==
  /\ mainAt = "command"
  /\ \/ "quit" \in Found(line) /\ QuitCommand
     \/ "ping" \in Found(line) /\ PingCommand
     \/ "account" \in Found(line) /\ AccountCommand
     \/ Found(line) = {} /\ UNCHANGED <<inQueue, fault, passed>>
  /\ line' = NoLine
  /\ mainAt' = "poll"
  /\ UNCHANGED <<engineAt, isRunning, setUp, outQueue, typed, wanted, pongs, tick>>

(* After the loop Stop is called once more; the message is never read. *)
MainStop ==
  /\ mainAt = "stop"
  /\ Stop
  /\ mainAt' = "join"
  /\ UNCHANGED <<engineAt, isRunning, setUp, outQueue, console, effects, tick, pingsFirst>>

(* The future's destructor waits for the reader, which waits for a line. *)
MainJoin ==
  /\ mainAt = "join"
  /\ line # NoLine
  /\ mainAt' = "done"
  /\ UNCHANGED <<engineAt, isRunning, setUp, queues, console, effects, tick, passed>>

-----------------------------------------------------------------------------
(* Engine thread: Run, SetupUpdateFramework, Update, UpdateSystems.          *)

(* _isRunning is a plain bool: the write may reach the main thread later.    *)
(* That is no different from the engine thread starting later, because the   *)
(* main thread learns nothing else from it before it answers over a queue.   *)
EngineStarts ==
  /\ engineAt = "thread"
  /\ engineAt' = "framework"
  /\ isRunning' = TRUE
  /\ UNCHANGED <<mainAt, setUp, queues, console, effects, tick, passed>>

(* Mutant: the first tick does not wait for the database. *)
EngineTicksAtOnce ==
  /\ engineAt = "framework"
  /\ setUp' = {"registry"}
  /\ engineAt' = "messages"
  /\ UNCHANGED <<mainAt, isRunning, queues, console, effects, tick, passed>>

EngineSetsUp ==
  /\ \/ /\ engineAt = "framework"
        /\ setUp' = {"registry"}
        /\ engineAt' = "singletons"
     \/ /\ engineAt = "singletons"
        /\ setUp' = setUp \cup {"database"}
        /\ engineAt' = "messages"
  /\ UNCHANGED <<mainAt, isRunning, queues, console, effects, tick, passed>>

(* The loop over _inputQueue at the start of a tick; after it the task graph *)
(* is handed to the workers.                                                 *)
EngineMessage ==
  /\ engineAt = "messages"
  /\ \/ inQueue = <<>> /\ engineAt' = "systems" /\ finished' = {} /\ UNCHANGED queues
     \/ /\ inQueue # <<>>
        /\ inQueue' = Tail(inQueue)
        /\ IF Head(inQueue) = "EXIT"
           THEN engineAt' = "confirm" /\ UNCHANGED outQueue
           ELSE outQueue' = Append(outQueue, "PONG") /\ UNCHANGED engineAt
        /\ UNCHANGED finished
  /\ UNCHANGED <<mainAt, isRunning, setUp, console, effects, running, passed>>

(* Mutant: the deferred system is only ordered behind the first one. *)
GathersFirst ==
  [ConnectionUpdate |-> {}, InitializePlayer |-> {"ConnectionUpdate"},
   ConnectionDeferred |-> {"ConnectionUpdate"}]

(* The edges of the task graph. *)
Gathers ==
  [ConnectionUpdate |-> {}, InitializePlayer |-> {"ConnectionUpdate"},
   ConnectionDeferred |-> {"InitializePlayer"}]

System == DOMAIN Gathers

(* External: a worker takes a task when all it gathers have finished. *)
StartSystem(s) ==
  /\ engineAt = "systems"
  /\ s \notin running \cup finished /\ Gathers[s] \subseteq finished
  /\ running' = running \cup {s}
  /\ UNCHANGED <<threads, queues, console, effects, finished, passed>>

FinishSystem(s) ==
  /\ s \in running
  /\ running' = running \ {s}
  /\ finished' = finished \cup {s}
  /\ UNCHANGED <<threads, queues, console, effects, passed>>

(* wait_for_all returns, and the thread waits for the next tick. *)
EngineWaits ==
  /\ engineAt = "systems"
  /\ finished = System
  /\ engineAt' = "messages"
  /\ UNCHANGED <<mainAt, isRunning, setUp, queues, console, effects, tick, passed>>

(* Mutants: the wrong message, or none, is sent at the end. *)
EngineConfirmsExit ==
  /\ engineAt = "confirm"
  /\ outQueue' = Append(outQueue, "EXIT")
  /\ engineAt' = "ended"
  /\ UNCHANGED <<mainAt, isRunning, setUp, inQueue, console, effects, tick, passed>>

EngineEndsSilently ==
  /\ engineAt = "confirm"
  /\ engineAt' = "ended"
  /\ UNCHANGED <<mainAt, isRunning, setUp, queues, console, effects, tick, passed>>

(* _isRunning stays set. *)
EngineConfirms ==
  /\ engineAt = "confirm"
  /\ outQueue' = Append(outQueue, "EXIT_CONFIRM")
  /\ engineAt' = "ended"
  /\ UNCHANGED <<mainAt, isRunning, setUp, inQueue, console, effects, tick, passed>>

-----------------------------------------------------------------------------
MainStep == MainStart \/ MainPoll \/ MainWait \/ MainCommand \/ MainStop \/ MainJoin

EngineStep ==
  EngineStarts \/ EngineSetsUp \/ EngineMessage \/ EngineWaits \/ EngineConfirms

WorkerStep == \E s \in System : StartSystem(s) \/ FinishSystem(s)

(* After a fault nothing is claimed; a finished process stays finished. *)
Ended == fault \/ mainAt \in {"join", "done"}

Next ==
  \/ /\ ~fault
     /\ \/ \E l \in Line : TypeLine(l)
        \/ MainStep
        \/ EngineStep
        \/ WorkerStep
  \/ Ended /\ UNCHANGED loopVars

Spec == Init /\ [][Next]_loopVars

(* The threads are scheduled; the user types when they please, or never. *)
FairSpec ==
  /\ Spec
  /\ WF_loopVars(~fault /\ MainStep)
  /\ WF_loopVars(~fault /\ EngineStep)
  /\ WF_loopVars(~fault /\ WorkerStep)

-----------------------------------------------------------------------------
TypeOK ==
  /\ mainAt \in MainPlace
  /\ engineAt \in EnginePlace
  /\ isRunning \in BOOLEAN
  /\ setUp \subseteq {"registry", "database"}
  /\ inQueue \in Seq({"EXIT", "PING"})
  /\ outQueue \in Seq({"PONG", "EXIT_CONFIRM"})
  /\ line \in Line \cup {NoLine}
  /\ running \subseteq System /\ finished \subseteq System
  /\ typed \in Nat /\ wanted \in [Command -> Nat] /\ pongs \in Nat /\ pingsFirst \in Nat
  /\ fault \in BOOLEAN /\ quitTaken \in BOOLEAN

(* The main thread leaves its loop only after a quit that found the engine   *)
(* running, when the engine has stopped ticking and every ping passed on     *)
(* before that quit has been answered and printed, none of them twice; pings *)
(* after it are never answered.                                              *)
LeavesWithAllAnswers ==
  mainAt \in {"stop", "join", "done"} =>
    quitTaken /\ engineAt = "ended" /\ pongs = pingsFirst

(* Two systems of a tick never run at the same time, and none runs while the *)
(* engine thread handles messages or after it has confirmed the exit: the    *)
(* systems share the registry without a lock.                                *)
SystemsRunAlone ==
  /\ \A s, t \in running : s = t
  /\ running # {} => engineAt = "systems"
  /\ "ConnectionDeferred" \in running \cup finished =>
       {"ConnectionUpdate", "InitializePlayer"} \subseteq finished

(* What the process does was asked for: an answer by a line with the key of  *)
(* "ping", the end by one with the key of "quit", an access to the database  *)
(* by one with the key of "account".  A line that shares the low bits of its *)
(* hash with a command counts as that command; no other line does anything.  *)
NothingUnasked ==
  /\ pongs <= wanted["ping"]
  /\ (quitTaken \/ engineAt = "ended") => wanted["quit"] > 0
  /\ fault => wanted["account"] > 0

(* The account command finds the registry and the database set up from the   *)
(* first answer on that the user has seen; only before that can it fail.     *)
AccountSafeAfterAnswer == fault => pongs = 0

(* A quit that found the engine running ends the engine and takes the main   *)
(* thread out of its loop, to where it waits for the console.                *)
QuitEnds ==
  quitTaken ~> (fault \/ (engineAt = "ended" /\ mainAt \in {"join", "done"}))

(* A ping is answered while nobody has quit: whatever was passed on is       *)
(* printed in the end.                                                       *)
PingAnswered ==
  \A n \in 1 .. MaxLines : pingsFirst >= n ~> (fault \/ pongs >= n)
=============================================================================
