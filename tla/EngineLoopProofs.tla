-------------------------- MODULE EngineLoopProofs --------------------------
(***************************************************************************)
(* The safety of the process, proved for every set of words and lines, any *)
(* hash, any number of keys and any number of lines typed.                 *)
(***************************************************************************)
EXTENDS EngineLoop, SequenceTheorems, TLAPS

-----------------------------------------------------------------------------
(* The inductive invariant.                                                  *)

MainLeft   == mainAt \in {"stop", "join", "done"}
EngineDown == engineAt \in {"absent", "thread", "framework", "singletons"}
EngineOver == engineAt \in {"confirm", "ended"}

(* The flag and what the account command needs, by where the engine is; it   *)
(* answers nothing before its set-up is complete.                            *)
SetUpOK ==
  /\ mainAt = "start" <=> engineAt = "absent"
  /\ isRunning <=> engineAt \notin {"absent", "thread"}
  /\ engineAt = "singletons" => setUp = {"registry"}
  /\ ~EngineDown => setUp = {"registry", "database"}
  /\ EngineDown => outQueue = <<>> /\ pongs = 0
  /\ quitTaken => isRunning

(* A system runs, or has run, only behind what it gathers.                   *)
SystemsOK ==
  /\ running # {} => engineAt = "systems"
  /\ running \cap finished = {}
  /\ \A s \in running \cup finished : Gathers[s] \subseteq finished

(* What was passed on was typed; the line that waits is counted already.     *)
Waits(c) == line # NoLine /\ Asks(line, c)

LinesOK ==
  /\ mainAt = "command" => line # NoLine
  /\ \A c \in Command : Waits(c) => wanted[c] > 0
  /\ pingsFirst <= wanted["ping"]
  /\ Waits("ping") => pingsFirst < wanted["ping"]
  /\ quitTaken => wanted["quit"] > 0
  /\ fault => wanted["account"] > 0

(* Until the engine takes the exit, n pings are in front of it, or of the    *)
(* end of the queue as long as nobody has quit; from then on none is.        *)
PingsAhead(n) ==
  IF EngineOver THEN n = 0
  ELSE /\ IF quitTaken THEN n < Len(inQueue) /\ inQueue[n + 1] = "EXIT" ELSE n = Len(inQueue)
       /\ \A i \in 1 .. n : inQueue[i] = "PING"

(* Answers on their way: all of the queue but the confirmation at its end.   *)
PongsAhead(n) ==
  /\ IF engineAt = "ended" /\ ~MainLeft
     THEN Len(outQueue) = n + 1 /\ outQueue[n + 1] = "EXIT_CONFIRM"
     ELSE Len(outQueue) = n
  /\ \A i \in 1 .. n : outQueue[i] = "PONG"

(* Every ping passed on before the quit is answered and printed, on its way  *)
(* back, or still in front of the exit.                                      *)
PingsOK ==
  /\ EngineOver => quitTaken
  /\ MainLeft => engineAt = "ended" /\ outQueue = <<>>
  /\ \E m, n \in Nat : PingsAhead(m) /\ PongsAhead(n) /\ pongs + n + m = pingsFirst

AccountOK == fault => EngineDown

LoopInv == TypeOK /\ SetUpOK /\ SystemsOK /\ LinesOK /\ PingsOK /\ AccountOK

-----------------------------------------------------------------------------
(* The handler map holds the three commands, and a line finds the command    *)
(* whose key is the key of its word.                                         *)
LEMMA FoundKey ==
  ASSUME NEW l, NEW c \in Found(l)
  PROVE  c \in Command /\ Asks(l, c)
<1> DEFINE k == Key(l.word)
<1>1. l.word # "" /\ k \in DOMAIN commandHandlers /\ c = commandHandlers[k] BY DEF Found
<1> HIDE DEF k
<1>2. /\ k \in {Key("account"), Key("ping"), Key("quit")}
      /\ c = IF k = Key("account") THEN "account" ELSE IF k = Key("ping") THEN "ping" ELSE "quit"
  BY <1>1 DEF commandHandlers, Command
<1>3. k = Key(c) /\ c \in Command BY <1>2 DEF Command
<1> QED BY <1>1, <1>3 DEF k, Asks

LEMMA LoopInit == Init => LoopInv
<1> SUFFICES ASSUME Init PROVE LoopInv OBVIOUS
<1>1. fault \in BOOLEAN /\ quitTaken \in BOOLEAN /\ isRunning \in BOOLEAN BY Zenon DEF Init
<1>2. TypeOK BY <1>1 DEF Init, TypeOK, MainPlace, EnginePlace
<1>3. SetUpOK BY DEF Init, SetUpOK, EngineDown
<1>4. SystemsOK BY DEF Init, SystemsOK
<1>5. LinesOK
  <2>1. wanted["ping"] = 0 BY DEF Init, Command
  <2> QED BY <2>1 DEF Init, LinesOK, Waits
<1>6. PingsOK
  <2>1. PingsAhead(0) /\ PongsAhead(0) BY DEF Init, PingsAhead, PongsAhead, EngineOver
  <2>2. pongs + 0 + 0 = pingsFirst BY DEF Init
  <2> QED BY <2>1, <2>2 DEF PingsOK, EngineOver, MainLeft, Init
<1>7. AccountOK BY DEF Init, AccountOK
<1> QED BY <1>2, <1>3, <1>4, <1>5, <1>6, <1>7 DEF LoopInv

-----------------------------------------------------------------------------
(* A line is counted for every command it asks for when it is typed. *)
LEMMA TypeLineStep == ASSUME LoopInv, ~fault, NEW l \in Line, TypeLine(l) PROVE LoopInv'
<1>1. /\ line' = l /\ typed' = typed + 1
      /\ wanted' = [c \in Command |-> IF Asks(l, c) THEN wanted[c] + 1 ELSE wanted[c]]
      /\ UNCHANGED <<mainAt, engineAt, isRunning, setUp, inQueue, outQueue, pongs, fault,
                     running, finished, quitTaken, pingsFirst>>
      /\ line = NoLine
  BY DEF TypeLine, threads, queues, effects, tick, passed
<1>2. /\ wanted' \in [Command -> Nat] /\ \A c \in Command : wanted[c] <= wanted'[c]
      /\ \A c \in Command : Asks(l, c) => wanted[c] < wanted'[c]
  BY <1>1 DEF LoopInv, TypeOK
<1>3. TypeOK'
  <2>1. fault' \in BOOLEAN /\ isRunning' \in BOOLEAN /\ quitTaken' \in BOOLEAN
    BY <1>1, Zenon DEF LoopInv, TypeOK
  <2>2. typed' \in Nat /\ line' \in Line \cup {NoLine} BY <1>1 DEF LoopInv, TypeOK
  <2> QED BY <1>1, <1>2, <2>1, <2>2 DEF LoopInv, TypeOK
<1>4. SetUpOK' /\ SystemsOK' /\ AccountOK'
  BY <1>1 DEF LoopInv, SetUpOK, SystemsOK, AccountOK, EngineDown
<1>5. LinesOK'
  <2>1. /\ wanted["ping"] \in Nat /\ wanted["quit"] \in Nat /\ wanted["account"] \in Nat
        /\ wanted'["ping"] \in Nat /\ wanted'["quit"] \in Nat /\ wanted'["account"] \in Nat
        /\ wanted["ping"] <= wanted'["ping"] /\ wanted["quit"] <= wanted'["quit"]
        /\ wanted["account"] <= wanted'["account"] /\ pingsFirst \in Nat
        /\ Asks(l, "ping") => wanted["ping"] < wanted'["ping"]
        /\ \A c \in Command : Asks(l, c) => wanted'[c] > 0
    BY <1>2 DEF LoopInv, TypeOK, Command
  <2>2. l # NoLine BY LineAssumption
  <2>3. \A c : Waits(c)' <=> Asks(l, c) BY <1>1, <2>2 DEF Waits, Asks
  <2> QED BY <1>1, <2>1, <2>3 DEF LoopInv, LinesOK
<1>6. PingsOK'
  BY <1>1 DEF LoopInv, PingsOK, PingsAhead, PongsAhead, EngineOver, MainLeft
<1> QED BY <1>3, <1>4, <1>5, <1>6 DEF LoopInv

-----------------------------------------------------------------------------
(* The main thread starts the engine thread, waits for the console or for    *)
(* the end of the reader: the queues and the commands are not touched.       *)
LEMMA MainStartStep == ASSUME LoopInv, ~fault, MainStart PROVE LoopInv'
<1>1. /\ mainAt = "start" /\ mainAt' = "poll" /\ engineAt = "absent" /\ engineAt' = "thread"
      /\ UNCHANGED <<isRunning, setUp, inQueue, outQueue, line, typed, wanted, pongs, fault,
                     running, finished, quitTaken, pingsFirst>>
  BY DEF MainStart, queues, console, effects, tick, passed, LoopInv, SetUpOK
<1>2. TypeOK'
  <2>1. fault' \in BOOLEAN /\ isRunning' \in BOOLEAN /\ quitTaken' \in BOOLEAN
    BY <1>1, Zenon DEF LoopInv, TypeOK
  <2> QED BY <1>1, <2>1 DEF LoopInv, TypeOK, MainPlace, EnginePlace
<1>3. SetUpOK' /\ SystemsOK' /\ AccountOK'
  BY <1>1 DEF LoopInv, SetUpOK, SystemsOK, AccountOK, EngineDown
<1>4. LinesOK' BY <1>1 DEF LoopInv, LinesOK, Waits
<1>5. PingsOK' BY <1>1 DEF LoopInv, PingsOK, PingsAhead, PongsAhead, EngineOver, MainLeft
<1> QED BY <1>2, <1>3, <1>4, <1>5 DEF LoopInv

LEMMA MainWaitStep == ASSUME LoopInv, ~fault, MainWait PROVE LoopInv'
<1>1. /\ mainAt = "wait" /\ mainAt' = IF line = NoLine THEN "poll" ELSE "command"
      /\ UNCHANGED <<engineAt, isRunning, setUp, inQueue, outQueue, line, typed, wanted,
                     pongs, fault, running, finished, quitTaken, pingsFirst>>
  BY DEF MainWait, queues, console, effects, tick, passed
<1>2. mainAt' \in {"poll", "command"} /\ (mainAt' = "command" => line # NoLine) BY <1>1
<1> HIDE DEF NoLine
<1>3. TypeOK'
  <2>1. fault' \in BOOLEAN /\ isRunning' \in BOOLEAN /\ quitTaken' \in BOOLEAN
    BY <1>1, Zenon DEF LoopInv, TypeOK
  <2> QED BY <1>1, <1>2, <2>1 DEF LoopInv, TypeOK, MainPlace
<1>4. SetUpOK' /\ SystemsOK' /\ AccountOK'
  BY <1>1, <1>2 DEF LoopInv, SetUpOK, SystemsOK, AccountOK, EngineDown
<1>5. LinesOK' BY <1>1, <1>2 DEF LoopInv, LinesOK, Waits
<1>6. PingsOK'
  BY <1>1, <1>2 DEF LoopInv, PingsOK, PingsAhead, PongsAhead, EngineOver, MainLeft
<1> QED BY <1>3, <1>4, <1>5, <1>6 DEF LoopInv

LEMMA MainJoinStep == ASSUME LoopInv, ~fault, MainJoin PROVE LoopInv'
<1>1. /\ mainAt = "join" /\ mainAt' = "done"
      /\ UNCHANGED <<engineAt, isRunning, setUp, inQueue, outQueue, line, typed, wanted,
                     pongs, fault, running, finished, quitTaken, pingsFirst>>
  BY DEF MainJoin, queues, console, effects, tick, passed
<1>2. TypeOK'
  <2>1. fault' \in BOOLEAN /\ isRunning' \in BOOLEAN /\ quitTaken' \in BOOLEAN
    BY <1>1, Zenon DEF LoopInv, TypeOK
  <2> QED BY <1>1, <2>1 DEF LoopInv, TypeOK, MainPlace
<1>3. SetUpOK' /\ SystemsOK' /\ AccountOK'
  BY <1>1 DEF LoopInv, SetUpOK, SystemsOK, AccountOK, EngineDown
<1>4. LinesOK' BY <1>1 DEF LoopInv, LinesOK, Waits
<1>5. PingsOK' BY <1>1 DEF LoopInv, PingsOK, PingsAhead, PongsAhead, EngineOver, MainLeft
<1> QED BY <1>2, <1>3, <1>4, <1>5 DEF LoopInv

(* Taking a message: an answer is printed; the confirmation, which is the    *)
(* last message there will be, ends the loop.                                *)
LEMMA MainPollStep == ASSUME LoopInv, ~fault, MainPoll PROVE LoopInv'
<1>1. /\ mainAt = "poll"
      /\ UNCHANGED <<engineAt, isRunning, setUp, inQueue, line, typed, wanted, fault,
                     running, finished, quitTaken, pingsFirst>>
      /\ \/ outQueue = <<>> /\ mainAt' = "wait" /\ UNCHANGED <<outQueue, pongs>>
         \/ outQueue # <<>> /\ outQueue' = Tail(outQueue) /\ Receive(Head(outQueue))
  BY DEF MainPoll, console, tick, passed
<1>2. PICK m \in Nat, n \in Nat : PingsAhead(m) /\ PongsAhead(n) /\ pongs + n + m = pingsFirst
  BY DEF LoopInv, PingsOK
<1>3. /\ outQueue \in Seq({"PONG", "EXIT_CONFIRM"}) /\ pongs \in Nat /\ pingsFirst \in Nat
      /\ ~MainLeft
  BY <1>1 DEF LoopInv, TypeOK, MainLeft
<1>4. /\ mainAt' \in {"poll", "wait", "stop"} /\ pongs' \in Nat
      /\ outQueue' \in Seq({"PONG", "EXIT_CONFIRM"})
      /\ pongs' # 0 \/ outQueue' # <<>> => pongs # 0 \/ outQueue # <<>>
  <2>1. CASE outQueue = <<>> BY <1>1, <1>3, <2>1
  <2>2. CASE outQueue # <<>>
    <3>1. Tail(outQueue) \in Seq({"PONG", "EXIT_CONFIRM"}) BY <1>3, <2>2, HeadTailProperties
    <3> QED BY <1>1, <1>3, <2>2, <3>1 DEF Receive
  <2> QED BY <2>1, <2>2
<1>5. TypeOK'
  <2>1. fault' \in BOOLEAN /\ isRunning' \in BOOLEAN /\ quitTaken' \in BOOLEAN
    BY <1>1, Zenon DEF LoopInv, TypeOK
  <2> QED BY <1>1, <1>4, <2>1 DEF LoopInv, TypeOK, MainPlace
<1>6. SetUpOK' /\ SystemsOK' /\ AccountOK'
  BY <1>1, <1>4 DEF LoopInv, SetUpOK, SystemsOK, AccountOK, EngineDown
<1>7. LinesOK' BY <1>1, <1>4 DEF LoopInv, LinesOK, Waits
<1>8. PingsOK'
  <2>1. PingsAhead(m)' BY <1>1, <1>2 DEF PingsAhead, EngineOver
  <2>2. EngineOver' => quitTaken' BY <1>1 DEF LoopInv, PingsOK, EngineOver
  <2>3. CASE outQueue = <<>>
    <3>1. PongsAhead(n)' /\ ~MainLeft' BY <1>1, <1>2, <2>3 DEF PongsAhead, MainLeft
    <3>2. pongs' + n + m = pingsFirst' BY <1>1, <1>2, <2>3
    <3> QED BY <2>1, <2>2, <3>1, <3>2 DEF PingsOK
  <2>4. CASE outQueue # <<>> /\ n = 0
    <3>1. engineAt = "ended" /\ Len(outQueue) = 1 /\ outQueue[1] = "EXIT_CONFIRM"
      BY <1>2, <1>3, <2>4 DEF PongsAhead
    <3>2. /\ Head(outQueue) = "EXIT_CONFIRM" /\ Tail(outQueue) = <<>>
      <4>1. /\ Tail(outQueue) \in Seq({"PONG", "EXIT_CONFIRM"}) /\ Len(Tail(outQueue)) = 0
            /\ Head(outQueue) = outQueue[1]
        BY <1>3, <2>4, <3>1, HeadTailProperties
      <4> QED BY <3>1, <4>1, EmptySeq
    <3>3. mainAt' = "stop" /\ pongs' = pongs /\ outQueue' = <<>>
      BY <1>1, <2>4, <3>2 DEF Receive
    <3>4. PongsAhead(0)' BY <3>3 DEF PongsAhead, MainLeft
    <3>5. pongs' + 0 + m = pingsFirst' BY <1>1, <1>2, <2>4, <3>3
    <3>6. MainLeft' => engineAt' = "ended" /\ outQueue' = <<>> BY <1>1, <3>1, <3>3
    <3> QED BY <2>1, <2>2, <3>4, <3>5, <3>6 DEF PingsOK
  <2>5. CASE outQueue # <<>> /\ n > 0
    <3>1. n - 1 \in Nat /\ Head(outQueue) = "PONG"
      BY <1>2, <1>3, <2>5 DEF PongsAhead
    <3>2. mainAt' = "poll" /\ pongs' = pongs + 1 /\ outQueue' = Tail(outQueue)
      BY <1>1, <2>5, <3>1 DEF Receive
    <3>3. /\ Len(outQueue') = Len(outQueue) - 1
          /\ \A i \in 1 .. Len(outQueue) - 1 : outQueue'[i] = outQueue[i + 1]
      BY <1>3, <2>5, <3>2, HeadTailProperties
    <3>4. PongsAhead(n - 1)'
      <4>1. ~MainLeft' BY <3>2 DEF MainLeft
      <4>2. /\ \A i \in 1 .. n : outQueue[i] = "PONG" /\ i \in 1 .. Len(outQueue)
            /\ Len(outQueue) \in {n, n + 1}
        BY <1>2, <1>3 DEF PongsAhead
      <4>3. \A i \in 1 .. n - 1 : outQueue'[i] = "PONG"
        <5> TAKE i \in 1 .. n - 1
        <5>1. i \in 1 .. Len(outQueue) - 1 /\ i + 1 \in 1 .. n BY <4>2
        <5> QED BY <3>3, <4>2, <5>1
      <4>4. CASE engineAt = "ended"
        <5>1. Len(outQueue) = n + 1 /\ outQueue[n + 1] = "EXIT_CONFIRM"
          BY <1>2, <1>3, <4>4 DEF PongsAhead
        <5>2. Len(outQueue') = n /\ outQueue'[n] = "EXIT_CONFIRM" BY <2>5, <3>3, <5>1
        <5>3. (n - 1) + 1 = n OBVIOUS
        <5> QED BY <1>1, <4>1, <4>3, <4>4, <5>2, <5>3 DEF PongsAhead
      <4>5. CASE engineAt # "ended"
        <5>1. Len(outQueue') = n - 1 BY <1>2, <3>3, <4>5 DEF PongsAhead
        <5> QED BY <1>1, <4>3, <4>5, <5>1 DEF PongsAhead
      <4> QED BY <4>4, <4>5
    <3>5. pongs' + (n - 1) + m = pingsFirst' BY <1>1, <1>2, <1>3, <3>2
    <3> QED BY <2>1, <2>2, <3>1, <3>2, <3>4, <3>5 DEF PingsOK, MainLeft
  <2> QED BY <2>3, <2>4, <2>5
<1> QED BY <1>5, <1>6, <1>7, <1>8 DEF LoopInv

-----------------------------------------------------------------------------
(* Stop puts the exit behind what is queued, and only while the engine runs; *)
(* the pings in front of the first exit stay what they are.                  *)
LEMMA StopQueue ==
  ASSUME LoopInv, Stop, UNCHANGED engineAt
  PROVE  /\ inQueue' \in Seq({"EXIT", "PING"}) /\ quitTaken' \in BOOLEAN
         /\ quitTaken' => isRunning
         /\ \A m \in Nat : PingsAhead(m) => PingsAhead(m)'
<1>1. /\ inQueue \in Seq({"EXIT", "PING"}) /\ isRunning \in BOOLEAN /\ quitTaken \in BOOLEAN
      /\ quitTaken => isRunning
  BY DEF LoopInv, TypeOK, SetUpOK
<1>2. quitTaken' = (quitTaken \/ isRunning) BY Zenon DEF Stop
<1>3. CASE isRunning
  <2>1. quitTaken' BY <1>2, <1>3, Zenon
  <2>2. inQueue' = Append(inQueue, "EXIT") BY <1>3 DEF Stop
  <2>3. /\ inQueue' \in Seq({"EXIT", "PING"}) /\ Len(inQueue') = Len(inQueue) + 1
        /\ \A i \in 1 .. Len(inQueue) : inQueue'[i] = inQueue[i]
        /\ inQueue'[Len(inQueue) + 1] = "EXIT"
    BY <1>1, <2>2, AppendProperties
  <2>4. ASSUME NEW m \in Nat, PingsAhead(m) PROVE PingsAhead(m)'
    <3>1. CASE EngineOver BY <2>4, <3>1 DEF PingsAhead, EngineOver
    <3>2. CASE ~EngineOver
      <4>1. /\ m <= Len(inQueue) /\ \A i \in 1 .. m : inQueue[i] = "PING"
            /\ m = Len(inQueue) \/ inQueue[m + 1] = "EXIT"
        BY <1>1, <2>4, <3>2 DEF PingsAhead
      <4>2. m < Len(inQueue') /\ inQueue'[m + 1] = "EXIT" BY <1>1, <2>3, <4>1
      <4>3. \A i \in 1 .. m : inQueue'[i] = "PING" BY <1>1, <2>3, <4>1
      <4> QED BY <2>1, <3>2, <4>2, <4>3 DEF PingsAhead, EngineOver
    <3> QED BY <3>1, <3>2
  <2>5. quitTaken' \in BOOLEAN BY <2>1, Zenon
  <2> QED BY <1>3, <2>3, <2>4, <2>5
<1>4. CASE ~isRunning
  <2>1. quitTaken' = FALSE BY <1>1, <1>2, <1>4, Zenon
  <2>2. inQueue' = inQueue BY <1>4 DEF Stop
  <2> QED BY <1>1, <1>4, <2>1, <2>2 DEF PingsAhead, EngineOver
<1> QED BY <1>1, <1>3, <1>4

(* A line that has been handled is gone; what it did was counted when it was *)
(* typed.                                                                    *)
LEMMA MainCommandStep == ASSUME LoopInv, ~fault, MainCommand PROVE LoopInv'
<1>1. /\ mainAt = "command" /\ mainAt' = "poll" /\ line' = NoLine
      /\ UNCHANGED <<engineAt, isRunning, setUp, outQueue, typed, wanted, pongs,
                     running, finished>>
      /\ \/ "quit" \in Found(line) /\ QuitCommand
         \/ "ping" \in Found(line) /\ PingCommand
         \/ "account" \in Found(line) /\ AccountCommand
         \/ Found(line) = {} /\ UNCHANGED <<inQueue, fault, passed>>
  BY DEF MainCommand, tick
<1>2. line # NoLine BY <1>1 DEF LoopInv, LinesOK
<1>3. \A c \in Found(line) : Waits(c) /\ wanted[c] > 0
  BY <1>2, FoundKey DEF LoopInv, LinesOK, Waits
<1> HIDE DEF NoLine
<1>4. PICK m \in Nat, n \in Nat : PingsAhead(m) /\ PongsAhead(n) /\ pongs + n + m = pingsFirst
  BY DEF LoopInv, PingsOK
<1>5. PongsAhead(n)' /\ ~MainLeft' BY <1>1, <1>4 DEF PongsAhead, MainLeft
<1>6. /\ pingsFirst \in Nat /\ wanted["ping"] \in Nat /\ isRunning \in BOOLEAN
      /\ quitTaken \in BOOLEAN /\ fault \in BOOLEAN /\ inQueue \in Seq({"EXIT", "PING"})
      /\ quitTaken => isRunning /\ wanted["quit"] > 0
      /\ EngineOver => quitTaken
      /\ pingsFirst <= wanted["ping"]
  BY DEF LoopInv, TypeOK, SetUpOK, LinesOK, PingsOK, Command
<1>7. /\ inQueue' \in Seq({"EXIT", "PING"}) /\ fault' \in BOOLEAN /\ quitTaken' \in BOOLEAN
      /\ pingsFirst' \in Nat /\ pingsFirst' <= wanted["ping"]
      /\ fault' => EngineDown /\ wanted["account"] > 0
      /\ quitTaken' => isRunning /\ wanted["quit"] > 0
      /\ EngineOver => quitTaken'
      /\ \E k \in Nat : PingsAhead(k)' /\ pongs + n + k = pingsFirst'
  <2>1. CASE "quit" \in Found(line) /\ QuitCommand
    <3>1. wanted["quit"] > 0 BY <1>3, <2>1
    <3>2. Stop /\ fault' = fault /\ pingsFirst' = pingsFirst BY <2>1 DEF QuitCommand
    <3>3. PingsAhead(m)' /\ inQueue' \in Seq({"EXIT", "PING"}) /\ quitTaken' \in BOOLEAN
          /\ (quitTaken' => isRunning)
      BY <1>1, <1>4, <3>2, StopQueue
    <3>4. quitTaken => quitTaken' BY <3>2, Zenon DEF Stop
    <3>5. ~fault' /\ fault' \in BOOLEAN BY <1>6, <3>2, Zenon
    <3> QED BY <1>4, <1>6, <3>1, <3>2, <3>3, <3>4, <3>5
  <2>2. CASE "ping" \in Found(line) /\ PingCommand
    <3>1. pingsFirst < wanted["ping"] BY <1>3, <2>2 DEF LoopInv, LinesOK
    <3>2. /\ inQueue' = Append(inQueue, "PING") /\ fault' = fault /\ quitTaken' = quitTaken
          /\ pingsFirst' = IF quitTaken THEN pingsFirst ELSE pingsFirst + 1
      BY <2>2 DEF PingCommand
    <3>3. /\ inQueue' \in Seq({"EXIT", "PING"}) /\ Len(inQueue') = Len(inQueue) + 1
          /\ \A i \in 1 .. Len(inQueue) : inQueue'[i] = inQueue[i]
          /\ inQueue'[Len(inQueue) + 1] = "PING"
      BY <1>6, <3>2, AppendProperties
    <3>4. ~fault' /\ fault' \in BOOLEAN /\ quitTaken' \in BOOLEAN BY <1>6, <3>2, Zenon
    <3>5. CASE EngineOver
      <4>1. PingsAhead(m)' BY <1>1, <1>4, <3>5 DEF PingsAhead, EngineOver
      <4> QED BY <1>4, <1>6, <3>2, <3>3, <3>4, <3>5, <4>1
    <3>6. CASE ~EngineOver /\ quitTaken
      <4>1. PingsAhead(m)'
        BY <1>1, <1>4, <1>6, <3>2, <3>3, <3>6 DEF PingsAhead, EngineOver
      <4> QED BY <1>4, <1>6, <3>2, <3>3, <3>4, <3>6, <4>1
    <3>7. CASE ~EngineOver /\ ~quitTaken
      <4>1. PingsAhead(m + 1)'
        BY <1>1, <1>4, <1>6, <3>2, <3>3, <3>7 DEF PingsAhead, EngineOver
      <4>2. pongs + n + (m + 1) = pingsFirst' /\ m + 1 \in Nat
        BY <1>4, <3>2, <3>7 DEF LoopInv, TypeOK
      <4> QED BY <1>6, <3>1, <3>2, <3>3, <3>4, <3>7, <4>1, <4>2
    <3> QED BY <3>5, <3>6, <3>7
  <2>3. CASE "account" \in Found(line) /\ AccountCommand
    <3>1. /\ fault' = (line.params >= 2 /\ setUp # {"registry", "database"})
          /\ UNCHANGED <<inQueue, quitTaken, pingsFirst>>
      BY <2>3 DEF AccountCommand, passed
    <3>2. fault' \in BOOLEAN /\ (fault' => setUp # {"registry", "database"})
      BY <3>1, Zenon
    <3>3. fault' => EngineDown BY <3>2 DEF LoopInv, SetUpOK
    <3>4. PingsAhead(m)' BY <1>1, <1>4, <3>1 DEF PingsAhead, EngineOver
    <3>5. quitTaken' \in BOOLEAN BY <1>6, <3>1, Zenon
    <3> QED BY <1>3, <1>4, <1>6, <2>3, <3>1, <3>2, <3>3, <3>4, <3>5
  <2>4. CASE Found(line) = {} /\ UNCHANGED <<inQueue, fault, passed>>
    <3>1. PingsAhead(m)' BY <1>1, <1>4, <2>4 DEF PingsAhead, EngineOver, passed
    <3>2. ~fault' /\ fault' \in BOOLEAN /\ quitTaken' \in BOOLEAN
      BY <1>6, <2>4, Zenon DEF passed
    <3> QED BY <1>4, <1>6, <2>4, <3>1, <3>2 DEF passed
  <2> QED BY <1>1, <2>1, <2>2, <2>3, <2>4
<1>8. TypeOK'
  <2>1. isRunning' \in BOOLEAN BY <1>1, Zenon DEF LoopInv, TypeOK
  <2> QED BY <1>1, <1>7, <2>1 DEF LoopInv, TypeOK, MainPlace
<1>9. SetUpOK' BY <1>1, <1>7 DEF LoopInv, SetUpOK, EngineDown
<1>10. SystemsOK' BY <1>1 DEF LoopInv, SystemsOK
<1>11. LinesOK' BY <1>1, <1>7 DEF LoopInv, LinesOK, Waits
<1>12. PingsOK' BY <1>1, <1>5, <1>7 DEF PingsOK, EngineOver
<1>13. AccountOK' BY <1>1, <1>7 DEF AccountOK, EngineDown
<1> QED BY <1>8, <1>9, <1>10, <1>11, <1>12, <1>13 DEF LoopInv

(* The second Stop comes when a quit was taken long ago. *)
LEMMA MainStopStep == ASSUME LoopInv, ~fault, MainStop PROVE LoopInv'
<1>1. /\ mainAt = "stop" /\ mainAt' = "join" /\ Stop
      /\ UNCHANGED <<engineAt, isRunning, setUp, outQueue, line, typed, wanted, pongs, fault,
                     running, finished, pingsFirst>>
  BY DEF MainStop, console, effects, tick
<1>2. /\ engineAt = "ended" /\ quitTaken /\ isRunning
  BY <1>1 DEF LoopInv, PingsOK, MainLeft, EngineOver, SetUpOK
<1>3. /\ inQueue' \in Seq({"EXIT", "PING"}) /\ quitTaken' \in BOOLEAN
      /\ \A m \in Nat : PingsAhead(m) => PingsAhead(m)'
  BY <1>1, StopQueue
<1>4. quitTaken' BY <1>1, <1>2, Zenon DEF Stop
<1>5. TypeOK'
  <2>1. isRunning' \in BOOLEAN /\ fault' \in BOOLEAN BY <1>1, Zenon DEF LoopInv, TypeOK
  <2> QED BY <1>1, <1>3, <2>1 DEF LoopInv, TypeOK, MainPlace
<1>6. SetUpOK' /\ SystemsOK' /\ AccountOK'
  BY <1>1, <1>2 DEF LoopInv, SetUpOK, SystemsOK, AccountOK, EngineDown
<1>7. LinesOK' BY <1>1, <1>2 DEF LoopInv, LinesOK, Waits
<1>8. PingsOK'
  <2>1. PICK m \in Nat, n \in Nat :
          PingsAhead(m) /\ PongsAhead(n) /\ pongs + n + m = pingsFirst
    BY DEF LoopInv, PingsOK
  <2>2. PongsAhead(n)' BY <1>1, <2>1 DEF PongsAhead, MainLeft
  <2>3. outQueue' = <<>> BY <1>1 DEF LoopInv, PingsOK, MainLeft
  <2> QED BY <1>1, <1>2, <1>3, <1>4, <2>1, <2>2, <2>3 DEF PingsOK, EngineOver
<1> QED BY <1>5, <1>6, <1>7, <1>8 DEF LoopInv

-----------------------------------------------------------------------------
(* The engine thread sets the flag and the singletons, before anything is    *)
(* answered.                                                                 *)
LEMMA EngineSetUpStep ==
  ASSUME LoopInv, ~fault, EngineStarts \/ EngineSetsUp
  PROVE  LoopInv'
<1>1. /\ UNCHANGED <<mainAt, inQueue, outQueue, line, typed, wanted, pongs, fault,
                     running, finished, quitTaken, pingsFirst>>
      /\ EngineDown /\ engineAt # "absent" /\ engineAt' \in EnginePlace
      /\ engineAt' \notin {"absent", "thread", "systems", "confirm", "ended"}
      /\ isRunning' /\ isRunning' \in BOOLEAN
      /\ setUp' \subseteq {"registry", "database"}
      /\ engineAt' = "singletons" => setUp' = {"registry"}
      /\ ~EngineDown' => setUp' = {"registry", "database"}
  <2>1. CASE EngineStarts
    BY <2>1 DEF EngineStarts, LoopInv, TypeOK, queues, console, effects, tick, passed,
                EngineDown, EnginePlace
  <2>2. CASE EngineSetsUp
    <3>1. isRunning' /\ isRunning' \in BOOLEAN
      BY <2>2, Zenon DEF EngineSetsUp, LoopInv, SetUpOK
    <3> QED
      BY <2>2, <3>1 DEF EngineSetsUp, LoopInv, TypeOK, SetUpOK, queues, console, effects,
                        tick, passed, EngineDown, EnginePlace
  <2> QED BY <2>1, <2>2
<1>2. TypeOK'
  <2>1. fault' \in BOOLEAN /\ quitTaken' \in BOOLEAN BY <1>1, Zenon DEF LoopInv, TypeOK
  <2> QED BY <1>1, <2>1 DEF LoopInv, TypeOK
<1>3. SetUpOK' BY <1>1 DEF LoopInv, SetUpOK, EngineDown
<1>4. SystemsOK' BY <1>1 DEF LoopInv, SystemsOK, EngineDown
<1>5. LinesOK' BY <1>1 DEF LoopInv, LinesOK, Waits
<1>6. PingsOK'
  BY <1>1 DEF LoopInv, PingsOK, PingsAhead, PongsAhead, EngineOver, EngineDown, MainLeft
<1>7. AccountOK' BY <1>1 DEF AccountOK
<1> QED BY <1>2, <1>3, <1>4, <1>5, <1>6, <1>7 DEF LoopInv

(* The engine takes a message: a ping in front of the exit is answered, and  *)
(* when the exit is taken no ping of before the quit is left.                *)
LEMMA EngineMessageStep == ASSUME LoopInv, ~fault, EngineMessage PROVE LoopInv'
<1>1. /\ engineAt = "messages"
      /\ UNCHANGED <<mainAt, isRunning, setUp, line, typed, wanted, pongs, fault, running,
                     quitTaken, pingsFirst>>
      /\ \/ inQueue = <<>> /\ engineAt' = "systems" /\ finished' = {}
            /\ UNCHANGED <<inQueue, outQueue>>
         \/ /\ inQueue # <<>> /\ inQueue' = Tail(inQueue) /\ UNCHANGED finished
            /\ IF Head(inQueue) = "EXIT"
               THEN engineAt' = "confirm" /\ UNCHANGED outQueue
               ELSE outQueue' = Append(outQueue, "PONG") /\ UNCHANGED engineAt
  BY DEF EngineMessage, queues, console, effects, passed
<1>2. PICK m \in Nat, n \in Nat : PingsAhead(m) /\ PongsAhead(n) /\ pongs + n + m = pingsFirst
  BY DEF LoopInv, PingsOK
<1>3. /\ inQueue \in Seq({"EXIT", "PING"}) /\ outQueue \in Seq({"PONG", "EXIT_CONFIRM"})
      /\ running = {} /\ ~MainLeft /\ ~EngineOver /\ ~EngineDown /\ pongs \in Nat
  BY <1>1 DEF LoopInv, TypeOK, SystemsOK, PingsOK, MainLeft, EngineOver, EngineDown
<1>4. /\ m <= Len(inQueue) /\ \A i \in 1 .. m : inQueue[i] = "PING"
      /\ IF quitTaken THEN m < Len(inQueue) /\ inQueue[m + 1] = "EXIT" ELSE m = Len(inQueue)
      /\ Len(outQueue) = n /\ \A i \in 1 .. n : outQueue[i] = "PONG"
  BY <1>1, <1>2, <1>3 DEF PingsAhead, PongsAhead
<1>5. /\ engineAt' \in {"messages", "systems", "confirm"} /\ finished' \subseteq System
      /\ inQueue' \in Seq({"EXIT", "PING"}) /\ outQueue' \in Seq({"PONG", "EXIT_CONFIRM"})
      /\ finished' = finished \/ finished' = {}
      /\ EngineOver' => quitTaken'
      /\ \E k, j \in Nat : PingsAhead(k)' /\ PongsAhead(j)' /\ pongs + j + k = pingsFirst
  <2>1. CASE inQueue = <<>>
    <3>1. /\ engineAt' = "systems" /\ finished' = {} /\ inQueue' = inQueue
          /\ outQueue' = outQueue
      BY <1>1, <2>1
    <3>2. PingsAhead(m)' /\ PongsAhead(n)'
      BY <1>1, <1>2, <1>3, <3>1 DEF PingsAhead, PongsAhead, EngineOver
    <3> QED BY <1>2, <1>3, <3>1, <3>2 DEF EngineOver
  <2>2. CASE inQueue # <<>>
    <3>1. /\ Head(inQueue) = inQueue[1] /\ Head(inQueue) \in {"EXIT", "PING"}
          /\ inQueue' \in Seq({"EXIT", "PING"}) /\ Len(inQueue') = Len(inQueue) - 1
          /\ \A i \in 1 .. Len(inQueue) - 1 : inQueue'[i] = inQueue[i + 1]
          /\ Len(inQueue) \in Nat /\ Len(inQueue) > 0 /\ finished' = finished
      <4>1. inQueue' = Tail(inQueue) /\ finished' = finished BY <1>1, <2>2
      <4>2. /\ Head(inQueue) \in {"EXIT", "PING"} /\ Tail(inQueue) \in Seq({"EXIT", "PING"})
            /\ Len(Tail(inQueue)) = Len(inQueue) - 1
            /\ \A i \in 1 .. Len(Tail(inQueue)) : Tail(inQueue)[i] = inQueue[i + 1]
        BY <1>3, <2>2, HeadTailProperties
      <4>3. Len(inQueue) \in Nat /\ Len(inQueue) > 0 BY <1>3, <2>2, EmptySeq
      <4>4. Head(inQueue) = inQueue[1] BY <1>3, <2>2
      <4> QED BY <4>1, <4>2, <4>3, <4>4
    <3>2. CASE Head(inQueue) = "EXIT"
      <4>1. engineAt' = "confirm" /\ outQueue' = outQueue BY <1>1, <2>2, <3>2
      <4>2. m = 0
        <5>1. CASE m \in 1 .. m BY <1>4, <3>1, <3>2, <5>1
        <5> QED BY <5>1
      <4>3. quitTaken BY <1>4, <3>1, <4>2
      <4>4. PingsAhead(0)' BY <4>1 DEF PingsAhead, EngineOver
      <4>5. PongsAhead(n)' BY <1>4, <4>1 DEF PongsAhead
      <4> QED BY <1>1, <1>2, <1>3, <3>1, <4>1, <4>2, <4>3, <4>4, <4>5 DEF LoopInv, TypeOK
    <3>3. CASE Head(inQueue) = "PING"
      <4>1. engineAt' = "messages" /\ outQueue' = Append(outQueue, "PONG")
        BY <1>1, <2>2, <3>3
      <4>2. m - 1 \in Nat
        <5>1. CASE m = 0 BY <1>4, <3>1, <3>3, <5>1
        <5> QED BY <5>1
      <4>3. /\ outQueue' \in Seq({"PONG", "EXIT_CONFIRM"}) /\ Len(outQueue') = n + 1
            /\ \A i \in 1 .. n : outQueue'[i] = outQueue[i]
            /\ outQueue'[n + 1] = "PONG"
        BY <1>3, <1>4, <4>1, AppendProperties
      <4>4. \A i \in 1 .. n + 1 : outQueue'[i] = "PONG"
        <5> TAKE i \in 1 .. n + 1
        <5>1. i \in 1 .. n \/ i = n + 1 OBVIOUS
        <5> QED BY <1>4, <4>3, <5>1
      <4>5. PongsAhead(n + 1)' BY <4>1, <4>3, <4>4 DEF PongsAhead
      <4>6. \A i \in 1 .. m - 1 : inQueue'[i] = "PING"
        <5> TAKE i \in 1 .. m - 1
        <5>1. i \in 1 .. Len(inQueue) - 1 /\ i + 1 \in 1 .. m BY <1>4, <3>1
        <5> QED BY <1>4, <3>1, <5>1
      <4>7. PingsAhead(m - 1)'
        <5>1. CASE quitTaken
          <6>1. m < Len(inQueue) /\ inQueue[m + 1] = "EXIT" BY <1>4, <5>1
          <6>2. m - 1 < Len(inQueue') /\ inQueue'[m] = "EXIT" /\ (m - 1) + 1 = m
            BY <3>1, <4>2, <6>1
          <6> QED BY <1>1, <4>1, <4>6, <5>1, <6>2 DEF PingsAhead, EngineOver
        <5>2. CASE ~quitTaken
          <6>1. m - 1 = Len(inQueue') BY <1>4, <3>1, <5>2
          <6> QED BY <1>1, <4>1, <4>6, <5>2, <6>1 DEF PingsAhead, EngineOver
        <5> QED BY <5>1, <5>2
      <4>8. pongs + (n + 1) + (m - 1) = pingsFirst BY <1>2, <1>3
      <4> QED BY <3>1, <4>1, <4>2, <4>3, <4>5, <4>7, <4>8, SMTT(30) DEF LoopInv, TypeOK, EngineOver
    <3> QED BY <3>1, <3>2, <3>3
  <2> QED BY <2>1, <2>2
<1>6. TypeOK'
  <2>1. fault' \in BOOLEAN /\ quitTaken' \in BOOLEAN /\ isRunning' \in BOOLEAN
    BY <1>1, Zenon DEF LoopInv, TypeOK
  <2> QED BY <1>1, <1>5, <2>1 DEF LoopInv, TypeOK, EnginePlace
<1>7. SetUpOK' BY <1>1, <1>3, <1>5 DEF LoopInv, SetUpOK, EngineDown
<1>8. SystemsOK' BY <1>1, <1>3, <1>5 DEF LoopInv, SystemsOK
<1>9. LinesOK' BY <1>1 DEF LoopInv, LinesOK, Waits
<1>10. PingsOK' BY <1>1, <1>3, <1>5 DEF PingsOK, MainLeft
<1>11. AccountOK' BY <1>1 DEF AccountOK
<1> QED BY <1>6, <1>7, <1>8, <1>9, <1>10, <1>11 DEF LoopInv

(* The confirmation is sent behind all answers, and only once. *)
LEMMA EngineConfirmsStep == ASSUME LoopInv, ~fault, EngineConfirms PROVE LoopInv'
<1>1. /\ engineAt = "confirm" /\ engineAt' = "ended"
      /\ outQueue' = Append(outQueue, "EXIT_CONFIRM")
      /\ UNCHANGED <<mainAt, isRunning, setUp, inQueue, line, typed, wanted, pongs, fault,
                     running, finished, quitTaken, pingsFirst>>
  BY DEF EngineConfirms, console, effects, tick, passed
<1>2. PICK m \in Nat, n \in Nat : PingsAhead(m) /\ PongsAhead(n) /\ pongs + n + m = pingsFirst
  BY DEF LoopInv, PingsOK
<1>3. /\ outQueue \in Seq({"PONG", "EXIT_CONFIRM"}) /\ ~MainLeft /\ quitTaken
      /\ Len(outQueue) = n /\ \A i \in 1 .. n : outQueue[i] = "PONG"
  BY <1>1, <1>2 DEF LoopInv, TypeOK, PingsOK, MainLeft, EngineOver, PongsAhead
<1>4. /\ outQueue' \in Seq({"PONG", "EXIT_CONFIRM"}) /\ Len(outQueue') = n + 1
      /\ \A i \in 1 .. n : outQueue'[i] = outQueue[i]
      /\ outQueue'[n + 1] = "EXIT_CONFIRM"
  BY <1>1, <1>3, AppendProperties
<1>5. TypeOK'
  <2>1. fault' \in BOOLEAN /\ quitTaken' \in BOOLEAN /\ isRunning' \in BOOLEAN
    BY <1>1, Zenon DEF LoopInv, TypeOK
  <2> QED BY <1>1, <1>4, <2>1 DEF LoopInv, TypeOK, EnginePlace
<1>6. SetUpOK' /\ SystemsOK' /\ AccountOK'
  BY <1>1 DEF LoopInv, SetUpOK, SystemsOK, AccountOK, EngineDown
<1>7. LinesOK' BY <1>1 DEF LoopInv, LinesOK, Waits
<1>8. PingsOK'
  <2>1. PingsAhead(m)' BY <1>1, <1>2 DEF PingsAhead, EngineOver
  <2>2. PongsAhead(n)' BY <1>1, <1>3, <1>4 DEF PongsAhead, MainLeft
  <2> QED BY <1>1, <1>2, <1>3, <2>1, <2>2 DEF PingsOK, MainLeft, EngineOver
<1> QED BY <1>5, <1>6, <1>7, <1>8 DEF LoopInv

-----------------------------------------------------------------------------
(* A worker runs a system behind the ones it gathers, and the tick is over   *)
(* when all have run.                                                        *)
LEMMA TickStep ==
  ASSUME LoopInv, ~fault, WorkerStep \/ EngineWaits
  PROVE  LoopInv'
<1>1. /\ UNCHANGED <<mainAt, isRunning, setUp, inQueue, outQueue, line, typed, wanted,
                     pongs, fault, quitTaken, pingsFirst>>
      /\ engineAt = "systems" /\ engineAt' \in {"systems", "messages"}
      /\ running' \subseteq System /\ finished' \subseteq System
      /\ running' \cap finished' = {}
      /\ \A s \in running' \cup finished' : Gathers[s] \subseteq finished'
      /\ running' # {} => engineAt' = "systems"
  <2> USE DEF threads, queues, console, effects, passed, tick
  <2>1. /\ running \subseteq System /\ finished \subseteq System
        /\ running \cap finished = {} /\ (running # {} => engineAt = "systems")
        /\ \A s \in running \cup finished : Gathers[s] \subseteq finished
    BY DEF LoopInv, TypeOK, SystemsOK
  <2> HIDE DEF System, Gathers
  <2>2. CASE \E s \in System : StartSystem(s) BY <2>1, <2>2 DEF StartSystem
  <2>3. CASE \E s \in System : FinishSystem(s) BY <2>1, <2>3 DEF FinishSystem
  <2>4. CASE EngineWaits BY <2>1, <2>4 DEF EngineWaits
  <2> QED BY <2>2, <2>3, <2>4 DEF WorkerStep
<1>2. TypeOK'
  <2>1. fault' \in BOOLEAN /\ quitTaken' \in BOOLEAN /\ isRunning' \in BOOLEAN
    BY <1>1, Zenon DEF LoopInv, TypeOK
  <2> QED BY <1>1, <2>1 DEF LoopInv, TypeOK, EnginePlace
<1>3. SetUpOK' BY <1>1 DEF LoopInv, SetUpOK, EngineDown
<1>4. SystemsOK' BY <1>1 DEF SystemsOK
<1>5. LinesOK' BY <1>1 DEF LoopInv, LinesOK, Waits
<1>6. PingsOK' BY <1>1 DEF LoopInv, PingsOK, PingsAhead, PongsAhead, EngineOver, MainLeft
<1>7. AccountOK' BY <1>1 DEF AccountOK
<1> QED BY <1>2, <1>3, <1>4, <1>5, <1>6, <1>7 DEF LoopInv

-----------------------------------------------------------------------------
LEMMA LoopStep == ASSUME LoopInv, [Next]_loopVars PROVE LoopInv'
<1>1. CASE ~fault /\ (\E l \in Line : TypeLine(l)) BY <1>1, TypeLineStep
<1>2. CASE ~fault /\ MainStep
  BY <1>2, MainStartStep, MainPollStep, MainWaitStep, MainCommandStep, MainStopStep,
     MainJoinStep DEF MainStep
<1>3. CASE ~fault /\ EngineStep
  BY <1>3, EngineSetUpStep, EngineMessageStep, EngineConfirmsStep, TickStep DEF EngineStep
<1>4. CASE ~fault /\ WorkerStep BY <1>4, TickStep
<1>5. CASE UNCHANGED loopVars
  <2>1. UNCHANGED <<mainAt, engineAt, isRunning, setUp, inQueue, outQueue, line, typed,
                    wanted, pongs, fault, running, finished, quitTaken, pingsFirst>>
    BY <1>5 DEF loopVars, threads, queues, console, effects, tick, passed
  <2>2. TypeOK'
    <3>1. fault' \in BOOLEAN /\ quitTaken' \in BOOLEAN /\ isRunning' \in BOOLEAN
      BY <2>1, Zenon DEF LoopInv, TypeOK
    <3> QED BY <2>1, <3>1 DEF LoopInv, TypeOK
  <2>3. SetUpOK' /\ SystemsOK' /\ AccountOK'
    BY <2>1 DEF LoopInv, SetUpOK, SystemsOK, AccountOK, EngineDown
  <2>4. LinesOK' BY <2>1 DEF LoopInv, LinesOK, Waits
  <2>5. PingsOK' BY <2>1 DEF LoopInv, PingsOK, PingsAhead, PongsAhead, EngineOver, MainLeft
  <2> QED BY <2>2, <2>3, <2>4, <2>5 DEF LoopInv
<1> QED BY <1>1, <1>2, <1>3, <1>4, <1>5 DEF Next

LEMMA LoopInvariant == Spec => []LoopInv
BY LoopInit, LoopStep, PTL DEF Spec

-----------------------------------------------------------------------------
(* The type invariant of the process. *)
THEOREM LoopTypeCorrect == Spec => []TypeOK
<1>1. LoopInv => TypeOK BY DEF LoopInv
<1> QED BY <1>1, LoopInvariant, PTL

(* The main thread leaves its loop only behind a quit the engine has taken,  *)
(* with every ping of before that quit answered and printed exactly once,    *)
(* however the two threads and the user interleave.                          *)
THEOREM LeavingIsComplete == Spec => []LeavesWithAllAnswers
<1>1. ASSUME LoopInv, MainLeft PROVE quitTaken /\ engineAt = "ended" /\ pongs = pingsFirst
  <2>1. engineAt = "ended" /\ outQueue = <<>> /\ quitTaken
    BY <1>1 DEF LoopInv, PingsOK, EngineOver
  <2>2. PICK m \in Nat, n \in Nat :
          PingsAhead(m) /\ PongsAhead(n) /\ pongs + n + m = pingsFirst
    BY <1>1 DEF LoopInv, PingsOK
  <2>3. m = 0 /\ n = 0 BY <1>1, <2>1, <2>2 DEF PingsAhead, PongsAhead, EngineOver
  <2> QED BY <1>1, <2>1, <2>2, <2>3 DEF LoopInv, TypeOK
<1>2. LoopInv => LeavesWithAllAnswers BY <1>1 DEF LeavesWithAllAnswers, MainLeft
<1> QED BY <1>2, LoopInvariant, PTL

(* The systems of a tick never overlap, with each other or with the engine   *)
(* thread's own work on the registry, and the deferred one comes last.       *)
THEOREM SystemsNeverOverlap == Spec => []SystemsRunAlone
<1>1. ASSUME LoopInv PROVE SystemsRunAlone
  <2>1. /\ Gathers["ConnectionUpdate"] = {}
        /\ Gathers["InitializePlayer"] = {"ConnectionUpdate"}
        /\ Gathers["ConnectionDeferred"] = {"InitializePlayer"}
        /\ System = {"ConnectionUpdate", "InitializePlayer", "ConnectionDeferred"}
    BY DEF Gathers, System
  <2>2. /\ running \subseteq System /\ finished \subseteq System
        /\ running \cap finished = {} /\ (running # {} => engineAt = "systems")
        /\ \A s \in running \cup finished : Gathers[s] \subseteq finished
    BY <1>1 DEF LoopInv, TypeOK, SystemsOK
  <2> HIDE DEF System, Gathers
  <2>3. "InitializePlayer" \in running \cup finished => "ConnectionUpdate" \in finished
    BY <2>1, <2>2
  <2>4. "ConnectionDeferred" \in running \cup finished =>
          {"ConnectionUpdate", "InitializePlayer"} \subseteq finished
    BY <2>1, <2>2, <2>3
  <2>5. \A s, t \in running : s = t BY <2>1, <2>2, <2>3, <2>4
  <2> QED BY <2>2, <2>4, <2>5 DEF SystemsRunAlone
<1> QED BY <1>1, LoopInvariant, PTL

(* Answers, the end of the engine and accesses to the database are backed by *)
(* lines the user has typed, whatever hash the commands are looked up with.  *)
THEOREM NothingComesUnasked == Spec => []NothingUnasked
<1>1. ASSUME LoopInv PROVE NothingUnasked
  <2>1. PICK m \in Nat, n \in Nat : pongs + n + m = pingsFirst
    BY <1>1 DEF LoopInv, PingsOK
  <2>2. /\ pongs \in Nat /\ pingsFirst \in Nat /\ wanted["ping"] \in Nat
        /\ pingsFirst <= wanted["ping"]
    BY <1>1 DEF LoopInv, TypeOK, LinesOK, Command
  <2>3. pongs <= wanted["ping"] BY <2>1, <2>2
  <2>4. engineAt = "ended" => quitTaken BY <1>1 DEF LoopInv, PingsOK, EngineOver
  <2> QED BY <1>1, <2>3, <2>4 DEF LoopInv, LinesOK, NothingUnasked
<1> QED BY <1>1, LoopInvariant, PTL

(* The account command can meet an unfinished set-up only before the first   *)
(* answer is printed.                                                        *)
THEOREM AccountSafe == Spec => []AccountSafeAfterAnswer
<1>1. LoopInv => AccountSafeAfterAnswer
  BY DEF LoopInv, AccountOK, SetUpOK, AccountSafeAfterAnswer
<1> QED BY <1>1, LoopInvariant, PTL
=============================================================================
