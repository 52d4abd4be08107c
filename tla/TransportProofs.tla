--------------------------- MODULE TransportProofs ---------------------------
(***************************************************************************)
(* What an answer is worth, for any states, writes and faults.             *)
(*                                                                         *)
(* Answers carry nothing that tells which command they belong to.  That    *)
(* one is believed rightly rests on the cable: while a call waits, what is *)
(* on it is this call's command or its answer, and nothing else but what   *)
(* the device says by itself, unless an earlier command was there first    *)
(* (InFlight).                                                             *)
(***************************************************************************)
EXTENDS Transport, SequenceTheorems, TLAPS

\* What is set is a state.
Sound == {c \in Commands : c.op = "set" => c.state \in State}

\* What the device writes.
Lines == Commands \cup {Connected}

\* The types of all but the call and how the one before it ended.
RestTypeOK ==
  /\ light \in State \cup {Own} /\ lastState \in State
  /\ {warned, plugged, wifi, held} \subseteq BOOLEAN
  /\ cmds \in Seq(Sound) /\ replies \in Seq(Lines)
  /\ {configured, due, authed, usage, behind} \subseteq BOOLEAN
  /\ chan \in {None, Light, Dock} /\ mode \in {None, "serial", "http"}
  /\ seen \subseteq State \cup {Own}
  /\ spent \in [writes : 0..MaxWrites, faults : 0..MaxFaults]

Ended == [op : {"login", "set", "get"}, ok : BOOLEAN, state : State \cup {None, Own}]

CallTypeOK ==
  /\ call \in Calls /\ (call.op = "set" => call.state \in State)
  /\ last \in Ended

\* A call to read knows the device; a login has turns of its own.
CallKnown ==
  /\ call.at \notin {"start", "idle"} /\ call.op = "get" => {light, lastState} \subseteq seen
  /\ call.at = "hello" => call.op = "login"
  /\ call.at = "op" => call.op # "login"

\* r answers the call truly.
Answers(r) == IF call.op = "set" THEN call.state \in seen ELSE r.state \in seen

InFlight ==
  call.at = "op" /\ call.sent /\ ~behind =>
    /\ cmds = <<>> \/ cmds = <<Command>>
    /\ \A i \in 1..Len(replies) : replies[i] = Connected \/ Answers(replies[i])

IInv == RestTypeOK /\ CallTypeOK /\ CallKnown /\ InFlight

\* The step that AnswersAreTrue allows.
TrueStep ==
  call # call' /\ call'.at = "idle" /\ last'.ok
     /\ (call.at = "op" => ~behind /\ Head(replies) # Connected) =>
    \/ last'.op = "login"
    \/ last'.op = "set" /\ call.state \in seen'
    \/ last'.op = "get" /\ last'.state \in seen'

\* A call that has come as far as c fails, or goes on to a part not yet begun.
Moved(c) ==
  \/ call' = Resting /\ last' = [op |-> c.op, ok |-> FALSE, state |-> None]
  \/ /\ call' \in Calls /\ call'.op = c.op /\ call'.state = c.state /\ last' = last
     /\ call'.at \in {"ping", "hello", "op", "auth", "ask"} /\ ~call'.sent
     /\ call'.at = "hello" => call'.op = "login"
     /\ call'.at = "op" => call'.op # "login"

USE TransportAssumption

-----------------------------------------------------------------------------

LEMMA Types == RestTypeOK /\ CallTypeOK => TypeOK
<1>1. cmds \in Seq(Sound) => cmds \in Seq(Commands)
  <2>1. Sound \subseteq Commands
    BY DEF Sound
  <2> QED
    BY <2>1
<1> QED
  BY <1>1 DEF TypeOK, RestTypeOK, CallTypeOK, Ended, Lines

\* The call at rest, and a bound once more used.
LEMMA RestingTyped ==
  Resting \in Calls /\ Resting.at = "idle" /\ Resting.op = "login"
BY DEF Resting, Calls

LEMMA FaultTyped ==
  ASSUME RestTypeOK, Fault
  PROVE  spent' \in [writes : 0..MaxWrites, faults : 0..MaxFaults]
BY DEF RestTypeOK, Fault

\* The ways on from a part of a call.
LEMMA ToHttpMoves ==
  ASSUME RestTypeOK, NEW c \in Calls, ToHttp(c)
  PROVE  Moved(c) /\ mode' \in {None, "serial", "http"}
<1>1. CASE ~configured
  BY <1>1 DEF ToHttp, Return, Moved, Resting
<1>2. CASE configured
  <2>1. PICK at \in {"ask", "auth"} : Goto(c, at, None) /\ mode' = mode
    BY <1>2 DEF ToHttp
  <2>2. call' \in Calls /\ call'.op = c.op /\ call'.state = c.state /\ call'.at = at /\ ~call'.sent
    BY <2>1 DEF Goto, Calls
  <2> QED
    BY <2>1, <2>2 DEF Goto, Moved, RestTypeOK
<1> QED
  BY <1>1, <1>2

LEMMA RouteMoves ==
  ASSUME RestTypeOK, NEW c \in Calls, chan' \in {None, Light, Dock}, Route(c)
  PROVE  Moved(c) /\ mode' \in {None, "serial", "http"}
<1>1. CASE chan' = None
  BY <1>1, ToHttpMoves DEF Route
<1>2. CASE chan' # None
  <2>1. PICK at \in {"hello", "op"} :
          /\ Goto(c, at, chan') /\ mode' = mode
          /\ (at = "hello") = (c.op = "login")
    BY <1>2 DEF Route
  <2>2. call' \in Calls /\ call'.op = c.op /\ call'.state = c.state /\ call'.at = at /\ ~call'.sent
    BY <2>1 DEF Goto, Calls
  <2> QED
    BY <2>1, <2>2 DEF Goto, Moved, RestTypeOK
<1> QED
  BY <1>1, <1>2

LEMMA ScanMoves ==
  ASSUME RestTypeOK, NEW c \in Calls, Scan(c)
  PROVE  Moved(c) /\ mode' \in {None, "serial", "http"} /\ chan' \in {None, Light, Dock}
<1>1. CASE c.todo = {}
  BY <1>1, RouteMoves DEF Scan
<1>2. CASE c.todo # {}
  <2>1. PICK p \in c.todo :
          Goto([c EXCEPT !.todo = @ \ {p}], "ping", p) /\ UNCHANGED <<chan, mode>>
    BY <1>2 DEF Scan
  <2>2. /\ p \in {Light, Dock} /\ c.todo \ {p} \in SUBSET {Light, Dock}
    BY DEF Calls
  <2>3. /\ call' \in Calls /\ call'.op = c.op /\ call'.state = c.state
        /\ call'.at = "ping" /\ ~call'.sent
    BY <2>1, <2>2 DEF Goto, Calls
  <2> QED
    BY <2>1, <2>3 DEF Goto, Moved, RestTypeOK
<1> QED
  BY <1>1, <1>2

LEMMA CableFailsMoves ==
  ASSUME RestTypeOK, call \in Calls, OnCable, CableFails
  PROVE  /\ Moved(call) /\ mode' \in {None, "serial", "http"}
         /\ chan' \in {None, Light, Dock} /\ due' \in BOOLEAN
<1>1. CASE call.at = "ping"
  BY <1>1, ScanMoves DEF CableFails, RestTypeOK
<1>2. CASE call.at \in {"hello", "op"}
  BY <1>2, ToHttpMoves DEF CableFails, RestTypeOK
<1> QED
  BY <1>1, <1>2 DEF OnCable

\* A step that moves a call on leaves nothing of it in flight.
LEMMA MovedKeeps ==
  ASSUME RestTypeOK', CallTypeOK, NEW c \in Calls, Moved(c),
         c.op = "set" => c.state \in State,
         c.op = "get" => {light', lastState'} \subseteq seen'
  PROVE  IInv' /\ TrueStep
<1>1. CASE call' = Resting /\ last' = [op |-> c.op, ok |-> FALSE, state |-> None]
  <2>1. last' \in Ended /\ ~last'.ok
    BY <1>1 DEF Calls, Ended
  <2> QED
    BY <1>1, <2>1, RestingTyped DEF IInv, CallTypeOK, CallKnown, InFlight, TrueStep
<1>2. CASE /\ call' \in Calls /\ call'.op = c.op /\ call'.state = c.state /\ last' = last
           /\ call'.at \in {"ping", "hello", "op", "auth", "ask"} /\ ~call'.sent
           /\ call'.at = "hello" => call'.op = "login"
           /\ call'.at = "op" => call'.op # "login"
  BY <1>2 DEF IInv, CallTypeOK, CallKnown, InFlight, TrueStep
<1> QED
  BY <1>1, <1>2 DEF Moved

-----------------------------------------------------------------------------
(* Calls, and their turns on the cable.                                    *)

LEMMA BeginKeeps ==
  ASSUME IInv, NEW op \in {"login", "set", "get"}, NEW s \in State \cup {None},
         op = "set" => s \in State, Begin(op, s)
  PROVE  IInv' /\ TrueStep
<1> DEFINE scan == op = "login" \/ (chan = None /\ due)
           c == [Resting EXCEPT !.op = op, !.state = s,
                                !.todo = IF scan THEN Ports ELSE {}]
<1>1. c \in Calls /\ c.op = op /\ c.state = s
  <2>1. (IF scan THEN Ports ELSE {}) \in SUBSET {Light, Dock}
    BY DEF Ports
  <2> HIDE DEF scan
  <2>2. 0 \in 0..3
    OBVIOUS
  <2> QED
    BY <2>1, <2>2 DEF Resting, Calls
<1>2. /\ seen' = (IF op = "set" THEN {} ELSE {light, lastState}) /\ behind' = FALSE
      /\ due' = (due /\ ~scan)
      /\ IF scan THEN Scan(c) ELSE chan' = chan /\ Route(c)
      /\ UNCHANGED <<device, cable, configured, usage, authed, spent>>
  BY DEF Begin
<1> HIDE DEF scan, c
<1>3. /\ Moved(c) /\ mode' \in {None, "serial", "http"}
      /\ chan' \in {None, Light, Dock} /\ due' \in BOOLEAN
  <2>1. CASE scan
    BY <1>1, <1>2, <2>1, ScanMoves DEF IInv, RestTypeOK
  <2>2. CASE ~scan
    BY <1>1, <1>2, <2>2, RouteMoves DEF IInv, RestTypeOK
  <2> QED
    BY <2>1, <2>2
<1>4. RestTypeOK'
  <2>1. seen' \subseteq State \cup {Own}
    BY <1>2 DEF IInv, RestTypeOK
  <2> QED
    BY <1>2, <1>3, <2>1 DEF IInv, RestTypeOK, device, led, cable
<1>5. op = "get" => {light', lastState'} \subseteq seen'
  BY <1>2 DEF device, led
<1> QED
  BY <1>1, <1>3, <1>4, <1>5, MovedKeeps DEF IInv

LEMMA CallsKeep ==
  ASSUME IInv, Login \/ Get \/ \E s \in State : Set(s)
  PROVE  IInv' /\ TrueStep
BY BeginKeeps DEF Login, Get, Set

\* The call's command is alone on the cable, or it is known that it is not.
LEMMA WriteKeeps ==
  ASSUME IInv, Write
  PROVE  IInv' /\ TrueStep
<1>1. /\ OnCable /\ replies' = <<>> /\ cmds' = Append(cmds, Command)
      /\ behind' = (cmds # <<>>) /\ call' = [call EXCEPT !.sent = TRUE]
      /\ UNCHANGED <<device, configured, usage, helper, last, seen, spent>>
  BY DEF Write
<1>2. /\ call' \in Calls /\ call'.op = call.op /\ call'.at = call.at
      /\ call'.state = call.state
  BY <1>1 DEF IInv, CallTypeOK, Calls
<1>3. Command \in Sound /\ Command' = Command
  BY <1>2 DEF Command, Sound, Commands, IInv, CallTypeOK, CallKnown, Calls
<1>4. RestTypeOK'
  <2>1. cmds' \in Seq(Sound)
    BY <1>1, <1>3, AppendProperties DEF IInv, RestTypeOK
  <2>2. replies' \in Seq(Lines) /\ behind' \in BOOLEAN
    BY <1>1, EmptySeq
  <2> QED
    BY <1>1, <2>1, <2>2 DEF IInv, RestTypeOK, device, led, helper
<1>5. CallTypeOK' /\ CallKnown'
  BY <1>1, <1>2 DEF IInv, CallTypeOK, CallKnown, device, led
<1>6. InFlight'
  <2>1. cmds = <<>> => cmds' = <<Command>>
    BY <1>1, <1>3
  <2>2. (\A i \in 1..Len(replies) : replies[i] = Connected \/ Answers(replies[i]))'
    <3>1. 1..Len(replies') = {}
      BY <1>1
    <3> QED
      BY <3>1
  <2>3. ~behind' => cmds' = <<Command'>>
    BY <1>1, <1>3, <2>1
  <2> QED
    BY <2>2, <2>3 DEF InFlight
<1>7. TrueStep
  BY <1>1, <1>2 DEF TrueStep, OnCable
<1> QED
  BY <1>4, <1>5, <1>6, <1>7 DEF IInv

\* An attempt, or a turn, fails.
LEMMA FailuresKeep ==
  ASSUME IInv, Unavailable \/ TimedOut
  PROVE  IInv' /\ TrueStep
<1>1. /\ OnCable /\ UNCHANGED <<device, cable, configured, usage, authed, seen, behind>>
      /\ Fault \/ UNCHANGED spent
      /\ \/ CableFails
         \/ /\ call' = [call EXCEPT !.again = TRUE, !.sent = FALSE]
            /\ UNCHANGED <<chan, due, mode, last>>
  BY DEF Unavailable, TimedOut
<1>2. spent' \in [writes : 0..MaxWrites, faults : 0..MaxFaults]
  BY <1>1, FaultTyped DEF IInv, RestTypeOK
<1>3. /\ call.op = "set" => call.state \in State
      /\ call.op = "get" => {light', lastState'} \subseteq seen'
  BY <1>1 DEF IInv, CallTypeOK, CallKnown, OnCable, device, led
<1>4. CASE CableFails
  <2>1. /\ Moved(call) /\ mode' \in {None, "serial", "http"}
        /\ chan' \in {None, Light, Dock} /\ due' \in BOOLEAN
    BY <1>1, <1>4, CableFailsMoves DEF IInv, CallTypeOK
  <2>2. RestTypeOK'
    BY <1>1, <1>2, <2>1 DEF IInv, RestTypeOK, device, led, cable
  <2> QED
    BY <1>3, <2>1, <2>2, MovedKeeps DEF IInv, CallTypeOK
<1>5. CASE /\ call' = [call EXCEPT !.again = TRUE, !.sent = FALSE]
           /\ UNCHANGED <<chan, due, mode, last>>
  <2>1. /\ call' \in Calls /\ call'.op = call.op /\ call'.at = call.at
        /\ call'.state = call.state /\ ~call'.sent
    BY <1>5 DEF IInv, CallTypeOK, Calls
  <2>2. RestTypeOK'
    BY <1>1, <1>2, <1>5 DEF IInv, RestTypeOK, device, led, cable
  <2>3. CallTypeOK' /\ CallKnown' /\ InFlight'
    BY <1>1, <1>5, <2>1 DEF IInv, CallTypeOK, CallKnown, InFlight, device, led
  <2>4. TrueStep
    BY <1>1, <2>1 DEF TrueStep, OnCable
  <2> QED
    BY <2>2, <2>3, <2>4 DEF IInv
<1> QED
  BY <1>1, <1>4, <1>5

\* The next line is the answer.
LEMMA ReadKeeps ==
  ASSUME IInv, Read
  PROVE  IInv' /\ TrueStep
<1>1. /\ OnCable /\ call.sent /\ replies # <<>> /\ replies' = Tail(replies)
      /\ UNCHANGED <<device, cmds, configured, usage, authed, seen, behind, spent>>
      /\ \/ CableFails
         \/ /\ call.at = "ping" /\ chan' = call.port /\ due' = due
            /\ Route([call EXCEPT !.todo = {}])
         \/ /\ call.at # "ping" /\ mode' = "serial" /\ chan' = chan /\ due' = due
            /\ Return(call, TRUE,
                      IF call.op = "get" THEN Head(replies).state ELSE None)
  BY DEF Read
<1>2. replies' \in Seq(Lines) /\ Head(replies) \in Lines
  BY <1>1, HeadTailProperties DEF IInv, RestTypeOK
<1>3. /\ call.op = "set" => call.state \in State
      /\ call.op = "get" => {light', lastState'} \subseteq seen'
  BY <1>1 DEF IInv, CallTypeOK, CallKnown, OnCable, device, led
<1>4. CASE CableFails
  <2>1. /\ Moved(call) /\ mode' \in {None, "serial", "http"}
        /\ chan' \in {None, Light, Dock} /\ due' \in BOOLEAN
    BY <1>1, <1>4, CableFailsMoves DEF IInv, CallTypeOK
  <2>2. RestTypeOK'
    BY <1>1, <1>2, <2>1 DEF IInv, RestTypeOK, device, led
  <2> QED
    BY <1>3, <2>1, <2>2, MovedKeeps DEF IInv, CallTypeOK
<1>5. CASE /\ call.at = "ping" /\ chan' = call.port /\ due' = due
           /\ Route([call EXCEPT !.todo = {}])
  <2> DEFINE c == [call EXCEPT !.todo = {}]
  <2>1. c \in Calls /\ c.op = call.op /\ c.state = call.state
    BY DEF IInv, CallTypeOK, Calls
  <2>2. chan' \in {None, Light, Dock}
    BY <1>5 DEF IInv, CallTypeOK, Calls
  <2>3. Route(c)
    BY <1>5
  <2> HIDE DEF c
  <2>4. Moved(c) /\ mode' \in {None, "serial", "http"}
    BY <2>1, <2>2, <2>3, RouteMoves DEF IInv
  <2>5. RestTypeOK'
    BY <1>1, <1>2, <1>5, <2>2, <2>4 DEF IInv, RestTypeOK, device, led
  <2> QED
    BY <1>3, <2>1, <2>4, <2>5, MovedKeeps DEF IInv
<1>6. CASE /\ call.at # "ping" /\ mode' = "serial" /\ chan' = chan /\ due' = due
           /\ Return(call, TRUE, IF call.op = "get" THEN Head(replies).state ELSE None)
  <2>1. RestTypeOK'
    BY <1>1, <1>2, <1>6 DEF IInv, RestTypeOK, device, led
  <2>2. /\ call' = Resting /\ last'.op = call.op
        /\ last' \in Ended
        /\ call.op = "get" => last'.state = Head(replies).state
    BY <1>2, <1>6 DEF Return, IInv, CallTypeOK, Calls, Commands, Lines, Connected, Ended
  <2>3. CallTypeOK' /\ CallKnown' /\ InFlight'
    BY <2>2, RestingTyped DEF CallTypeOK, CallKnown, InFlight
  <2> SUFFICES TrueStep
    BY <2>1, <2>3 DEF IInv
  <2>4. CASE call.at = "hello"
    BY <2>2, <2>4 DEF IInv, CallKnown, TrueStep
  <2>5. CASE call.at = "op"
    <3> SUFFICES ASSUME ~behind, Head(replies) # Connected PROVE TrueStep
      BY <2>5 DEF TrueStep
    <3>1. Len(replies) \in Nat \ {0} /\ Head(replies) = replies[1]
      BY <1>1, HeadTailProperties DEF IInv, RestTypeOK
    <3>2. Answers(Head(replies)) /\ seen' = seen
      <4>1. 1 \in 1..Len(replies)
        BY <3>1
      <4> QED
        BY <1>1, <2>5, <3>1, <4>1 DEF IInv, InFlight
    <3>3. call.op \in {"set", "get"}
      BY <2>5 DEF IInv, CallTypeOK, CallKnown, Calls
    <3> QED
      BY <2>2, <3>2, <3>3 DEF Answers, TrueStep
  <2> QED
    BY <1>1, <1>6, <2>4, <2>5 DEF OnCable
<1> QED
  BY <1>1, <1>4, <1>5, <1>6

-----------------------------------------------------------------------------
(* HTTP.                                                                   *)

\* A request fails, or a login succeeds.
LEMMA RequestFailsKeeps ==
  ASSUME IInv, Unreached \/ AnswerLost \/ Refused \/ Auth
  PROVE  IInv' /\ TrueStep
<1>1. /\ UNCHANGED <<plugged, wifi, cable, configured, usage, chan, due, behind>>
      /\ Fault \/ UNCHANGED spent
      /\ call.at \in {"auth", "ask"}
      /\ held' \in BOOLEAN /\ authed' \in BOOLEAN /\ mode' \in {None, "serial", "http"}
      /\ \/ UNCHANGED <<led, seen>>
         \/ call.op = "set" /\ Shows(call.state)
      /\ \/ Return(call, FALSE, None)
         \/ call' = [call EXCEPT !.redo = 2] /\ last' = last
         \/ call.op = "login" /\ Return(call, TRUE, None)
         \/ Goto(call, "ask", None)
  BY DEF Unreached, AnswerLost, Refused, Auth, helper, IInv, RestTypeOK
<1>2. spent' \in [writes : 0..MaxWrites, faults : 0..MaxFaults]
  BY <1>1, FaultTyped DEF IInv, RestTypeOK
<1>3. RestTypeOK'
  <2>1. /\ light' \in State \cup {Own} /\ lastState' \in State /\ warned' \in BOOLEAN
        /\ seen' \subseteq State \cup {Own}
    BY <1>1 DEF IInv, RestTypeOK, CallTypeOK, Shows, led
  <2> QED
    BY <1>1, <1>2, <2>1 DEF IInv, RestTypeOK, cable
<1>4. /\ call.op = "set" => call.state \in State
      /\ call.op = "get" => {light', lastState'} \subseteq seen'
  BY <1>1 DEF IInv, CallTypeOK, CallKnown, led
<1>5. CASE Return(call, FALSE, None)
  <2>1. Moved(call)
    BY <1>5 DEF Return, Moved
  <2> QED
    BY <1>3, <1>4, <2>1, MovedKeeps DEF IInv, CallTypeOK
<1>6. CASE call' = [call EXCEPT !.redo = 2] /\ last' = last
  <2>1. /\ call' \in Calls /\ call'.op = call.op /\ call'.at = call.at
        /\ call'.state = call.state
    BY <1>6 DEF IInv, CallTypeOK, Calls
  <2> QED
    BY <1>1, <1>3, <1>4, <1>6, <2>1
       DEF IInv, CallTypeOK, CallKnown, InFlight, TrueStep
<1>7. CASE call.op = "login" /\ Return(call, TRUE, None)
  <2>1. call' = Resting /\ last'.op = "login" /\ last' \in Ended
    BY <1>7 DEF Return, Ended
  <2> QED
    BY <1>3, <2>1, RestingTyped DEF IInv, CallTypeOK, CallKnown, InFlight, TrueStep
<1>8. CASE Goto(call, "ask", None)
  <2>1. Moved(call)
    BY <1>8 DEF Goto, Moved, Calls, IInv, CallTypeOK
  <2> QED
    BY <1>3, <1>4, <2>1, MovedKeeps DEF IInv, CallTypeOK
<1> QED
  BY <1>1, <1>5, <1>6, <1>7, <1>8

LEMMA AskGetKeeps ==
  ASSUME IInv, AskGet
  PROVE  IInv' /\ TrueStep
<1>1. /\ call.at = "ask" /\ call.op = "get" /\ mode' = "http"
      /\ UNCHANGED <<device, cable, configured, usage, chan, due, authed, seen, behind,
                     spent>>
      /\ call' = Resting
      /\ last' = [op |-> "get", ok |-> held, state |-> IF held THEN light ELSE None]
  BY DEF AskGet, Return
<1>2. RestTypeOK'
  BY <1>1 DEF IInv, RestTypeOK, device, led, cable
<1>3. CallTypeOK' /\ CallKnown' /\ InFlight'
  <2>1. last' \in Ended
    BY <1>1 DEF IInv, RestTypeOK, Ended
  <2> QED
    BY <1>1, <2>1, RestingTyped DEF CallTypeOK, CallKnown, InFlight
<1>4. TrueStep
  BY <1>1 DEF IInv, CallKnown, TrueStep, device, led
<1> QED
  BY <1>2, <1>3, <1>4 DEF IInv

LEMMA AskSetKeeps ==
  ASSUME IInv, AskSet
  PROVE  IInv' /\ TrueStep
<1>1. /\ call.at = "ask" /\ call.op = "set" /\ call.state \in State
      /\ UNCHANGED <<plugged, wifi, held, cable, configured, usage, chan, due, authed,
                     behind, spent>>
  BY DEF AskSet, IInv, CallTypeOK
<1>2. CASE held
  <2>0. /\ light' = call.state /\ lastState' = call.state /\ warned' = warned
        /\ seen' = seen \cup {call.state}
        /\ mode' = "http" /\ Return(call, TRUE, None)
    BY <1>1, <1>2 DEF AskSet, Shows
  <2>1. /\ call' = Resting /\ last'.op = "set" /\ call.state \in seen'
        /\ last' \in Ended
    BY <1>1, <2>0 DEF Return, Ended
  <2>2. RestTypeOK'
    <3>1. seen' \subseteq State \cup {Own}
      BY <1>1, <2>0 DEF IInv, RestTypeOK
    <3> QED
      BY <1>1, <2>0, <3>1 DEF IInv, RestTypeOK, cable
  <2> QED
    BY <2>1, <2>2, RestingTyped DEF IInv, CallTypeOK, CallKnown, InFlight, TrueStep
<1>3. CASE ~held
  <2>0. /\ UNCHANGED <<led, seen, mode>>
        /\ \/ Return(call, FALSE, None)
           \/ /\ call.redo \in {0, 2} /\ last' = last
              /\ call' = [call EXCEPT !.at = "auth", !.redo = @ + 1]
    BY <1>3 DEF AskSet
  <2>1. RestTypeOK'
    BY <1>1, <2>0 DEF IInv, RestTypeOK, cable, led
  <2>2. CASE Return(call, FALSE, None)
    <3>1. Moved(call)
      BY <2>2 DEF Return, Moved
    <3> QED
      BY <1>1, <2>1, <3>1, MovedKeeps DEF IInv, CallTypeOK
  <2>3. CASE /\ call.redo \in {0, 2} /\ last' = last
             /\ call' = [call EXCEPT !.at = "auth", !.redo = @ + 1]
    <3>1. /\ call' \in Calls /\ call'.op = "set" /\ call'.at = "auth"
          /\ call'.state = call.state
      <4>1. call.redo + 1 \in 0..3
        BY <2>3
      <4> QED
        BY <1>1, <2>3, <4>1 DEF IInv, CallTypeOK, Calls
    <3> QED
      BY <1>1, <2>1, <2>3, <3>1
         DEF IInv, CallTypeOK, CallKnown, InFlight, TrueStep
  <2> QED
    BY <2>0, <2>2, <2>3
<1> QED
  BY <1>2, <1>3

-----------------------------------------------------------------------------
(* The device, and everybody else.                                         *)

\* A command is carried out, and answered.
LEMMA ServeKeeps ==
  ASSUME IInv, Serve
  PROVE  IInv' /\ TrueStep
<1> DEFINE c == Head(cmds)
           r == IF c.op = "get" THEN [c EXCEPT !.state = lastState] ELSE c
<1>1. /\ cmds # <<>> /\ cmds' = Tail(cmds) /\ replies' = Append(replies, r)
      /\ IF c.op = "set" THEN Shows(c.state) ELSE UNCHANGED <<led, seen>>
      /\ UNCHANGED <<plugged, wifi, held, configured, usage, helper, call, last, behind,
                     spent>>
  BY DEF Serve
<1>2. c \in Sound /\ cmds' \in Seq(Sound)
  BY <1>1, HeadTailProperties DEF IInv, RestTypeOK
<1>3. r \in Lines
  BY <1>2 DEF Sound, Commands, Lines, IInv, RestTypeOK
<1>4. replies' \in Seq(Lines)
  BY <1>1, <1>3, AppendProperties DEF IInv, RestTypeOK
<1>5. /\ light' \in State \cup {Own} /\ lastState' \in State /\ warned' \in BOOLEAN
      /\ seen' \subseteq State \cup {Own} /\ seen \subseteq seen'
      /\ call.at \notin {"start", "idle"} /\ c.op = "set" => c.state \in seen'
      /\ call.at \notin {"start", "idle"} /\ {light, lastState} \subseteq seen =>
           {light', lastState'} \subseteq seen'
  BY <1>1, <1>2 DEF Shows, Sound, IInv, RestTypeOK, led
<1>6. RestTypeOK' /\ CallTypeOK' /\ CallKnown'
  BY <1>1, <1>2, <1>4, <1>5 DEF IInv, RestTypeOK, CallTypeOK, CallKnown, helper
<1>7. InFlight'
  <2> SUFFICES ASSUME call.at = "op", call.sent, ~behind
               PROVE  /\ cmds' = <<>>
                      /\ (\A i \in 1..Len(replies) :
                            replies[i] = Connected \/ Answers(replies[i]))'
    BY <1>1 DEF InFlight
  <2>1. /\ cmds = <<Command>>
        /\ \A i \in 1..Len(replies) : replies[i] = Connected \/ Answers(replies[i])
    BY <1>1 DEF IInv, InFlight
  <2>2. c = Command /\ cmds' = <<>>
    BY <1>1, <2>1
  <2>3. c.op = call.op /\ c.state = call.state /\ call.op \in {"set", "get"}
    BY <2>2 DEF Command, IInv, CallKnown, CallTypeOK, Calls
  <2>4. ASSUME NEW x, Answers(x) PROVE Answers(x)'
    BY <1>1, <1>5, <2>4 DEF Answers
  <2>a. PICK a \in Lines : a = r
    BY <1>3
  <2>5. Answers(a)'
    <3>1. CASE call.op = "set"
      BY <1>1, <1>5, <2>2, <2>3, <3>1 DEF Answers
    <3>2. CASE call.op = "get"
      <4>1. a.state = lastState
        BY <1>2, <2>3, <2>a, <3>2 DEF Sound, Commands
      <4>2. lastState \in seen'
        BY <1>5, <3>2 DEF IInv, CallKnown
      <4> QED
        BY <1>1, <3>2, <4>1, <4>2 DEF Answers
    <3> QED
      BY <2>3, <3>1, <3>2
  <2>6. /\ Len(replies') = Len(replies) + 1 /\ Len(replies) \in Nat
        /\ \A i \in 1..Len(replies) : replies'[i] = replies[i]
        /\ replies'[Len(replies) + 1] = a
    BY <1>1, <2>a, AppendProperties, LenProperties DEF IInv, RestTypeOK
  <2> QED
    <3> SUFFICES ASSUME NEW i \in 1..(Len(replies) + 1)
                 PROVE  (replies[i] = Connected \/ Answers(replies[i]))'
      BY <2>2, <2>6
    <3>1. CASE i \in 1..Len(replies)
      BY <2>1, <2>4, <2>6, <3>1
    <3>2. CASE i = Len(replies) + 1
      BY <2>5, <2>6, <3>2
    <3> QED
      BY <2>6, <3>1, <3>2
<1>8. TrueStep
  BY <1>1 DEF TrueStep
<1> QED
  BY <1>6, <1>7, <1>8 DEF IInv

\* What happens around a call leaves it, and what is on the cable, as it was.
LEMMA WorldKeeps ==
  ASSUME IInv, UNCHANGED <<call, last, behind>>,
         \/ UNCHANGED cable
         \/ cmds' = cmds /\ replies' = Append(replies, Connected)
         \/ cmds' = <<>> /\ replies' = <<>>,
         light' \in State \cup {Own}, lastState' \in State, seen \subseteq seen',
         seen' \subseteq State \cup {Own},
         call.at \notin {"start", "idle"} /\ call.op = "get" =>
           {light', lastState'} \subseteq seen',
         {warned', plugged', wifi', held', configured', due', authed', usage'}
           \subseteq BOOLEAN,
         UNCHANGED <<chan, mode>>,
         spent' \in [writes : 0..MaxWrites, faults : 0..MaxFaults]
  PROVE  IInv' /\ TrueStep
<1>1. Connected \in Lines
  BY DEF Lines
<1>2. cmds' \in Seq(Sound) /\ replies' \in Seq(Lines)
  <2>1. cmds \in Seq(Sound) /\ replies \in Seq(Lines)
    BY DEF IInv, RestTypeOK
  <2>2. Append(replies, Connected) \in Seq(Lines)
    BY <1>1, <2>1, AppendProperties
  <2>3. <<>> \in Seq(Sound) /\ <<>> \in Seq(Lines)
    BY EmptySeq
  <2> QED
    BY <2>1, <2>2, <2>3 DEF cable
<1>3. RestTypeOK'
  <2>1. behind' \in BOOLEAN /\ chan' \in {None, Light, Dock} /\ mode' \in {None, "serial", "http"}
    BY DEF IInv, RestTypeOK
  <2> QED
    BY <1>2, <2>1 DEF RestTypeOK
<1>4. CallTypeOK' /\ CallKnown'
  BY DEF IInv, CallTypeOK, CallKnown
<1>5. ASSUME NEW x, Answers(x) PROVE Answers(x)'
  BY <1>5 DEF Answers
<1>6. InFlight'
  <2> SUFFICES ASSUME call.at = "op", call.sent, ~behind
               PROVE  /\ cmds' = <<>> \/ cmds' = <<Command>>
                      /\ (\A i \in 1..Len(replies) :
                            replies[i] = Connected \/ Answers(replies[i]))'
    BY DEF InFlight, Command
  <2>1. /\ cmds = <<>> \/ cmds = <<Command>>
        /\ \A i \in 1..Len(replies) : replies[i] = Connected \/ Answers(replies[i])
    BY DEF IInv, InFlight
  <2>2. CASE UNCHANGED cable
    BY <1>5, <2>1, <2>2 DEF cable
  <2>3. CASE cmds' = <<>> /\ replies' = <<>>
    BY <2>3
  <2>4. CASE cmds' = cmds /\ replies' = Append(replies, Connected)
    <3>1. /\ Len(replies') = Len(replies) + 1 /\ Len(replies) \in Nat
          /\ \A i \in 1..Len(replies) : replies'[i] = replies[i]
          /\ replies'[Len(replies) + 1] = Connected
      BY <1>1, <2>4, AppendProperties, LenProperties DEF IInv, RestTypeOK
    <3> SUFFICES ASSUME NEW i \in 1..(Len(replies) + 1)
                 PROVE  (replies[i] = Connected \/ Answers(replies[i]))'
      BY <2>1, <2>4, <3>1
    <3>2. CASE i \in 1..Len(replies)
      BY <1>5, <2>1, <3>1, <3>2
    <3>3. CASE i = Len(replies) + 1
      BY <3>1, <3>3
    <3> QED
      BY <3>1, <3>2, <3>3
  <2> QED
    BY <2>2, <2>3, <2>4
<1> QED
  BY <1>3, <1>4, <1>6 DEF IInv, TrueStep

\* What the light is asked for, or shows, a call to read knows.
LEMMA ShownKnown ==
  ASSUME RestTypeOK, CallKnown, UNCHANGED call,
         \/ UNCHANGED <<light, lastState, seen>>
         \/ \E s \in State : Shows(s)
         \/ Turns(Own) \/ Turns(lastState)
         \/ /\ lastState' \in State /\ light' \in {lastState', Own}
            /\ seen' = IF call.op = "get" THEN seen \cup {light', lastState'} ELSE seen
  PROVE  /\ light' \in State \cup {Own} /\ lastState' \in State
         /\ seen \subseteq seen' /\ seen' \subseteq State \cup {Own}
         /\ call.at \notin {"start", "idle"} /\ call.op = "get" =>
              {light', lastState'} \subseteq seen'
BY DEF RestTypeOK, CallKnown, Shows, Turns

\* The microphone, the device of its own accord, time, and nobody.
LEMMA OutsideKeeps ==
  ASSUME IInv, \/ Microphone \/ Elapse \/ Cable \/ Wifi \/ SessionLost \/ Restart
               \/ MqttConnects \/ Warn
               \/ \E s \in State : OthersWrite(s)
               \/ UNCHANGED vars
  PROVE  IInv' /\ TrueStep
<1> USE DEF device, led, cable, helper
<1>1. {warned, plugged, wifi, held, configured, due, authed, usage} \subseteq BOOLEAN
  BY DEF IInv, RestTypeOK
<1>2. spent' \in [writes : 0..MaxWrites, faults : 0..MaxFaults]
  <2>1. CASE Fault
    BY <2>1, FaultTyped DEF IInv
  <2>2. CASE spent' = spent
    BY <2>2 DEF IInv, RestTypeOK
  <2>3. CASE spent.writes < MaxWrites /\ spent' = [spent EXCEPT !.writes = @ + 1]
    BY <2>3 DEF IInv, RestTypeOK
  <2> QED
    BY <2>1, <2>2, <2>3
       DEF Microphone, Elapse, Cable, Wifi, SessionLost, Restart, MqttConnects, Warn,
           OthersWrite, vars
<1>3. UNCHANGED <<call, last, behind, chan, mode>>
  BY DEF Microphone, Elapse, Cable, Wifi, SessionLost, Restart, MqttConnects, Warn,
         OthersWrite, vars
<1>4. \/ UNCHANGED cable
      \/ cmds' = cmds /\ replies' = Append(replies, Connected)
      \/ cmds' = <<>> /\ replies' = <<>>
  BY DEF Microphone, Elapse, Cable, Wifi, SessionLost, Restart, MqttConnects, Warn,
         OthersWrite, vars
<1>5. \/ UNCHANGED <<light, lastState, seen>>
      \/ \E s \in State : Shows(s)
      \/ Turns(Own) \/ Turns(lastState)
      \/ /\ lastState' \in State /\ light' \in {lastState', Own}
         /\ seen' = IF call.op = "get" THEN seen \cup {light', lastState'} ELSE seen
  BY DEF Microphone, Elapse, Cable, Wifi, SessionLost, Restart, MqttConnects, Warn,
         OthersWrite, vars
<1>6. {warned', plugged', wifi', held', configured', due', authed', usage'} \subseteq BOOLEAN
  BY <1>1 DEF Microphone, Elapse, Cable, Wifi, SessionLost, Restart, MqttConnects, Warn,
              OthersWrite, Shows, vars
<1>7. /\ light' \in State \cup {Own} /\ lastState' \in State
      /\ seen \subseteq seen' /\ seen' \subseteq State \cup {Own}
      /\ call.at \notin {"start", "idle"} /\ call.op = "get" =>
           {light', lastState'} \subseteq seen'
  BY <1>3, <1>5, ShownKnown DEF IInv
<1> QED
  BY <1>2, <1>3, <1>4, <1>6, <1>7, WorldKeeps

-----------------------------------------------------------------------------

LEMMA InitHolds == Init => IInv
<1> SUFFICES ASSUME Init PROVE IInv
  OBVIOUS
<1>1. call \in Calls /\ call.at = "start" /\ call.op = "login"
  BY RestingTyped DEF Init, Resting, Calls
<1>2. cmds \in Seq(Sound) /\ replies \in Seq(Lines)
  <2>1. cmds = <<>> /\ replies = <<>>
    BY DEF Init
  <2> QED
    BY <2>1, EmptySeq
<1>3. spent \in [writes : 0..MaxWrites, faults : 0..MaxFaults]
  BY DEF Init
<1>4. RestTypeOK
  BY <1>2, <1>3 DEF Init, RestTypeOK
<1>5. CallTypeOK /\ CallKnown /\ InFlight
  BY <1>1 DEF Init, CallTypeOK, CallKnown, InFlight, Ended
<1> QED
  BY <1>4, <1>5 DEF IInv

LEMMA Steps == IInv /\ [Next]_vars => IInv' /\ TrueStep
<1> SUFFICES ASSUME IInv, [Next]_vars PROVE IInv' /\ TrueStep
  OBVIOUS
<1>1. CASE Login \/ Get \/ \E s \in State : Set(s)
  BY <1>1, CallsKeep
<1>2. CASE Turn
  BY <1>2, WriteKeeps, FailuresKeep, ReadKeeps DEF Turn
<1>3. CASE Request
  BY <1>3, RequestFailsKeeps, AskGetKeeps, AskSetKeeps DEF Request
<1>4. CASE Serve
  BY <1>4, ServeKeeps
<1>5. CASE \/ Microphone \/ Elapse \/ Cable \/ Wifi \/ SessionLost \/ Restart
           \/ MqttConnects \/ Warn
           \/ \E s \in State : OthersWrite(s)
           \/ UNCHANGED vars
  BY <1>5, OutsideKeeps
<1> QED
  BY <1>1, <1>2, <1>3, <1>4, <1>5 DEF Next, Helper

\* What is on the cable while a call waits is its command or a true answer.
THEOREM Invariance == Spec => []IInv
BY InitHolds, Steps, PTL DEF Spec

\* Every variable stays in its type.
THEOREM TypeCorrect == Spec => []TypeOK
<1>1. IInv => TypeOK
  BY Types DEF IInv
<1> QED
  BY <1>1, Invariance, PTL

\* set_state() and get_state() of BusyLightTransport tell the truth when they
\* return without an error, unless they followed an unanswered command.
THEOREM TrueAnswers == Spec => AnswersAreTrue
<1>1. IInv /\ [Next]_vars => [TrueStep]_vars
  BY Steps
<1> QED
  BY <1>1, Invariance, PTL DEF Spec, AnswersAreTrue, TrueStep
=============================================================================
