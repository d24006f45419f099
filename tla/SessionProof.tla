----------------------------- MODULE SessionProof -----------------------------
(***************************************************************************)
(* Client sessions, for any number of clients and any inputs:              *)
(*  - among arbitrary destinations, every variable has its type, an ERROR  *)
(*    has a Close behind it, and the channel goes with the session;        *)
(*  - behind WebSockets, the client gets what its session wrote, in order, *)
(*    without gaps, and all of it unless client or connection gave up;     *)
(*  - with their timers, a living session can always reset the server's;   *)
(*    and on a prompt machine the server keeps its interval, a silent      *)
(*    client is dropped, a punctual one kept, and no task left behind.     *)
(***************************************************************************)
EXTENDS WebSocketBridge, TimedSession, ComponentTheorems, TimerTheorems

-----------------------------------------------------------------------------
(* Types of sessions among arbitrary destinations.                         *)

\* Destinations send events.
LEMMA CallbackTypes ==
    ASSUME TypeOK, NEW c \in Clients, Callback(c)
    PROVE  \E e \in ClientEvent : SendEvent(c, e)
<1>1. PICK s \in SubIds, r \in 0 .. MaxEvents :
         \/ \E d \in Destinations : SendEvent(c, Subscribed(d, s, r))
         \/ r # Failed /\ SendEvent(c, Unsubscribed(s, r))
         \/ r # Failed /\ \E m \in Messages : SendEvent(c, ServerMessage(s, r, m))
  BY DEF Callback
<1>2. r \in Nat
  BY <1>1
<1>3. Unsubscribed(s, r) \in ClientEvent
  BY <1>2 DEF Unsubscribed, ClientEvent
<1>4. \A d \in Destinations : Subscribed(d, s, r) \in ClientEvent
  BY <1>2 DEF Subscribed, ClientEvent
<1>5. \A m \in Messages : ServerMessage(s, r, m) \in ClientEvent
  BY <1>2 DEF ServerMessage, ClientEvent
<1> QED
  BY <1>1, <1>3, <1>4, <1>5

\* A frame that goes to a destination is counted, and changes nothing else; a
\* callback adds an event.
LEMMA OpenStepTypes ==
    ASSUME TypeOK, NEW c \in Clients,
           \/ ToDestination(c)
           \/ \E e \in active[c] : UnsubscribePanic(c, e)
           \/ Callback(c)
    PROVE  TypeOK'
<1> USE DEF TypeOK
<1>1. CASE ToDestination(c)
  <2>1. \E kind : Reads(c, kind)
    BY <1>1 DEF ToDestination, SubscribeFrame, SendFrame, UnsubscribeFrame
  <2> QED
    BY <1>1, <2>1, ReadsTypes
       DEF ToDestination, SubscribeFrame, SendFrame, UnsubscribeFrame, ProxyTypeOK, SessionTypeOK
<1>2. ASSUME NEW e \in active[c], UnsubscribePanic(c, e)
      PROVE  TypeOK'
  BY <1>2, ReadsTypes, EndTypes DEF UnsubscribePanic, Phase, ProxyTypeOK, SessionTypeOK
<1>3. CASE Callback(c)
  BY <1>3, CallbackTypes, SendEventEffect DEF Callback, sessionVars, ProxyTypeOK, SessionTypeOK
<1> QED
  BY <1>1, <1>2, <1>3

\* At first every variable has its type.
LEMMA InitSessionTypes == Init => TypeOK
BY EmptyChannels DEF Init, ProxyInit, SessionInit, TypeOK, ProxyTypeOK, SessionTypeOK, Phase

\* The variables of sessions keep their types, whatever clients send and
\* whatever destinations answer (client.rs).
THEOREM SessionTypes == Spec => []TypeOK
<1>1. TypeOK /\ [Next]_vars => TypeOK'
  <2> SUFFICES ASSUME TypeOK, [Next]_vars PROVE TypeOK'
    OBVIOUS
  <2>1. CASE UNCHANGED vars
    BY <2>1 DEF vars, sessionVars, TypeOK, ProxyTypeOK, SessionTypeOK
  <2> QED
    BY <2>1, SessionStepTypes, OpenStepTypes DEF Next, TypeOK
<1> QED
  BY <1>1, InitSessionTypes, PTL DEF Spec

-----------------------------------------------------------------------------
(* Messages, and the frames in them.                                       *)

\* A frame becomes a text message, and back.
LEMMA TextTypes ==
    /\ \A f \in Frame : Text(f) \in TextMessage /\ Text(f).frame = f
    /\ \A m \in TextMessage : m.frame \in Frame
    /\ TextMessage \subseteq WsMessage
    /\ Pong \in WsMessage \ TextMessage /\ WsClose \in WsMessage \ TextMessage
    /\ \A m \in TextMessage : m # WsClose
    /\ Pong # WsClose
BY DEF Text, TextMessage, WsMessage, Pong, WsClose

\* The frames in messages are frames, as many as there are text messages.
LEMMA TextsTypes ==
    ASSUME NEW s \in Seq(WsMessage)
    PROVE  LET texts == Selected(s, TextMessage)
           IN  /\ texts \in Seq(TextMessage)
               /\ Texts(s) \in Seq(Frame)
               /\ Len(Texts(s)) = Len(texts)
               /\ \A k \in 1 .. Len(texts) : Texts(s)[k] = texts[k].frame
<1> DEFINE texts == Selected(s, TextMessage)
           n == Len(texts)
<1>1. texts \in Seq(TextMessage)
  <2>1. texts \in Seq(WsMessage \cap TextMessage)
    BY SelectedTypes
  <2>2. WsMessage \cap TextMessage = TextMessage
    BY TextTypes
  <2> QED
    BY <2>1, <2>2
<1>2. Texts(s) = [k \in DOMAIN texts |-> texts[k].frame]
  BY DEF Texts
<1> HIDE DEF texts
<1>3. n \in Nat /\ DOMAIN texts = 1 .. n /\ \A k \in 1 .. n : texts[k].frame \in Frame
  BY <1>1, TextTypes
<1>4. Texts(s) \in [1 .. n -> Frame]
  BY <1>2, <1>3
<1>5. Texts(s) \in Seq(Frame) /\ Len(Texts(s)) = n
  BY <1>3, <1>4
<1> QED
  BY <1>1, <1>2, <1>3, <1>5 DEF texts

\* No message has no frames.
LEMMA TextsEmpty == Texts(<<>>) = <<>>
<1>1. Selected(<<>>, TextMessage) = <<>> /\ <<>> \in Seq(WsMessage)
  BY SelectedEmpty
<1>2. Texts(<<>>) \in Seq(Frame) /\ Len(Texts(<<>>)) = 0
  BY <1>1, TextsTypes
<1> QED
  BY <1>2

\* A text message appends its frame, another message appends none.
LEMMA TextsAppend ==
    ASSUME NEW s \in Seq(WsMessage), NEW m \in WsMessage
    PROVE  Texts(Append(s, m)) = IF m \in TextMessage THEN Append(Texts(s), m.frame) ELSE Texts(s)
<1> DEFINE a == Selected(s, TextMessage)
           b == Selected(Append(s, m), TextMessage)
<1>1. b = IF m \in TextMessage THEN Append(a, m) ELSE a
  BY SelectedAppend
<1>2. Append(s, m) \in Seq(WsMessage)
  OBVIOUS
<1>3. /\ a \in Seq(TextMessage) /\ Texts(s) \in Seq(Frame) /\ Len(Texts(s)) = Len(a)
      /\ \A k \in 1 .. Len(a) : Texts(s)[k] = a[k].frame
  BY TextsTypes
<1>4. /\ b \in Seq(TextMessage) /\ Texts(Append(s, m)) \in Seq(Frame)
      /\ Len(Texts(Append(s, m))) = Len(b)
      /\ \A k \in 1 .. Len(b) : Texts(Append(s, m))[k] = b[k].frame
  BY <1>2, TextsTypes
<1> DEFINE before == Texts(s)
           after == Texts(Append(s, m))
<1> HIDE DEF a, b, before, after
<1>5. CASE m \in TextMessage
  <2>1. m.frame \in Frame
    BY <1>5, TextTypes
  <2>2. /\ Append(before, m.frame) \in Seq(Frame)
        /\ Len(Append(before, m.frame)) = Len(after)
        /\ \A k \in 1 .. Len(after) : Append(before, m.frame)[k] = after[k]
    BY <1>1, <1>3, <1>4, <1>5, <2>1 DEF before, after
  <2>3. after = Append(before, m.frame)
    BY <1>4, <2>2, SeqEqual DEF after
  <2> QED
    BY <1>5, <2>3 DEF before, after
<1>6. CASE m \notin TextMessage
  <2>1. after = before
    BY <1>1, <1>3, <1>4, <1>6, SeqEqual DEF before, after
  <2> QED
    BY <1>6, <2>1 DEF before, after
<1> QED
  BY <1>5, <1>6

\* One sequence of frames begins another.
Begins(s, t) == Len(s) <= Len(t) /\ \A k \in 1 .. Len(s) : s[k] = t[k]

\* The frames of the messages that were sent begin those of all messages.
LEMMA TextsBegin ==
    ASSUME NEW s \in Seq(WsMessage), NEW q \in Seq(WsMessage)
    PROVE  Begins(Texts(s), Texts(s \o q))
<1> DEFINE t == s \o q
           a == Selected(s, TextMessage)
           b == Selected(t, TextMessage)
<1>1. t \in Seq(WsMessage) /\ Len(s) <= Len(t) /\ \A k \in 1 .. Len(s) : s[k] = t[k]
  BY ConcatProperties
<1> HIDE DEF t
<1>2. Len(a) <= Len(b) /\ \A k \in 1 .. Len(a) : a[k] = b[k]
  BY <1>1, SelectedPrefix
<1>3. /\ a \in Seq(TextMessage) /\ Len(Texts(s)) = Len(a)
      /\ \A k \in 1 .. Len(a) : Texts(s)[k] = a[k].frame
  BY TextsTypes
<1>4. /\ b \in Seq(TextMessage) /\ Len(Texts(t)) = Len(b)
      /\ \A k \in 1 .. Len(b) : Texts(t)[k] = b[k].frame
  BY <1>1, TextsTypes
<1> HIDE DEF a, b
<1>5. Len(a) \in Nat /\ Len(b) \in Nat
  BY <1>3, <1>4
<1> QED
  BY <1>2, <1>3, <1>4, <1>5 DEF Begins, t

-----------------------------------------------------------------------------
(* What a session writes, and where that goes.                             *)

\* The steps of a session among arbitrary destinations.
OpenStep(c) == \/ SessionStep(c)
               \/ ToDestination(c)
               \/ \E e \in active[c] : UnsubscribePanic(c, e)
               \/ Callback(c)

\* A step of a session writes one frame at most, and none once it has ended;
\* then its phase stays what it is.
LEMMA OneFrame ==
    ASSUME TypeOK, NEW c \in Clients, OpenStep(c)
    PROVE  /\ \/ out' = out
              \/ phase[c] \in {"connecting", "alive"} /\ \E f \in Frame : Emit(c, f)
           /\ Ended(c) => phase'[c] = phase[c]
           /\ \A x \in Clients \ {c} : phase'[x] = phase[x]
<1> DEFINE Fine == /\ \/ out' = out
                      \/ phase[c] \in {"connecting", "alive"} /\ \E f \in Frame : Emit(c, f)
                   /\ Ended(c) => phase'[c] = phase[c]
                   /\ \A x \in Clients \ {c} : phase'[x] = phase[x]
<1> USE SimpleFrameTypes DEF Ended, TypeOK, SessionTypeOK
<1>1. CASE Connect(c) \/ Reject(c)
  BY <1>1 DEF Connect, Reject, End
<1>2. CASE BadFrame(c) \/ \E s \in SubIds : UnknownUnsubscribe(c, s)
  BY <1>2 DEF BadFrame, UnknownUnsubscribe, Reads, Fail
<1>3. CASE Disconnect(c) \/ UnhandledFrame(c) \/ EndOfStream(c)
  BY <1>3 DEF Disconnect, UnhandledFrame, EndOfStream, Reads, End
<1>4. CASE HandleEvent(c)
  <2>1. CASE OnServerMessage(c)
    <3>1. NextEvent(c).sub \in SubIds /\ NextEvent(c).message \in Messages
      BY <2>1, TakeEventEffect, EventFields DEF OnServerMessage, Event
    <3> QED
      BY <2>1, <3>1, FrameTypes DEF OnServerMessage, Event
  <2>2. CASE OnSubscribed(c) \/ OnUnsubscribed(c) \/ OnError(c) \/ OnClose(c)
    BY <2>2 DEF OnSubscribed, OnUnsubscribed, OnError, OnClose, Event, End
  <2> QED
    BY <1>4, <2>1, <2>2 DEF HandleEvent
<1>5. CASE Heartbeat(c) \/ MissHeartbeat(c) \/ SinkFails(c) \/ LingerEnds(c)
  BY <1>5 DEF Heartbeat, MissHeartbeat, SinkFails, LingerEnds, End
<1>6. CASE ToDestination(c)
  BY <1>6 DEF ToDestination, SubscribeFrame, SendFrame, UnsubscribeFrame
<1>7. ASSUME NEW e \in active[c], UnsubscribePanic(c, e)
      PROVE  Fine
  BY <1>7 DEF UnsubscribePanic, Reads, End
<1>8. CASE Callback(c)
  BY <1>8 DEF Callback, sessionVars
<1> QED
  BY <1>1, <1>2, <1>3, <1>4, <1>5, <1>6, <1>7, <1>8 DEF OpenStep, SessionStep

\* All of these but an error of the sink and the end of the linger time.
LivingStep(c) == \/ Connect(c) \/ Reject(c) \/ BadFrame(c)
                 \/ \E s \in SubIds : UnknownUnsubscribe(c, s)
                 \/ Disconnect(c) \/ UnhandledFrame(c) \/ EndOfStream(c)
                 \/ HandleEvent(c) \/ Heartbeat(c) \/ MissHeartbeat(c)
                 \/ ToDestination(c)
                 \/ \E e \in active[c] : UnsubscribePanic(c, e)
                 \/ Callback(c)

\* Such a step closes no session, though it may end its stream of events.
LEMMA NotClosing ==
    ASSUME TypeOK, NEW c \in Clients, LivingStep(c)
    PROVE  OpenStep(c) /\ (phase'[c] = "closed" => phase[c] = "closed")
<1>1. OpenStep(c)
  BY DEF LivingStep, OpenStep, SessionStep
<1> SUFFICES ASSUME phase'[c] = "closed" PROVE phase[c] = "closed"
  BY <1>1
<1>2. phase \in [Clients -> Phase]
  BY DEF TypeOK, SessionTypeOK
<1>3. CASE Connect(c) \/ Reject(c) \/ Disconnect(c) \/ UnhandledFrame(c) \/ EndOfStream(c)
  BY <1>2, <1>3 DEF Connect, Reject, Disconnect, UnhandledFrame, EndOfStream, End
<1>4. CASE BadFrame(c) \/ \E s \in SubIds : UnknownUnsubscribe(c, s)
  BY <1>4 DEF BadFrame, UnknownUnsubscribe
<1>5. CASE HandleEvent(c)
  BY <1>2, <1>5 DEF HandleEvent, OnSubscribed, OnUnsubscribed, OnServerMessage, OnError, OnClose, End
<1>6. CASE Heartbeat(c) \/ MissHeartbeat(c) \/ Callback(c)
  BY <1>6 DEF Heartbeat, MissHeartbeat, Callback, sessionVars
<1>7. CASE ToDestination(c)
  BY <1>7 DEF ToDestination, SubscribeFrame, SendFrame, UnsubscribeFrame
<1>8. CASE \E e \in active[c] : UnsubscribePanic(c, e)
  BY <1>2, <1>8 DEF UnsubscribePanic, End
<1> QED
  BY <1>3, <1>4, <1>5, <1>6, <1>7, <1>8 DEF LivingStep

\* The sink passes on the frame that it holds and keeps the one written,
\* whether or not it breaks.
LEMMA WrittenEffect ==
    ASSUME TypeOK, BridgeTypeOK, NEW c \in Clients, Written(c),
           out' = out \/ \E f \in Frame : Emit(c, f)
    PROVE  \/ UNCHANGED <<out, held, wire, broken>>
           \/ \E f \in Frame :
                /\ out' = [out EXCEPT ![c] = Append(out[c], f)]
                /\ wire' = Passed(c)
                /\ held' = [held EXCEPT ![c] = <<f>>]
                /\ UNCHANGED broken \/ broken' = [broken EXCEPT ![c] = TRUE]
<1>1. CASE out' = out
  BY <1>1 DEF Written
<1>2. ASSUME NEW f \in Frame, Emit(c, f)
      PROVE  /\ out' # out /\ out'[c][Len(out'[c])] = f
             /\ out' = [out EXCEPT ![c] = Append(out[c], f)]
  <2>1. out[c] \in Seq(Frame) /\ out' = [out EXCEPT ![c] = Append(out[c], f)]
        /\ out'[c] = Append(out[c], f)
    BY <1>2 DEF TypeOK, SessionTypeOK, Emit
  <2>2. Append(out[c], f)[Len(Append(out[c], f))] = f
    BY <2>1, LastOfAppend
  <2>3. Len(Append(out[c], f)) = Len(out[c]) + 1 /\ Len(out[c]) \in Nat
    BY <2>1
  <2>4. Append(out[c], f) # out[c]
    BY <2>3
  <2> QED
    BY <2>1, <2>2, <2>4
<1>3. ASSUME NEW f \in Frame, Emit(c, f)
      PROVE  /\ wire' = Passed(c)
             /\ held' = [held EXCEPT ![c] = <<f>>]
             /\ UNCHANGED broken \/ broken' = [broken EXCEPT ![c] = TRUE]
  BY <1>2, <1>3 DEF Written
<1> QED
  BY <1>1, <1>2, <1>3

-----------------------------------------------------------------------------
(* The line from a session to its client: what was written to the socket,  *)
(* what is in the channel, and what the sink holds.                        *)

Line(c) == Texts(sent[c] \o wire[c].queue)
Whole(c) == IF held[c] = <<>> THEN Line(c) ELSE Append(Line(c), Head(held[c]))

\* What of out[c] is in the line, and who may have cut it off.
LineOf(c) ==
    /\ processor[c] = "running" => wire[c].open
    /\ processor[c] = "done" => wire[c] = Dropped
    /\ WsClose \in Pending(wire[c]) => socket[c] \in {"closing", "closed"}
    /\ socket[c] = "closing" => ~broken[c]
    /\ phase[c] = "closed" => broken[c] \/ held[c] = <<>>
    /\ Begins(Line(c), out[c])
    /\ processor[c] = "running" => Whole(c) = out[c]
    /\ processor[c] = "done" /\ socket[c] \in {"open", "ended"} /\ ~failed[c] =>
         Ended(c) /\ Whole(c) = out[c]

BridgeInv == TypeOK /\ BridgeTypeOK /\ \A c \in Clients : LineOf(c)

\* What a client's line is made of.
LEMMA LineTypes ==
    ASSUME TypeOK, BridgeTypeOK, NEW c \in Clients
    PROVE  /\ wire[c] \in ChannelOf(WsMessage) /\ wire[c].queue \in Seq(WsMessage)
           /\ sent[c] \in Seq(WsMessage) /\ sent[c] \o wire[c].queue \in Seq(WsMessage)
           /\ Line(c) \in Seq(Frame) /\ out[c] \in Seq(Frame)
           /\ held[c] = <<>> \/ \E f \in Frame : held[c] = <<f>>
           /\ Whole(c) \in Seq(Frame)
           /\ processor[c] \in {"running", "done"}
           /\ socket[c] \in {"open", "closing", "closed", "ended"}
           /\ broken[c] \in BOOLEAN /\ failed[c] \in BOOLEAN
<1>1. wire[c] \in ChannelOf(WsMessage) /\ sent[c] \in Seq(WsMessage)
  BY DEF BridgeTypeOK
<1>2. wire[c].queue \in Seq(WsMessage)
  BY <1>1 DEF ChannelOf
<1>3. sent[c] \o wire[c].queue \in Seq(WsMessage)
  BY <1>1, <1>2, ConcatProperties
<1>4. Line(c) \in Seq(Frame)
  BY <1>3, TextsTypes DEF Line
<1>5. held[c] = <<>> \/ \E f \in Frame : held[c] = <<f>>
  BY DEF BridgeTypeOK, FrameOrNone
<1>6. Whole(c) \in Seq(Frame)
  <2>1. ASSUME NEW f \in Frame, held[c] = <<f>>
        PROVE  Head(held[c]) = f
    BY <2>1
  <2> QED
    BY <1>4, <1>5, <2>1 DEF Whole
<1> QED
  BY <1>1, <1>2, <1>3, <1>4, <1>5, <1>6 DEF TypeOK, SessionTypeOK, BridgeTypeOK

\* A message pushed is at the end of the line.
LEMMA PushedLine ==
    ASSUME TypeOK, BridgeTypeOK, NEW c \in Clients, NEW m \in WsMessage,
           wire[c].open, wire' = [wire EXCEPT ![c] = Push(wire[c], m)], sent' = sent
    PROVE  /\ wire'[c] \in ChannelOf(WsMessage) /\ wire'[c].open
           /\ Pending(wire'[c]) \subseteq Pending(wire[c]) \cup {m}
           /\ Line(c)' = IF m \in TextMessage THEN Append(Line(c), m.frame) ELSE Line(c)
           /\ \A x \in Clients \ {c} : wire'[x] = wire[x]
<1>1. /\ wire[c] \in ChannelOf(WsMessage) /\ wire[c].queue \in Seq(WsMessage)
      /\ sent[c] \in Seq(WsMessage) /\ sent[c] \o wire[c].queue \in Seq(WsMessage)
  BY LineTypes
<1>2. /\ wire'[c] = Push(wire[c], m)
      /\ \A x \in Clients \ {c} : wire'[x] = wire[x]
  BY DEF BridgeTypeOK
<1>3. wire'[c].queue = Append(wire[c].queue, m)
  BY <1>1, <1>2 DEF Push, ChannelOf
<1>4. ASSUME NEW q \in Seq(WsMessage), NEW r \in Seq(WsMessage), NEW t
      PROVE  t = Append(q, m) => Texts(r \o t) = IF m \in TextMessage
                                                 THEN Append(Texts(r \o q), m.frame)
                                                 ELSE Texts(r \o q)
  <2> DEFINE both == r \o q
  <2>1. both \in Seq(WsMessage)
    BY ConcatProperties
  <2>2. r \o Append(q, m) = Append(both, m)
    BY ONLY q \in Seq(WsMessage), r \in Seq(WsMessage), m \in WsMessage, PushBehind
  <2> HIDE DEF both
  <2>3. Texts(Append(both, m)) = IF m \in TextMessage THEN Append(Texts(both), m.frame) ELSE Texts(both)
    BY <2>1, TextsAppend
  <2> QED
    BY <2>2, <2>3 DEF both
<1>5. Line(c)' = Texts(sent[c] \o wire'[c].queue)
  BY DEF Line
<1>6. Line(c)' = IF m \in TextMessage THEN Append(Line(c), m.frame) ELSE Line(c)
  BY <1>1, <1>3, <1>4, <1>5 DEF Line
<1>7. /\ Push(wire[c], m) \in ChannelOf(WsMessage) /\ Push(wire[c], m).open
      /\ Pending(Push(wire[c], m)) \subseteq Pending(wire[c]) \cup {m}
  <2> DEFINE ch == wire[c]
  <2>1. ch \in ChannelOf(WsMessage) /\ ch.open
    BY <1>1
  <2> HIDE DEF ch
  <2>2. /\ Push(ch, m) \in ChannelOf(WsMessage) /\ Push(ch, m).open = ch.open
        /\ Pending(Push(ch, m)) \subseteq Pending(ch) \cup {m}
    BY <2>1, PushProperties
  <2> QED
    BY <2>1, <2>2 DEF ch
<1> QED
  BY <1>2, <1>6, <1>7

\* What the sink passes on is at the end of the line, unless the channel is
\* closed.
LEMMA PassedLine ==
    ASSUME TypeOK, BridgeTypeOK, NEW c \in Clients, wire' = Passed(c), sent' = sent
    PROVE  /\ wire' \in [Clients -> ChannelOf(WsMessage)] /\ wire'[c].open = wire[c].open
           /\ WsClose \in Pending(wire'[c]) => WsClose \in Pending(wire[c])
           /\ wire[c].open => Line(c)' = Whole(c)
           /\ ~wire[c].open => wire'[c] = wire[c] /\ Line(c)' = Line(c)
           /\ \A x \in Clients \ {c} : wire'[x] = wire[x]
<1>1. /\ wire[c] \in ChannelOf(WsMessage)
      /\ held[c] = <<>> \/ \E f \in Frame : held[c] = <<f>>
  BY LineTypes
<1>2. CASE wire' = wire /\ (held[c] = <<>> \/ ~wire[c].open)
  BY <1>2 DEF Line, Whole, BridgeTypeOK
<1>3. ASSUME NEW f \in Frame, held[c] = <<f>>, wire[c].open
      PROVE  /\ wire' \in [Clients -> ChannelOf(WsMessage)] /\ wire'[c].open
             /\ WsClose \in Pending(wire'[c]) => WsClose \in Pending(wire[c])
             /\ Line(c)' = Whole(c)
             /\ \A x \in Clients \ {c} : wire'[x] = wire[x]
  <2>1. held[c] # <<>> /\ Head(held[c]) = f
    BY <1>3
  <2>2. wire' = [wire EXCEPT ![c] = Push(wire[c], Text(f))]
    BY <2>1 DEF Passed
  <2>3. Text(f) \in TextMessage /\ Text(f) \in WsMessage /\ Text(f).frame = f /\ Text(f) # WsClose
    BY TextTypes
  <2>4. /\ wire'[c] \in ChannelOf(WsMessage) /\ wire'[c].open
        /\ Pending(wire'[c]) \subseteq Pending(wire[c]) \cup {Text(f)}
        /\ Line(c)' = Append(Line(c), f)
        /\ \A x \in Clients \ {c} : wire'[x] = wire[x]
    BY <1>3, <2>2, <2>3, PushedLine
  <2>5. Line(c)' = Whole(c)
    BY <2>1, <2>4 DEF Whole
  <2> QED
    BY <2>2, <2>3, <2>4, <2>5 DEF BridgeTypeOK
<1>4. held[c] = <<>> \/ ~wire[c].open => wire' = wire
  BY DEF Passed, Push, BridgeTypeOK
<1> QED
  BY <1>1, <1>2, <1>3, <1>4

\* A frame that is in out[c] and in the line leaves them in step; so does one
\* that only is in out[c], which then is ahead.
LEMMA BeginsGrow ==
    ASSUME NEW s \in Seq(Frame), NEW t \in Seq(Frame), NEW f \in Frame, Begins(s, t)
    PROVE  Begins(s, Append(t, f)) /\ (s = t => Begins(Append(s, f), Append(t, f)))
BY DEF Begins

\* A sequence begins itself.
LEMMA BeginsSame ==
    ASSUME NEW s \in Seq(Frame)
    PROVE  Begins(s, s)
BY DEF Begins

\* What a line is made of, for another session to leave it alone.
LEMMA LineAlone ==
    ASSUME NEW x \in Clients, LineOf(x), Ended(x) => Ended(x)',
           phase'[x] = "closed" => phase[x] = "closed" \/ broken[x] \/ held[x] = <<>>,
           UNCHANGED <<held[x], wire[x], sent[x], out[x], processor[x], socket[x],
                       broken[x], failed[x]>>
    PROVE  LineOf(x)'
BY DEF LineOf, Line, Whole

\* What a session writes is at the end of its line, in the hands of its sink;
\* and it goes on writing only while its processor may still deliver it, unless
\* the client or the connection gave up (sample_server.rs:100-121, 135-136).
LEMMA WriterKeepsLine ==
    ASSUME BridgeInv, NEW c \in Clients, LivingStep(c), Written(c), ~broken[c],
           NEW v \in {"open", "closed", "ended"}, socket' = [socket EXCEPT ![c] = v],
           socket[c] \in {"closing", "closed"} => v = "closed",
           pings' \in [Clients -> Nat], UNCHANGED <<processor, sent, failed>>
    PROVE  BridgeInv'
<1>0. TypeOK /\ OpenStep(c) /\ (phase'[c] = "closed" => phase[c] = "closed")
  BY NotClosing DEF BridgeInv
<1>1. TypeOK /\ BridgeTypeOK /\ TypeOK' /\ \A x \in Clients : LineOf(x)
  BY <1>0, OpenStepTypes, SessionStepTypes DEF BridgeInv, OpenStep, TypeOK
<1>2. /\ \/ out' = out
         \/ phase[c] \in {"connecting", "alive"} /\ \E f \in Frame : Emit(c, f)
      /\ Ended(c) => phase'[c] = phase[c]
      /\ \A x \in Clients \ {c} : phase'[x] = phase[x]
  BY <1>0, <1>1, OneFrame
<1>3. /\ Ended(c) => Ended(c)'
      /\ \A x \in Clients \ {c} : Ended(x) => Ended(x)'
      /\ out' # out => ~Ended(c)
  BY <1>2 DEF Ended
<1>4. \/ UNCHANGED <<out, held, wire, broken>>
      \/ \E f \in Frame :
           /\ out' = [out EXCEPT ![c] = Append(out[c], f)]
           /\ wire' = Passed(c)
           /\ held' = [held EXCEPT ![c] = <<f>>]
           /\ UNCHANGED broken \/ broken' = [broken EXCEPT ![c] = TRUE]
  BY <1>1, <1>2, WrittenEffect
<1>5. /\ socket'[c] = v /\ \A x \in Clients \ {c} : socket'[x] = socket[x]
      /\ socket' \in [Clients -> {"open", "closing", "closed", "ended"}]
  BY <1>1 DEF BridgeTypeOK
<1>6. CASE UNCHANGED <<out, held, wire, broken>>
  <2>1. LineOf(c)'
    BY <1>0, <1>1, <1>3, <1>5, <1>6, LineTypes DEF LineOf, Line, Whole
  <2>2. \A x \in Clients \ {c} : LineOf(x)'
    BY <1>1, <1>2, <1>3, <1>5, <1>6, LineAlone
  <2>3. BridgeTypeOK'
    BY <1>1, <1>5, <1>6 DEF BridgeTypeOK
  <2> QED
    BY <1>1, <2>1, <2>2, <2>3 DEF BridgeInv
<1>7. ASSUME NEW f \in Frame,
             out' = [out EXCEPT ![c] = Append(out[c], f)],
             wire' = Passed(c), held' = [held EXCEPT ![c] = <<f>>],
             UNCHANGED broken \/ broken' = [broken EXCEPT ![c] = TRUE]
      PROVE  BridgeInv'
  <2>1. /\ out'[c] = Append(out[c], f) /\ \A x \in Clients \ {c} : out'[x] = out[x]
        /\ out[c] \in Seq(Frame) /\ Append(out[c], f) \in Seq(Frame)
        /\ Append(out[c], f) # out[c] /\ ~Ended(c)
    <3>1. out \in [Clients -> Seq(Frame)]
      BY <1>1 DEF TypeOK, SessionTypeOK
    <3>2. out'[c] = Append(out[c], f) /\ \A x \in Clients \ {c} : out'[x] = out[x]
      BY <1>7, <3>1
    <3>3. Append(out[c], f) # out[c]
      <4>1. out[c] \in Seq(Frame)
        BY <3>1
      <4>2. Len(Append(out[c], f)) = Len(out[c]) + 1 /\ Len(out[c]) \in Nat
        BY <4>1
      <4> QED
        BY <4>2
    <3> QED
      BY <1>3, <3>1, <3>2, <3>3
  <2>2. /\ held'[c] = <<f>> /\ (\A x \in Clients \ {c} : held'[x] = held[x])
        /\ held' \in [Clients -> FrameOrNone]
    <3>1. <<f>> \in FrameOrNone
      BY DEF FrameOrNone
    <3> QED
      BY <1>1, <1>7, <3>1 DEF BridgeTypeOK
  <2>3. /\ \A x \in Clients \ {c} : broken'[x] = broken[x]
        /\ broken' \in [Clients -> BOOLEAN]
    BY <1>1, <1>7 DEF BridgeTypeOK
  <2>4. /\ wire' \in [Clients -> ChannelOf(WsMessage)] /\ wire'[c].open = wire[c].open
        /\ WsClose \in Pending(wire'[c]) => WsClose \in Pending(wire[c])
        /\ wire[c].open => Line(c)' = Whole(c)
        /\ ~wire[c].open => wire'[c] = wire[c] /\ Line(c)' = Line(c)
        /\ \A x \in Clients \ {c} : wire'[x] = wire[x]
    BY <1>1, <1>7, PassedLine
  <2>5. Whole(c)' = Append(Line(c)', f)
    <3>1. held'[c] # <<>> /\ Head(held'[c]) = f
      BY <2>2
    <3> QED
      BY <3>1 DEF Whole
  <2>6. LineOf(c)'
    <3>1. LineOf(c) /\ (wire[c] = Dropped => ~wire[c].open)
      BY <1>1, EmptyChannels
    <3>2. phase'[c] # "closed"
      BY <1>0, <2>1 DEF Ended
    <3>3. processor[c] \in {"running", "done"} /\ socket[c] \in {"open", "closing", "closed", "ended"}
      BY <1>1, LineTypes
    <3>4. socket'[c] # "closing"
      BY <1>5
    <3>5. WsClose \in Pending(wire'[c]) => socket'[c] \in {"closing", "closed"}
      BY <1>5, <2>4, <3>1 DEF LineOf
    <3>6. CASE processor[c] = "running"
      <4>1. Line(c)' = out[c] /\ wire'[c].open
        BY <2>4, <3>1, <3>6 DEF LineOf
      <4>2. Whole(c)' = out'[c]
        BY <2>1, <2>5, <4>1
      <4>3. Begins(Line(c)', out'[c])
        BY <2>1, <4>1, BeginsGrow, BeginsSame
      <4> QED
        BY <3>2, <3>4, <3>5, <3>6, <4>1, <4>2, <4>3 DEF LineOf
    <3>7. CASE processor[c] = "done"
      <4>1. wire'[c] = Dropped /\ Line(c)' = Line(c) /\ Line(c) \in Seq(Frame)
        BY <1>1, <2>4, <3>1, <3>7, LineTypes DEF LineOf
      <4>2. Begins(Line(c)', out'[c])
        BY <2>1, <3>1, <4>1, BeginsGrow DEF LineOf
      <4>3. ~(socket'[c] \in {"open", "ended"} /\ ~failed'[c])
        BY <1>5, <2>1, <3>1, <3>3, <3>7 DEF LineOf
      <4> QED
        BY <3>2, <3>4, <3>5, <3>7, <4>1, <4>2, <4>3 DEF LineOf
    <3> QED
      BY <3>3, <3>6, <3>7
  <2>7. \A x \in Clients \ {c} : LineOf(x)'
    BY <1>1, <1>2, <1>3, <1>5, <2>1, <2>2, <2>3, <2>4, LineAlone
  <2>8. BridgeTypeOK'
    BY <1>1, <1>5, <2>2, <2>3, <2>4 DEF BridgeTypeOK
  <2> QED
    BY <1>1, <2>6, <2>7, <2>8 DEF BridgeInv
<1> QED
  BY <1>4, <1>6, <1>7

\* A flush puts what the sink holds into the channel, or finds it closed
\* (client.rs:483).
LEMMA FlushKeepsLine ==
    ASSUME BridgeInv, NEW c \in Clients, Flush(c)
    PROVE  BridgeInv'
<1>1. TypeOK /\ BridgeTypeOK /\ \A x \in Clients : LineOf(x)
  BY DEF BridgeInv
<1>2. /\ UNCHANGED <<inbox, seen, phase, active, out, frames, listener>>
      /\ UNCHANGED <<processor, socket, sent, pings, failed>>
      /\ ~broken[c] /\ socket[c] # "closing" /\ phase[c] # "closed" /\ ~Ended(c)
  BY DEF Flush, Steady, Ended, vars, sessionVars
<1>3. TypeOK' /\ \A x \in Clients : Ended(x)' = Ended(x)
  BY <1>1, <1>2 DEF TypeOK, ProxyTypeOK, SessionTypeOK, Ended
<1>4. LineOf(c) /\ (wire[c] = Dropped => ~wire[c].open)
      /\ processor[c] \in {"running", "done"}
  BY <1>1, EmptyChannels, LineTypes
<1>5. CASE wire[c].open
  <2>1. wire' = Passed(c) /\ held' = [held EXCEPT ![c] = <<>>] /\ UNCHANGED broken
    BY <1>5 DEF Flush
  <2>2. /\ wire' \in [Clients -> ChannelOf(WsMessage)] /\ wire'[c].open
        /\ WsClose \in Pending(wire'[c]) => WsClose \in Pending(wire[c])
        /\ Line(c)' = Whole(c)
        /\ \A x \in Clients \ {c} : wire'[x] = wire[x]
    BY <1>1, <1>2, <1>5, <2>1, PassedLine
  <2>3. /\ held'[c] = <<>> /\ \A x \in Clients \ {c} : held'[x] = held[x]
        /\ held' \in [Clients -> FrameOrNone]
    <3>1. <<>> \in FrameOrNone
      BY DEF FrameOrNone
    <3> QED
      BY <1>1, <2>1, <3>1 DEF BridgeTypeOK
  <2>4. processor[c] = "running"
    BY <1>4, <1>5 DEF LineOf
  <2>5. Line(c)' = out[c] /\ Whole(c)' = out[c] /\ Begins(Line(c)', out[c])
    <3>1. Whole(c)' = Line(c)'
      BY <2>3 DEF Whole
    <3> QED
      BY <1>1, <1>4, <2>2, <2>4, <3>1, LineTypes, BeginsSame DEF LineOf
  <2>6. LineOf(c)'
    BY <1>2, <1>4, <2>2, <2>3, <2>4, <2>5 DEF LineOf
  <2>7. \A x \in Clients \ {c} : LineOf(x)'
    BY <1>1, <1>2, <1>3, <2>1, <2>2, <2>3, LineAlone
  <2>8. BridgeTypeOK'
    BY <1>1, <1>2, <2>1, <2>2, <2>3 DEF BridgeTypeOK
  <2> QED
    BY <1>3, <2>6, <2>7, <2>8 DEF BridgeInv
<1>6. CASE ~wire[c].open
  <2>1. broken' = [broken EXCEPT ![c] = TRUE] /\ UNCHANGED <<held, wire>>
    BY <1>6 DEF Flush
  <2>2. broken'[c] /\ \A x \in Clients \ {c} : broken'[x] = broken[x]
    BY <1>1, <2>1 DEF BridgeTypeOK
  <2>3. LineOf(c)'
    BY <1>2, <1>3, <1>4, <2>1, <2>2 DEF LineOf, Line, Whole
  <2>4. \A x \in Clients \ {c} : LineOf(x)'
    BY <1>1, <1>2, <1>3, <2>1, <2>2, LineAlone
  <2>5. BridgeTypeOK'
    BY <1>1, <1>2, <2>1 DEF BridgeTypeOK
  <2> QED
    BY <1>3, <2>3, <2>4, <2>5 DEF BridgeInv
<1> QED
  BY <1>5, <1>6

\* A message that is not a frame, in the channel, leaves the line what it is.
LEMMA QueuedKeepsLine ==
    ASSUME BridgeInv, NEW c \in Clients, ~broken[c], socket[c] = "open",
           NEW m \in {Pong, WsClose},
           \/ wire[c].open /\ wire' = [wire EXCEPT ![c] = Push(wire[c], m)]
           \/ wire' = wire,
           \/ m = Pong /\ socket' = socket
           \/ m = WsClose /\ socket' = [socket EXCEPT ![c] = "closing"],
           pings' \in [Clients -> Nat],
           UNCHANGED <<vars, held, processor, broken, sent, failed>>
    PROVE  BridgeInv'
<1>1. TypeOK /\ BridgeTypeOK /\ \A x \in Clients : LineOf(x)
  BY DEF BridgeInv
<1>2. UNCHANGED <<inbox, seen, phase, active, out, frames, listener>>
  BY DEF vars, sessionVars
<1>3. TypeOK' /\ \A x \in Clients : Ended(x)' = Ended(x)
  BY <1>1, <1>2 DEF TypeOK, ProxyTypeOK, SessionTypeOK, Ended
<1>4. /\ \A x \in Clients \ {c} : socket'[x] = socket[x]
      /\ socket' \in [Clients -> {"open", "closing", "closed", "ended"}]
      /\ socket'[c] = IF m = Pong THEN "open" ELSE "closing"
  BY <1>1, TextTypes DEF BridgeTypeOK
<1>5. m \in WsMessage /\ m \notin TextMessage
  BY TextTypes
<1>6. /\ wire'[c] \in ChannelOf(WsMessage) /\ wire'[c].open = wire[c].open
      /\ ~wire[c].open => wire'[c] = wire[c]
      /\ Pending(wire'[c]) \subseteq Pending(wire[c]) \cup {m}
      /\ Line(c)' = Line(c) /\ Whole(c)' = Whole(c)
      /\ \A x \in Clients \ {c} : wire'[x] = wire[x]
      /\ wire' \in [Clients -> ChannelOf(WsMessage)]
  <2>1. CASE wire' = wire
    BY <1>1, <2>1, LineTypes DEF Line, Whole, BridgeTypeOK
  <2>2. CASE wire[c].open /\ wire' = [wire EXCEPT ![c] = Push(wire[c], m)]
    <3>1. /\ wire'[c] \in ChannelOf(WsMessage) /\ wire'[c].open
          /\ Pending(wire'[c]) \subseteq Pending(wire[c]) \cup {m}
          /\ Line(c)' = Line(c)
          /\ \A x \in Clients \ {c} : wire'[x] = wire[x]
      BY <1>1, <1>5, <2>2, PushedLine
    <3> QED
      BY <1>1, <2>2, <3>1 DEF BridgeTypeOK, Whole
  <2> QED
    BY <2>1, <2>2
<1>7. LineOf(c)'
  <2>1. LineOf(c) /\ (wire[c] = Dropped => ~wire[c].open)
    BY <1>1, EmptyChannels
  <2> QED
    BY <1>2, <1>3, <1>4, <1>6, <2>1, TextTypes DEF LineOf
<1>8. \A x \in Clients \ {c} : LineOf(x)'
  BY <1>1, <1>2, <1>3, <1>4, <1>6, LineAlone
<1>9. BridgeTypeOK'
  BY <1>1, <1>4, <1>6 DEF BridgeTypeOK
<1> QED
  BY <1>1, <1>3, <1>7, <1>8, <1>9 DEF BridgeInv

\* A step of a session that writes nothing leaves every line what it is.
LEMMA QuietKeepsLine ==
    ASSUME BridgeInv, NEW c \in Clients, OpenStep(c), out' = out, UNCHANGED bridgeVars,
           phase'[c] = "closed" => phase[c] = "closed" \/ broken[c] \/ held[c] = <<>>
    PROVE  BridgeInv'
<1>1. TypeOK /\ BridgeTypeOK /\ TypeOK' /\ \A x \in Clients : LineOf(x)
  BY OpenStepTypes, SessionStepTypes DEF BridgeInv, OpenStep, TypeOK
<1>2. \A x \in Clients :
        /\ Ended(x) => Ended(x)'
        /\ phase'[x] = "closed" => phase[x] = "closed" \/ broken[x] \/ held[x] = <<>>
  BY <1>1, OneFrame DEF Ended
<1>3. UNCHANGED <<held, wire, processor, socket, broken, sent, pings, failed>>
  BY DEF bridgeVars
<1>4. \A x \in Clients : LineOf(x)'
  BY <1>1, <1>2, <1>3, LineAlone
<1>5. BridgeTypeOK'
  BY <1>1, <1>3 DEF BridgeTypeOK
<1> QED
  BY <1>1, <1>4, <1>5 DEF BridgeInv

-----------------------------------------------------------------------------
(* The response processor.                                                 *)

\* What is forwarded stays in the line: it only moves from channel to socket
\* (sample_server.rs:130-133).
LEMMA ForwardKeepsLine ==
    ASSUME BridgeInv, NEW c \in Clients, ForwardMessage(c)
    PROVE  BridgeInv'
<1>1. TypeOK /\ BridgeTypeOK /\ \A x \in Clients : LineOf(x)
  BY DEF BridgeInv
<1>2. /\ UNCHANGED <<inbox, seen, phase, active, out, frames, listener>>
      /\ UNCHANGED <<held, processor, socket, broken, pings, failed>>
      /\ sent' = [sent EXCEPT ![c] = Append(@, First(wire[c]))]
      /\ wire' = [wire EXCEPT ![c] = Pop(@)]
      /\ processor[c] = "running" /\ Ready(wire[c])
  BY DEF ForwardMessage, Processing, vars, sessionVars
<1>3. TypeOK' /\ \A x \in Clients : Ended(x)' = Ended(x)
  BY <1>1, <1>2 DEF TypeOK, ProxyTypeOK, SessionTypeOK, Ended
<1>4. /\ wire[c] \in ChannelOf(WsMessage) /\ wire[c].queue \in Seq(WsMessage)
      /\ sent[c] \in Seq(WsMessage)
  BY <1>1, LineTypes
<1>5. /\ wire'[c] = Pop(wire[c]) /\ sent'[c] = Append(sent[c], First(wire[c]))
      /\ \A x \in Clients \ {c} : wire'[x] = wire[x] /\ sent'[x] = sent[x]
  BY <1>1, <1>2 DEF BridgeTypeOK
<1>6. /\ Pop(wire[c]) \in ChannelOf(WsMessage) /\ Pop(wire[c]).open = wire[c].open
      /\ First(wire[c]) \in WsMessage
      /\ Pending(Pop(wire[c])) \subseteq Pending(wire[c])
  BY <1>2, <1>4, PopProperties
<1>7. Line(c)' = Line(c) /\ Whole(c)' = Whole(c)
  <2>1. /\ Pop(wire[c]).queue = Tail(wire[c].queue) /\ First(wire[c]) = Head(wire[c].queue)
        /\ wire[c].queue # <<>>
    BY <1>2, <1>4 DEF Pop, First, Ready, ChannelOf
  <2>2. Append(sent[c], Head(wire[c].queue)) \o Tail(wire[c].queue) = sent[c] \o wire[c].queue
    BY ONLY <1>4, <2>1, TakenAndLeft
  <2>3. Line(c)' = Texts(sent'[c] \o wire'[c].queue)
    BY DEF Line
  <2>4. Line(c)' = Line(c)
    BY <1>5, <2>1, <2>2, <2>3 DEF Line
  <2> QED
    BY <1>2, <2>4 DEF Whole
<1>8. LineOf(c)'
  BY <1>1, <1>2, <1>3, <1>5, <1>6, <1>7 DEF LineOf
<1>9. \A x \in Clients \ {c} : LineOf(x)'
  BY <1>1, <1>2, <1>3, <1>5, LineAlone
<1>10. BridgeTypeOK'
  BY <1>1, <1>2, <1>4, <1>6 DEF BridgeTypeOK
<1> QED
  BY <1>1, <1>3, <1>8, <1>9, <1>10 DEF BridgeInv

\* What is queued is lost with the processor; what was written to the socket
\* still begins what the session wrote.  It is all of that unless the client
\* closed or writing failed: a processor that nobody sends to any more has
\* emptied the channel (sample_server.rs:123-136, 144-150).
LEMMA ProcessorEndKeepsLine ==
    ASSUME BridgeInv, NEW c \in Clients, WriteFails(c) \/ ProcessorStops(c)
    PROVE  BridgeInv'
<1>1. TypeOK /\ BridgeTypeOK /\ \A x \in Clients : LineOf(x)
  BY DEF BridgeInv
<1>2. /\ UNCHANGED <<inbox, seen, phase, active, out, frames, listener>>
      /\ UNCHANGED <<held, socket, broken, sent, pings>>
      /\ processor' = [processor EXCEPT ![c] = "done"]
      /\ wire' = [wire EXCEPT ![c] = Dropped]
      /\ processor[c] = "running"
  BY DEF WriteFails, ProcessorStops, Processing, ProcessorEnds, vars, sessionVars
<1>3. TypeOK' /\ \A x \in Clients : Ended(x)' = Ended(x)
  BY <1>1, <1>2 DEF TypeOK, ProxyTypeOK, SessionTypeOK, Ended
<1>4. failed' = [failed EXCEPT ![c] = TRUE] \/ failed' = failed
  BY DEF WriteFails, ProcessorStops
<1>5. /\ wire'[c] = Dropped /\ processor'[c] = "done"
      /\ \A x \in Clients \ {c} : /\ wire'[x] = wire[x]
                                  /\ processor'[x] = processor[x]
                                  /\ failed'[x] = failed[x]
  BY <1>1, <1>2, <1>4 DEF BridgeTypeOK
<1>6. BridgeTypeOK'
  BY <1>1, <1>2, <1>4, EmptyChannels DEF BridgeTypeOK
<1>7. /\ wire[c] \in ChannelOf(WsMessage) /\ wire[c].queue \in Seq(WsMessage)
      /\ sent[c] \in Seq(WsMessage) /\ Line(c) \in Seq(Frame) /\ out[c] \in Seq(Frame)
  BY <1>1, LineTypes
<1>8. Line(c)' = Texts(sent[c]) /\ Texts(sent[c]) \in Seq(Frame)
  <2>1. Line(c)' = Texts(sent[c] \o <<>>)
    <3>1. wire'[c].queue = <<>> /\ sent'[c] = sent[c]
      BY <1>2, <1>5 DEF Dropped
    <3>2. Line(c)' = Texts(sent'[c] \o wire'[c].queue)
      BY DEF Line
    <3> QED
      BY <3>1, <3>2
  <2>2. sent[c] \o <<>> = sent[c]
    BY <1>7, ConcatEmptySeq
  <2> QED
    BY <1>7, <2>1, <2>2, TextsTypes
<1>9. Begins(Texts(sent[c]), Line(c)) /\ Begins(Line(c), out[c])
  BY <1>1, <1>7, TextsBegin DEF Line, LineOf
<1>10. Begins(Line(c)', out'[c])
  <2>1. /\ Len(Texts(sent[c])) \in Nat /\ Len(Line(c)) \in Nat
    BY <1>7, <1>8
  <2>2. Begins(Texts(sent[c]), out[c])
    BY <1>9, <2>1 DEF Begins
  <2> QED
    BY <1>2, <1>8, <2>2
<1>11. socket[c] \in {"open", "ended"} /\ ~failed'[c] =>
         Ended(c) /\ Whole(c)' = out[c]
  <2> SUFFICES ASSUME socket[c] \in {"open", "ended"}, ~failed'[c]
               PROVE  Ended(c) /\ Whole(c)' = out[c]
    OBVIOUS
  <2>1. ~WriteFails(c)
    BY <1>1 DEF WriteFails, BridgeTypeOK
  <2>2. ~(Ready(wire[c]) /\ First(wire[c]) = WsClose)
    <3>1. Ready(wire[c]) => First(wire[c]) \in Pending(wire[c])
      BY <1>7, PopProperties
    <3> QED
      BY <1>1, <3>1 DEF LineOf
  <2>3. ~Ready(wire[c]) /\ Senders(c) = {}
    BY <2>1, <2>2 DEF ProcessorStops
  <2>4. Ended(c)
    BY <1>1, <2>3 DEF Senders, Ended, TypeOK, SessionTypeOK, Phase
  <2>5. Line(c)' = Line(c) /\ Whole(c)' = Whole(c)
    BY <1>2, <1>5, <2>3 DEF Line, Whole, Dropped, Ready
  <2> QED
    BY <1>1, <1>2, <2>4, <2>5 DEF LineOf
<1>12. LineOf(c)'
  <2>1. LineOf(c) /\ Pending(wire'[c]) = {}
    BY <1>1, <1>5, EmptyChannels
  <2> QED
    BY <1>2, <1>3, <1>5, <1>10, <1>11, <2>1 DEF LineOf
<1>13. \A x \in Clients \ {c} : LineOf(x)'
  BY <1>1, <1>2, <1>3, <1>5, LineAlone
<1> QED
  BY <1>1, <1>3, <1>6, <1>12, <1>13 DEF BridgeInv

-----------------------------------------------------------------------------
(* The bridge.                                                             *)

\* At first every line is empty.
LEMMA InitLine == BridgeInit => BridgeInv
<1> SUFFICES ASSUME BridgeInit PROVE BridgeInv
  OBVIOUS
<1>1. TypeOK
  BY InitSessionTypes DEF BridgeInit
<1>2. NewChannel \in ChannelOf(WsMessage) /\ Pending(NewChannel) = {} /\ NewChannel.open
  BY EmptyChannels
<1>3. BridgeTypeOK
  <2>1. <<>> \in FrameOrNone
    BY DEF FrameOrNone
  <2> QED
    BY <1>2, <2>1 DEF BridgeInit, BridgeTypeOK
<1>4. ASSUME NEW c \in Clients
      PROVE  LineOf(c)
  <2>1. /\ wire[c] = NewChannel /\ processor[c] = "running" /\ sent[c] = <<>> /\ out[c] = <<>>
        /\ socket[c] = "open" /\ held[c] = <<>>
    BY DEF BridgeInit, Init, SessionInit
  <2>2. Line(c) = <<>>
    <3>1. <<>> \in Seq(WsMessage) /\ NewChannel.queue = <<>>
      BY DEF NewChannel
    <3>2. <<>> \o <<>> = <<>>
      BY <3>1, ConcatEmptySeq
    <3> QED
      BY <2>1, <3>1, <3>2, TextsEmpty DEF Line
  <2> QED
    BY <1>2, <2>1, <2>2 DEF LineOf, Whole, Begins
<1> QED
  BY <1>1, <1>3, <1>4 DEF BridgeInv

\* What the session reads, one message of the socket at a time.
LEMMA ReadingKeepsLine ==
    ASSUME BridgeInv, NEW c \in Clients,
           \/ ReadFrame(c) \/ ReadPing(c) \/ ReadFails(c) \/ ReadEnd(c)
           \/ ReadClose(c) \/ CloseIsError(c)
    PROVE  BridgeInv'
<1>1. /\ TypeOK /\ BridgeTypeOK /\ LineOf(c)
      /\ socket[c] \in {"open", "closing", "closed", "ended"}
      /\ socket' = socket => socket' = [socket EXCEPT ![c] = socket[c]]
  BY DEF BridgeInv, BridgeTypeOK
<1>2. pings' = pings \/ pings' = [pings EXCEPT ![c] = @ + 1] => pings' \in [Clients -> Nat]
  <2>1. pings \in [Clients -> Nat]
    BY <1>1 DEF BridgeTypeOK
  <2> QED
    BY <2>1
<1>3. CASE ReadFrame(c)
  <2>1. LivingStep(c)
    BY <1>3 DEF ReadFrame, LivingStep
  <2>2. Written(c) /\ ~broken[c] /\ socket[c] = "open"
        /\ UNCHANGED <<processor, socket, sent, pings, failed>>
    BY <1>3 DEF ReadFrame, Reading, Steady, others
  <2> QED
    BY <1>1, <1>2, <2>1, <2>2, WriterKeepsLine
<1>4. CASE ReadPing(c)
  <2>1. /\ ~broken[c] /\ socket[c] = "open" /\ pings' \in [Clients -> Nat]
        /\ UNCHANGED <<processor, socket, sent, failed>>
    BY <1>2, <1>4 DEF ReadPing, Reading, Steady
  <2>2. CASE wire[c].open
    <3>1. wire' = [wire EXCEPT ![c] = Push(wire[c], Pong)] /\ UNCHANGED <<vars, held, broken>>
      BY <1>4, <2>2 DEF ReadPing
    <3> QED
      BY <2>1, <2>2, <3>1, QueuedKeepsLine
  <2>3. CASE ~wire[c].open
    <3>1. LivingStep(c) /\ Written(c)
      BY <1>4, <2>3 DEF ReadPing, ReadError, LivingStep
    <3> QED
      BY <1>1, <2>1, <3>1, WriterKeepsLine
  <2> QED
    BY <2>2, <2>3
<1>5. CASE ReadFails(c) \/ CloseIsError(c)
  <2>1. LivingStep(c) /\ Written(c) /\ UNCHANGED <<processor, sent, pings, failed>>
    BY <1>5 DEF ReadFails, CloseIsError, ReadError, LivingStep
  <2>2. /\ ~broken[c]
        /\ \/ socket[c] = "open" /\ socket' = [socket EXCEPT ![c] = "ended"]
           \/ socket[c] = "closing" /\ socket' = [socket EXCEPT ![c] = "closed"]
    BY <1>1, <1>5 DEF ReadFails, CloseIsError, Reading, Steady, LineOf
  <2> QED
    BY <1>2, <2>1, <2>2, WriterKeepsLine
<1>6. CASE ReadEnd(c)
  <2>1. LivingStep(c) /\ Written(c) /\ UNCHANGED <<processor, sent, pings, failed>>
    BY <1>6 DEF ReadEnd, LivingStep
  <2>2. /\ ~broken[c] /\ socket[c] # "closing"
        /\ socket' = [socket EXCEPT ![c] = IF @ = "open" THEN "ended" ELSE @]
    BY <1>6 DEF ReadEnd, Steady
  <2>3. CASE socket[c] \in {"open", "ended"}
    <3>1. socket' = [socket EXCEPT ![c] = "ended"]
      BY <2>2, <2>3
    <3> QED
      BY <1>2, <2>1, <2>2, <2>3, <3>1, WriterKeepsLine
  <2>4. CASE socket[c] = "closed"
    <3>1. socket' = [socket EXCEPT ![c] = "closed"]
      BY <2>2, <2>4
    <3> QED
      BY <1>2, <2>1, <2>2, <3>1, WriterKeepsLine
  <2> QED
    BY <1>1, <2>2, <2>3, <2>4
<1>7. CASE ReadClose(c)
  <2>1. /\ ~broken[c] /\ socket[c] = "open"
        /\ wire' = [wire EXCEPT ![c] = Push(wire[c], WsClose)]
        /\ socket' = [socket EXCEPT ![c] = "closing"]
        /\ UNCHANGED <<vars, held, processor, broken, sent, pings, failed>>
    BY <1>7 DEF ReadClose, Reading, Steady
  <2>2. wire[c].open \/ wire' = wire
    BY <1>1, <2>1 DEF Push, BridgeTypeOK
  <2> QED
    BY <1>2, <2>1, <2>2, QueuedKeepsLine
<1> QED
  BY <1>3, <1>4, <1>5, <1>6, <1>7

\* Every step leaves every session's line in order.
LEMMA StepKeepsLine ==
    ASSUME BridgeInv, [BridgeNext]_servedVars
    PROVE  BridgeInv'
<1>1. CASE UNCHANGED servedVars
  <2>1. /\ UNCHANGED <<inbox, seen, phase, active, out, frames, listener>>
        /\ UNCHANGED <<held, wire, processor, socket, broken, sent, pings, failed>>
    BY <1>1 DEF servedVars, vars, sessionVars, bridgeVars
  <2>2. TypeOK /\ BridgeTypeOK /\ \A x \in Clients : LineOf(x)
    BY DEF BridgeInv
  <2>3. TypeOK' /\ \A x \in Clients : Ended(x)' = Ended(x)
    BY <2>1, <2>2 DEF TypeOK, ProxyTypeOK, SessionTypeOK, Ended
  <2>4. \A x \in Clients : LineOf(x)'
    BY <2>1, <2>2, <2>3, LineAlone
  <2>5. BridgeTypeOK'
    BY <2>1, <2>2 DEF BridgeTypeOK
  <2> QED
    BY <2>3, <2>4, <2>5 DEF BridgeInv
<1>2. ASSUME NEW c \in Clients,
             \/ ReadFrame(c) \/ ReadPing(c) \/ ReadFails(c) \/ ReadEnd(c)
             \/ ReadClose(c) \/ CloseIsError(c)
      PROVE  BridgeInv'
  BY <1>2, ReadingKeepsLine
<1>3. ASSUME NEW c \in Clients, ServedEvent(c) \/ ServedHeartbeat(c)
      PROVE  BridgeInv'
  <2>1. LivingStep(c) /\ Written(c) /\ ~broken[c] /\ socket[c] # "closing"
        /\ UNCHANGED <<processor, socket, sent, pings, failed>>
    BY <1>3 DEF ServedEvent, ServedHeartbeat, Steady, others, LivingStep
  <2>2. /\ socket[c] \in {"open", "closed", "ended"} /\ pings' \in [Clients -> Nat]
        /\ socket' = [socket EXCEPT ![c] = socket[c]]
    BY <2>1 DEF BridgeInv, BridgeTypeOK
  <2> QED
    BY <2>1, <2>2, WriterKeepsLine
<1>4. ASSUME NEW c \in Clients, SinkGivesUp(c) \/ ServedLingerEnds(c) \/ FromOthers(c)
      PROVE  BridgeInv'
  <2>1. OpenStep(c) /\ UNCHANGED bridgeVars
    BY <1>4 DEF SinkGivesUp, ServedLingerEnds, FromOthers, OpenStep, SessionStep
  <2>2. out' = out
    BY <1>4 DEF SinkGivesUp, SinkFails, ServedLingerEnds, LingerEnds, FromOthers,
                MissHeartbeat, Callback, sessionVars
  <2>3. phase'[c] = "closed" => phase[c] = "closed" \/ broken[c] \/ held[c] = <<>>
    BY <1>4 DEF SinkGivesUp, ServedLingerEnds, FromOthers, MissHeartbeat, Callback, sessionVars
  <2> QED
    BY <2>1, <2>2, <2>3, QuietKeepsLine
<1>5. ASSUME NEW c \in Clients, Flush(c)
      PROVE  BridgeInv'
  BY <1>5, FlushKeepsLine
<1>6. ASSUME NEW c \in Clients, Processor(c)
      PROVE  BridgeInv'
  BY <1>6, ForwardKeepsLine, ProcessorEndKeepsLine DEF Processor
<1> QED
  BY <1>1, <1>2, <1>3, <1>4, <1>5, <1>6 DEF BridgeNext

\* Every session's line is in order, always.
THEOREM Lines == BridgeSpec => []BridgeInv
<1>1. BridgeInv /\ [BridgeNext]_servedVars => BridgeInv'
  BY StepKeepsLine
<1> QED
  BY <1>1, InitLine, PTL DEF BridgeSpec

\* The channels to the response processors, the sockets, and what is written
\* to them, are always of their types (sample_server.rs).
THEOREM BridgeTypes == BridgeSpec => []BridgeTypeOK
<1>1. BridgeInv => BridgeTypeOK
  BY DEF BridgeInv
<1> QED
  BY <1>1, Lines, PTL

\* The client gets the frames that its session wrote, in order and without
\* gaps; and all of them, the last ERROR included, when the connection ends
\* and neither the client closed nor writing to the socket failed.  A session
\* whose task panics, over a frame it has no code for or a body that is not
\* UTF-8, loses the last one at most (sample_server.rs:113-136).
THEOREM Arriving == BridgeSpec => []FramesAreDelivered
<1>1. BridgeInv => FramesAreDelivered
  <2>1. ASSUME BridgeInv, NEW c \in Clients
        PROVE  /\ Texts(sent[c]) = SubSeq(out[c], 1, Len(Texts(sent[c])))
               /\ Over(c) /\ socket[c] \in {"open", "ended"} /\ ~failed[c]
                    => Missing(c) <= IF phase[c] = "panicked" \/ broken[c] THEN 1 ELSE 0
    <3>1. TypeOK /\ BridgeTypeOK /\ LineOf(c)
      BY <2>1 DEF BridgeInv
    <3>2. /\ wire[c].queue \in Seq(WsMessage)
          /\ sent[c] \in Seq(WsMessage) /\ Line(c) \in Seq(Frame) /\ out[c] \in Seq(Frame)
      BY <3>1, LineTypes
    <3>3. Texts(sent[c]) \in Seq(Frame)
      BY <3>2, TextsTypes
    <3>4. Begins(Texts(sent[c]), Line(c)) /\ Begins(Line(c), out[c])
      BY <3>1, <3>2, TextsBegin DEF Line, LineOf
    <3>5. Begins(Texts(sent[c]), out[c])
      <4>1. Len(Texts(sent[c])) \in Nat /\ Len(Line(c)) \in Nat
        BY <3>2, <3>3
      <4> QED
        BY <3>4, <4>1 DEF Begins
    <3>6. Texts(sent[c]) = SubSeq(out[c], 1, Len(Texts(sent[c])))
      BY <3>2, <3>3, <3>5, PrefixIsSubSeq DEF Begins
    <3>7. Over(c) => Line(c) = Texts(sent[c])
      <4>1. sent[c] \o <<>> = sent[c]
        BY <3>2, ConcatEmptySeq
      <4>2. Over(c) => wire[c].queue = <<>>
        BY <3>1 DEF Over, LineOf, Dropped
      <4> QED
        BY <4>1, <4>2 DEF Line
    <3>8. ASSUME Over(c), socket[c] \in {"open", "ended"}, ~failed[c]
          PROVE  Missing(c) <= IF phase[c] = "panicked" \/ broken[c] THEN 1 ELSE 0
      <4>1. /\ Whole(c) = out[c] /\ Line(c) = Texts(sent[c])
            /\ phase[c] = "panicked" \/ broken[c] \/ held[c] = <<>>
        BY <3>1, <3>7, <3>8 DEF Over, Ended, LineOf
      <4>2. CASE held[c] = <<>>
        <5>1. out[c] = Texts(sent[c])
          BY <4>1, <4>2 DEF Whole
        <5>2. Missing(c) = 0
          BY <3>2, <5>1 DEF Missing
        <5> QED
          BY <5>2
      <4>3. ASSUME NEW f \in Frame, held[c] = <<f>>
            PROVE  Missing(c) = 1
        <5>1. held[c] # <<>> /\ Head(held[c]) = f
          BY <4>3
        <5>2. out[c] = Append(Texts(sent[c]), f)
          BY <4>1, <5>1 DEF Whole
        <5>3. Len(out[c]) = Len(Texts(sent[c])) + 1 /\ Len(Texts(sent[c])) \in Nat
          BY <3>3, <5>2
        <5> QED
          BY <5>3 DEF Missing
      <4> QED
        <5>1. CASE \E f \in Frame : held[c] = <<f>>
          <6>1. Missing(c) = 1
            BY <4>3, <5>1
          <6>2. phase[c] = "panicked" \/ broken[c]
            BY <4>1, <5>1
          <6> QED
            BY <6>1, <6>2
        <5> QED
          BY <3>1, <4>2, <5>1, LineTypes
    <3> QED
      BY <3>6, <3>7, <3>8
  <2> QED
    BY <2>1 DEF FramesAreDelivered
<1> QED
  BY <1>1, Lines, PTL

-----------------------------------------------------------------------------
(* Sessions and their timers: who has them, on any machine.                *)

\* The channels of commands hold nothing but resets: no session changes a
\* period.
TimedTypes ==
    /\ TypeOK /\ ChainInv
    /\ commands \in [Timers -> ChannelOf({Reset})]
    /\ wanted \in [Clients -> [expected : Expected \cup {0}, supplied : Supplied \cup {0}]]
    /\ unread \in [Clients -> Nat] /\ unwritten \in [Clients -> Nat]
    /\ punctual \in [Clients -> BOOLEAN]

\* The server's timer lives as long as its session, the client's as long as
\* the listener; both have the periods that follow from the heart-beat header.
OwnTimers(c) ==
    /\ phase[c] = "connecting" =>
         stream[Server(c)] = "absent" /\ listener[c] = "idle"
    /\ phase[c] = "alive" =>
         /\ listener[c] # "idle"
         /\ stream[Server(c)] \in {"unpolled", "initialising", "held", "ended"}
         /\ resetter[Server(c)] /\ resetter[Client(c)]
    /\ phase[c] \notin {"connecting", "alive"} => stream[Server(c)] \in {"absent", "dropped"}
    /\ listener[c] = "idle" => stream[Client(c)] = "absent" /\ wanted[c].supplied = 0
    /\ listener[c] = "waiting" => stream[Client(c)] \in {"unpolled", "initialising", "held"}
    /\ listener[c] = "done" => stream[Client(c)] = "dropped"
    /\ listener[c] # "idle" =>
         /\ period[Server(c)] = wanted[c].expected
         /\ period[Client(c)] = Buffered(wanted[c].supplied)

TimedInv == TimedTypes /\ \A c \in Clients : OwnTimers(c)

\* A client's timers are its own.
LEMMA OwnPair ==
    ASSUME NEW c \in Clients
    PROVE  /\ Server(c) \in Timers /\ Client(c) \in Timers /\ Server(c) # Client(c)
           /\ TimersOf(c) \in SUBSET Timers
           /\ \A x \in Clients \ {c} : Server(x) \notin TimersOf(c) /\ Client(x) \notin TimersOf(c)
           /\ \A t \in Timers \ TimersOf(c) :
                \E x \in Clients \ {c} : t = Server(x) \/ t = Client(x)
BY TimersAssumption DEF Server, Client, TimersOf, SessionTimers

\* What concerns client c alone leaves the other clients' timers as they are.
LEMMA OwnFrame ==
    ASSUME NEW x \in Clients, OwnTimers(x),
           \A t \in TimersOf(x) : UNCHANGED <<stream[t], period[t], resetter[t]>>,
           UNCHANGED <<phase[x], listener[x], wanted[x]>>
    PROVE  OwnTimers(x)'
<1>1. \A t \in {Server(x), Client(x)} : UNCHANGED <<stream[t], period[t], resetter[t]>>
  BY DEF TimersOf
<1> QED
  BY <1>1 DEF OwnTimers, Server, Client

\* A step of a session leaves the other sessions as they are.
LEMMA OthersUntouched ==
    ASSUME TypeOK, NEW c \in Clients, OpenStep(c), NEW x \in Clients \ {c}
    PROVE  UNCHANGED <<phase[x], listener[x], inbox[x], out[x]>>
<1> DEFINE Same == UNCHANGED <<phase[x], listener[x], inbox[x], out[x]>>
<1> USE DEF TypeOK, ProxyTypeOK, SessionTypeOK
<1>1. CASE Connect(c) \/ Reject(c)
  BY <1>1 DEF Connect, Reject, End, Emit, DropInbox
<1>2. CASE BadFrame(c) \/ \E s \in SubIds : UnknownUnsubscribe(c, s)
  BY <1>2 DEF BadFrame, UnknownUnsubscribe, Fail, Emit, SendEvent
<1>3. CASE Disconnect(c) \/ UnhandledFrame(c) \/ EndOfStream(c)
  BY <1>3 DEF Disconnect, UnhandledFrame, EndOfStream, End, DropInbox
<1>4. CASE HandleEvent(c)
  BY <1>4 DEF HandleEvent, OnSubscribed, OnUnsubscribed, OnServerMessage, OnError, OnClose,
              TakeEvent, End, Emit, DropInbox
<1>5. CASE Heartbeat(c) \/ MissHeartbeat(c) \/ SinkFails(c) \/ LingerEnds(c)
  BY <1>5 DEF Heartbeat, MissHeartbeat, SinkFails, LingerEnds, End, Emit, SendEvent, DropInbox
<1>6. CASE ToDestination(c)
  BY <1>6 DEF ToDestination, SubscribeFrame, SendFrame, UnsubscribeFrame
<1>7. ASSUME NEW e \in active[c], UnsubscribePanic(c, e)
      PROVE  Same
  BY <1>7 DEF UnsubscribePanic, End, DropInbox
<1>8. CASE Callback(c)
  BY <1>8 DEF Callback, SendEvent, sessionVars
<1> QED
  BY <1>1, <1>2, <1>3, <1>4, <1>5, <1>6, <1>7, <1>8 DEF OpenStep, SessionStep

\* What a step of a session does to its timers: resets, and at the end the
\* resetters and the server's stream go (client.rs:375-390).
TimersKept(c, resets) ==
    /\ UNCHANGED <<period, left, wanted>>
    /\ stream[Server(c)] # "initialising"
    /\ \A t \in Timers :
         /\ t # Server(c) \/ phase'[c] = "alive" =>
              /\ UNCHANGED <<stream[t], task[t], fired[t]>>
              /\ commands'[t] = IF t \in resets THEN Push(commands[t], Reset) ELSE commands[t]
         /\ t \notin TimersOf(c) \/ phase'[c] = "alive" => UNCHANGED resetter[t]
    /\ phase'[c] # "alive" =>
         /\ stream'[Server(c)] = "dropped" /\ ~resetter'[Client(c)]

\* Such a step keeps the channels and tasks consistent.
LEMMA WithTimersEffect ==
    ASSUME ChainInv, commands \in [Timers -> ChannelOf({Reset})],
           NEW c \in Clients, NEW resets \in SUBSET TimersOf(c), WithTimers(c, resets)
    PROVE  /\ ChainInv' /\ commands' \in [Timers -> ChannelOf({Reset})]
           /\ TimersKept(c, resets)
<1> DEFINE orders == [t \in resets |-> Reset]
           quit == IF phase'[c] = "alive" THEN {} ELSE TimersOf(c)
           gone == IF phase'[c] = "alive" THEN {} ELSE {Server(c)}
<1>1. resets \in SUBSET Timers /\ Server(c) \in Timers /\ Client(c) \in Timers
      /\ Server(c) \in TimersOf(c) /\ Client(c) \in TimersOf(c)
  BY OwnPair DEF TimersOf
<1>2. orders \in [resets -> Command] /\ \A t \in resets : orders[t] = Reset
  BY DEF Command
<1>3. OwnersStep(orders, quit, gone) /\ stream[Server(c)] # "initialising" /\ wanted' = wanted
  BY DEF WithTimers
<1> HIDE DEF orders
<1>4. /\ ChainInv'
      /\ UNCHANGED <<period, left>>
      /\ \A t \in Timers :
           /\ commands'[t] = IF t \in gone /\ stream[t] = "unpolled" THEN Dropped
                             ELSE IF t \in resets THEN Push(commands[t], orders[t]) ELSE commands[t]
           /\ commands'[t] \in ChannelOf(Command)
           /\ resetter'[t] = (resetter[t] /\ t \notin quit)
           /\ stream'[t] = IF t \in gone THEN "dropped" ELSE stream[t]
           /\ task'[t] = IF t \in gone /\ stream[t] = "held" /\ fired[t] = 0 THEN "aborted"
                         ELSE task[t]
           /\ fired'[t] = IF t \in gone THEN 0 ELSE fired[t]
  <2> HIDE DEF quit, gone
  <2>1. DOMAIN orders = resets /\ \A t \in DOMAIN orders : orders[t] \in Command
    BY <1>2
  <2> QED
    BY <1>3, <2>1, OwnersEffect
<1>5. ASSUME NEW t \in Timers
      PROVE  commands'[t] \in ChannelOf({Reset})
  <2>1. Dropped \in ChannelOf({Reset}) /\ commands[t] \in ChannelOf({Reset})
    BY EmptyChannels
  <2>2. Push(commands[t], Reset) \in ChannelOf({Reset})
    <3> DEFINE ch == commands[t]
    <3>1. ch \in ChannelOf({Reset}) /\ Reset \in {Reset}
      BY <2>1
    <3> HIDE DEF ch
    <3>2. Push(ch, Reset) \in ChannelOf({Reset})
      BY ONLY <3>1, PushProperties
    <3> QED
      BY <3>2 DEF ch
  <2> QED
    BY <1>2, <1>4, <2>1, <2>2
<1>6. commands' \in [Timers -> ChannelOf({Reset})]
  <2>1. commands' \in [Timers -> ChannelOf(Command)]
    BY <1>4 DEF ChainInv, TimerTypeOK
  <2> QED
    BY <1>5, <2>1
<1>7. ASSUME NEW t \in Timers
      PROVE  /\ t # Server(c) \/ phase'[c] = "alive" =>
                  /\ UNCHANGED <<stream[t], task[t], fired[t]>>
                  /\ commands'[t] = IF t \in resets THEN Push(commands[t], Reset) ELSE commands[t]
             /\ t \notin TimersOf(c) \/ phase'[c] = "alive" => UNCHANGED resetter[t]
  <2>1. t # Server(c) \/ phase'[c] = "alive" => t \notin gone
    OBVIOUS
  <2>2. t \notin TimersOf(c) \/ phase'[c] = "alive" => t \notin quit
    OBVIOUS
  <2>3. resetter[t] \in BOOLEAN
    BY DEF ChainInv, TimerTypeOK
  <2> HIDE DEF quit, gone
  <2>4. t \notin quit => resetter'[t] = resetter[t]
    BY <1>4, <2>3, Zenon
  <2> QED
    BY <1>2, <1>4, <2>1, <2>2, <2>4
<1>8. phase'[c] # "alive" => stream'[Server(c)] = "dropped" /\ ~resetter'[Client(c)]
  BY <1>1, <1>4
<1> QED
  BY <1>3, <1>4, <1>6, <1>7, <1>8 DEF TimersKept

\* What the steps of a client's session and timers leave alone.
Elsewhere(c) ==
    \A x \in Clients \ {c} :
        /\ UNCHANGED <<phase[x], listener[x], inbox[x], wanted[x]>>
        /\ UNCHANGED <<unread[x], unwritten[x], punctual[x]>>
        /\ \A t \in TimersOf(x) :
             UNCHANGED <<stream[t], task[t], fired[t], period[t], left[t], commands[t], resetter[t]>>

\* A timer that is in nobody else's hands.
LEMMA OtherTimers ==
    ASSUME NEW c \in Clients, NEW x \in Clients \ {c}, NEW t \in TimersOf(x)
    PROVE  t \in Timers /\ t \notin TimersOf(c)
BY TimersAssumption DEF Server, Client, TimersOf, SessionTimers

\* The clocks after a step of a session.
LEMMA NotedEffect ==
    ASSUME TimedTypes, NEW c \in Clients, NEW heard \in BOOLEAN, Noted(c, heard)
    PROVE  /\ unread' \in [Clients -> Nat] /\ unwritten' \in [Clients -> Nat]
           /\ punctual' = punctual
           /\ unread'[c] = IF heard THEN 0 ELSE unread[c]
           /\ unwritten'[c] = IF out' = out THEN unwritten[c] ELSE 0
           /\ \A x \in Clients \ {c} : UNCHANGED <<unread[x], unwritten[x]>>
BY DEF Noted, TimedTypes

\* A session's part of a step.
SessionPart(c) == OpenStep(c) \/ UNCHANGED vars

\* It keeps types, and leaves the other sessions as they are.
LEMMA SessionPartEffect ==
    ASSUME TypeOK, NEW c \in Clients, SessionPart(c)
    PROVE  /\ TypeOK'
           /\ \A x \in Clients \ {c} : UNCHANGED <<phase[x], listener[x], inbox[x], out[x]>>
<1>1. CASE OpenStep(c)
  BY <1>1, OpenStepTypes, SessionStepTypes, OthersUntouched DEF OpenStep, TypeOK
<1>2. CASE UNCHANGED vars
  BY <1>2 DEF vars, sessionVars, TypeOK, ProxyTypeOK, SessionTypeOK
<1> QED
  BY <1>1, <1>2 DEF SessionPart

\* The steps of a session that resets timers, or ends.
ResettingStep(c, resets, heard) ==
    /\ phase[c] = "alive" /\ listener' = listener
    /\ SessionPart(c)
    /\ resets \in SUBSET TimersOf(c) /\ heard \in BOOLEAN
    /\ heard <=> Client(c) \in resets
    /\ Server(c) \in resets => out' # out
    /\ WithTimers(c, resets)
    /\ Noted(c, heard)

\* All steps that concern one client and its timers.
TimedStep(c) ==
    \/ TimedConnect(c) \/ TimedReject(c)
    \/ \E resets \in SUBSET TimersOf(c), heard \in BOOLEAN : ResettingStep(c, resets, heard)
    \/ TimedAfterEnd(c)
    \/ TimedHeartbeat(c) \/ FirstPoll(c) \/ TimedMiss(c)
    \/ TimedCallback(c)
    \/ \E t \in TimersOf(c) : TimedTask(t)

\* The steps that reset timers are resetting steps.
LEMMA Resetting ==
    ASSUME TimedTypes, NEW c \in Clients
    PROVE  /\ TimedFrame(c) \/ ClientHeartbeat(c) => ResettingStep(c, {Client(c)}, TRUE)
           /\ TimedServerMessage(c) => ResettingStep(c, {Server(c)}, FALSE)
           /\ TimedEvent(c) /\ ~TimedServerMessage(c) => ResettingStep(c, {}, FALSE)
           /\ TimedEnd(c) => ResettingStep(c, {}, FALSE)
<1> USE DEF ResettingStep, SessionPart, TimersOf
<1>0. Server(c) # Client(c)
  BY OwnPair
<1>1. TimedFrame(c) => ResettingStep(c, {Client(c)}, TRUE)
  <2> SUFFICES ASSUME TimedFrame(c) PROVE ResettingStep(c, {Client(c)}, TRUE)
    OBVIOUS
  <2>1. OpenStep(c) /\ WithTimers(c, {Client(c)}) /\ Noted(c, TRUE)
    BY DEF TimedFrame, OpenStep, SessionStep
  <2>2. phase[c] = "alive" /\ listener' = listener
    BY DEF TimedFrame, BadFrame, UnknownUnsubscribe, Disconnect, UnhandledFrame, ToDestination,
           SubscribeFrame, SendFrame, UnsubscribeFrame, UnsubscribePanic, Reads
  <2> QED
    BY <1>0, <2>1, <2>2
<1>2. ClientHeartbeat(c) => ResettingStep(c, {Client(c)}, TRUE)
  BY <1>0 DEF ClientHeartbeat, vars, sessionVars
<1>3. TimedServerMessage(c) => ResettingStep(c, {Server(c)}, FALSE)
  <2> SUFFICES ASSUME TimedServerMessage(c) PROVE ResettingStep(c, {Server(c)}, FALSE)
    OBVIOUS
  <2>1. out' # out
    <3>1. PICK m : out'[c] = Append(out[c], m)
      BY DEF TimedServerMessage, OnServerMessage, Emit, TimedTypes, TypeOK, SessionTypeOK
    <3>2. out[c] \in Seq(Frame)
      BY DEF TimedTypes, TypeOK, SessionTypeOK
    <3>3. Len(out'[c]) = Len(out[c]) + 1 /\ Len(out[c]) \in Nat
      BY <3>1, <3>2
    <3> QED
      BY <3>3
  <2> QED
    BY <1>0, <2>1
       DEF TimedServerMessage, OnServerMessage, Event, OpenStep, SessionStep, HandleEvent
<1>4. TimedEvent(c) /\ ~TimedServerMessage(c) => ResettingStep(c, {}, FALSE)
  BY DEF TimedEvent, OnSubscribed, OnUnsubscribed, OnError, OnClose, Event,
         OpenStep, SessionStep, HandleEvent
<1>5. TimedEnd(c) => ResettingStep(c, {}, FALSE)
  BY DEF TimedEnd, EndOfStream, SinkFails, OpenStep, SessionStep
<1> QED
  BY <1>1, <1>2, <1>3, <1>4, <1>5

\* CONNECT makes both timers, with the periods of the heart-beat header
\* (client.rs:541-575).
LEMMA ConnectEffect ==
    ASSUME TimedTypes, NEW c \in Clients, TimedConnect(c)
    PROVE  /\ phase'[c] = "alive" /\ listener'[c] = "waiting" /\ OpenStep(c) /\ Noted(c, TRUE)
           /\ out' # out
           /\ ChainInv' /\ commands' \in [Timers -> ChannelOf({Reset})]
           /\ wanted' \in [Clients -> [expected : Expected \cup {0}, supplied : Supplied \cup {0}]]
           /\ \A x \in Clients \ {c} : wanted'[x] = wanted[x]
           /\ \A t \in TimersOf(c) : /\ stream[t] = "absent" /\ stream'[t] = "unpolled"
                                     /\ commands'[t] = NewChannel /\ resetter'[t]
           /\ period'[Server(c)] = wanted'[c].expected
           /\ period'[Client(c)] = Buffered(wanted'[c].supplied)
           /\ \A t \in Timers \ TimersOf(c) :
                UNCHANGED <<stream[t], period[t], commands[t], resetter[t]>>
           /\ UNCHANGED <<task, fired, left>>
<1>1. PICK expected \in Expected, supplied \in Supplied :
        /\ Connect(c)
        /\ CreateTimers([t \in TimersOf(c) |->
                           IF t = Server(c) THEN expected ELSE Buffered(supplied)])
        /\ wanted' = [wanted EXCEPT ![c] = [expected |-> expected, supplied |-> supplied]]
        /\ Noted(c, TRUE)
  BY DEF TimedConnect
<1> DEFINE ps == [t \in TimersOf(c) |-> IF t = Server(c) THEN expected ELSE Buffered(supplied)]
<1>2. /\ DOMAIN ps = TimersOf(c) /\ TimersOf(c) \in SUBSET Timers
      /\ Server(c) \in TimersOf(c) /\ Client(c) \in TimersOf(c) /\ Server(c) # Client(c)
      /\ ps[Server(c)] = expected /\ ps[Client(c)] = Buffered(supplied)
      /\ \A t \in DOMAIN ps : t \in Timers /\ ps[t] \in Periods
  BY OwnPair, IntervalsAssumption DEF TimersOf
<1>3. CreateTimers(ps)
  BY <1>1
<1> HIDE DEF ps
<1>4. /\ ChainInv'
      /\ \A t \in DOMAIN ps :
           /\ stream[t] = "absent" /\ stream'[t] = "unpolled"
           /\ period'[t] = ps[t] /\ commands'[t] = NewChannel /\ resetter'[t]
      /\ \A t \in Timers \ DOMAIN ps :
           /\ stream'[t] = stream[t] /\ period'[t] = period[t]
           /\ commands'[t] = commands[t] /\ resetter'[t] = resetter[t]
      /\ UNCHANGED <<task, fired, left>>
  BY <1>2, <1>3, CreateEffect DEF TimedTypes
<1>5. commands' \in [Timers -> ChannelOf({Reset})]
  <2>1. NewChannel \in ChannelOf({Reset})
    BY EmptyChannels
  <2>2. commands' \in [Timers -> ChannelOf(Command)]
    BY <1>4 DEF ChainInv, TimerTypeOK
  <2>3. \A t \in Timers : commands'[t] \in ChannelOf({Reset})
    BY <1>4, <2>1 DEF TimedTypes
  <2> QED
    BY <2>2, <2>3
<1>6. /\ wanted' \in [Clients -> [expected : Expected \cup {0}, supplied : Supplied \cup {0}]]
      /\ wanted'[c] = [expected |-> expected, supplied |-> supplied]
      /\ \A x \in Clients \ {c} : wanted'[x] = wanted[x]
  BY <1>1 DEF TimedTypes
<1>7. phase'[c] = "alive" /\ listener'[c] = "waiting" /\ OpenStep(c)
  BY <1>1 DEF Connect, OpenStep, SessionStep, TimedTypes, TypeOK, SessionTypeOK
<1>8. out' # out
  <2>1. out[c] \in Seq(Frame) /\ out'[c] = Append(out[c], CONNECTED)
    BY <1>1 DEF Connect, Emit, TimedTypes, TypeOK, SessionTypeOK
  <2>2. Len(out'[c]) = Len(out[c]) + 1 /\ Len(out[c]) \in Nat
    BY <2>1
  <2> QED
    BY <2>2
<1> QED
  BY <1>1, <1>2, <1>4, <1>5, <1>6, <1>7, <1>8

\* Every step of a client or of a timer of its keeps types, and leaves the
\* other clients alone.
LEMMA TimedStepTypes ==
    ASSUME TimedTypes, NEW c \in Clients, TimedStep(c)
    PROVE  TimedTypes' /\ Elsewhere(c)
<1> DEFINE SessionSide == /\ TypeOK'
                          /\ \A x \in Clients \ {c} : UNCHANGED <<phase[x], listener[x], inbox[x]>>
           TimerSide == /\ ChainInv' /\ commands' \in [Timers -> ChannelOf({Reset})]
                        /\ \A t \in Timers \ TimersOf(c) :
                             UNCHANGED <<stream[t], task[t], fired[t], period[t], left[t],
                                         commands[t], resetter[t]>>
           ClockSide == /\ unread' \in [Clients -> Nat] /\ unwritten' \in [Clients -> Nat]
                        /\ punctual' = punctual
                        /\ \A x \in Clients \ {c} : UNCHANGED <<unread[x], unwritten[x]>>
           WantedSide == /\ wanted' \in [Clients -> [expected : Expected \cup {0},
                                                     supplied : Supplied \cup {0}]]
                         /\ \A x \in Clients \ {c} : wanted'[x] = wanted[x]
<1>1. /\ TypeOK /\ ChainInv /\ commands \in [Timers -> ChannelOf({Reset})]
      /\ wanted \in [Clients -> [expected : Expected \cup {0}, supplied : Supplied \cup {0}]]
      /\ unread \in [Clients -> Nat] /\ unwritten \in [Clients -> Nat]
      /\ punctual \in [Clients -> BOOLEAN]
  BY DEF TimedTypes
<1>2. SessionPart(c) => SessionSide
  BY <1>1, SessionPartEffect
<1>3. \A heard \in BOOLEAN : Noted(c, heard) => ClockSide
  BY NotedEffect
<1>4. UNCHANGED clocks => ClockSide
  BY <1>1 DEF clocks
<1>5. UNCHANGED wanted => WantedSide
  BY <1>1
<1>6. UNCHANGED timerVars => TimerSide
  BY <1>1 DEF timerVars, ChainInv, TimerTypeOK, HandedOver
<1>7. ASSUME NEW t \in TimersOf(c),
             \/ Initialise(t) \/ FirstPollPending(t) \/ FirstPollReady(t) \/ PollExistingTask(t)
             \/ NextAndDrop(t) \/ TaskStep(t)
      PROVE  TimerSide
  <2>1. t \in Timers
    BY OwnPair
  <2>2. ChainInv'
    BY <1>1, <1>7, <2>1, PollChain, NextAndDropChain, TaskChain
  <2>3. commands' \in [Timers -> ChannelOf({Reset})]
    BY <1>1, <1>7, <2>1, TaskResets
       DEF Initialise, FirstPollPending, FirstPollReady, PollExistingTask, NextAndDrop
  <2>4. \A u \in Timers \ TimersOf(c) :
          UNCHANGED <<stream[u], task[u], fired[u], period[u], left[u], commands[u], resetter[u]>>
    BY <1>1, <1>7, <2>1, OneTimer
  <2> QED
    BY <2>2, <2>3, <2>4
<1>8. SessionSide /\ TimerSide /\ ClockSide /\ WantedSide
  <2>1. CASE TimedConnect(c)
    <3>1. SessionPart(c) /\ Noted(c, TRUE) /\ TimerSide /\ WantedSide
      BY <2>1, ConnectEffect DEF SessionPart
    <3> QED
      BY <1>2, <1>3, <3>1
  <2>2. CASE TimedReject(c)
    <3>1. SessionPart(c) /\ Noted(c, TRUE) /\ UNCHANGED timerVars /\ UNCHANGED wanted
      BY <2>2 DEF TimedReject, SessionPart, OpenStep, SessionStep
    <3> QED
      BY <1>2, <1>3, <1>5, <1>6, <3>1
  <2>3. ASSUME NEW resets \in SUBSET TimersOf(c), NEW heard \in BOOLEAN,
               ResettingStep(c, resets, heard)
        PROVE  SessionSide /\ TimerSide /\ ClockSide /\ WantedSide
    <3>1. SessionPart(c) /\ Noted(c, heard) /\ WithTimers(c, resets)
      BY <2>3 DEF ResettingStep
    <3>2. ChainInv' /\ commands' \in [Timers -> ChannelOf({Reset})] /\ TimersKept(c, resets)
      BY <1>1, <2>3, <3>1, WithTimersEffect, Zenon
    <3>3. TimerSide
      BY <3>2 DEF TimersOf, TimersKept
    <3> QED
      BY <1>2, <1>3, <1>5, <3>1, <3>2, <3>3 DEF TimersKept
  <2>4. CASE TimedAfterEnd(c) \/ TimedCallback(c)
    <3>1. SessionPart(c) /\ UNCHANGED timerVars /\ UNCHANGED wanted /\ UNCHANGED clocks
      BY <2>4 DEF TimedAfterEnd, TimedCallback, SessionPart, OpenStep, SessionStep
    <3> QED
      BY <1>2, <1>4, <1>5, <1>6, <3>1
  <2>5. CASE TimedHeartbeat(c)
    <3>1. SessionPart(c) /\ PollExistingTask(Server(c)) /\ Noted(c, FALSE) /\ UNCHANGED wanted
      BY <2>5 DEF TimedHeartbeat, SessionPart, OpenStep, SessionStep
    <3> QED
      BY <1>2, <1>3, <1>5, <1>7, <3>1 DEF TimersOf
  <2>6. CASE FirstPoll(c)
    <3>1. SessionPart(c) /\ UNCHANGED wanted /\ UNCHANGED clocks
      BY <2>6 DEF FirstPoll, SessionPart
    <3>2. TimerSide
      BY <1>7, <2>6 DEF FirstPoll
    <3> QED
      BY <1>2, <1>4, <1>5, <3>1, <3>2
  <2>7. CASE TimedMiss(c)
    <3>1. SessionPart(c) /\ NextAndDrop(Client(c)) /\ UNCHANGED wanted /\ UNCHANGED clocks
      BY <2>7 DEF TimedMiss, SessionPart, OpenStep, SessionStep
    <3> QED
      BY <1>2, <1>4, <1>5, <1>7, <3>1 DEF TimersOf
  <2>8. CASE \E t \in TimersOf(c) : TimedTask(t)
    <3>1. SessionPart(c) /\ UNCHANGED wanted /\ UNCHANGED clocks
      BY <2>8 DEF TimedTask, SessionPart
    <3>2. TimerSide
      BY <1>7, <2>8 DEF TimedTask
    <3> QED
      BY <1>2, <1>4, <1>5, <3>1, <3>2
  <2> QED
    BY <2>1, <2>2, <2>3, <2>4, <2>5, <2>6, <2>7, <2>8 DEF TimedStep
<1>9. TimedTypes'
  BY <1>1, <1>8 DEF TimedTypes
<1>10. Elsewhere(c)
  <2>1. ASSUME NEW x \in Clients \ {c}
        PROVE  /\ UNCHANGED <<phase[x], listener[x], inbox[x], wanted[x]>>
               /\ UNCHANGED <<unread[x], unwritten[x], punctual[x]>>
    BY <1>8
  <2>2. ASSUME NEW x \in Clients \ {c}, NEW t \in TimersOf(x)
        PROVE  UNCHANGED <<stream[t], task[t], fired[t], period[t], left[t], commands[t], resetter[t]>>
    BY <1>8, OtherTimers
  <2> QED
    BY <2>1, <2>2 DEF Elsewhere
<1> QED
  BY <1>9, <1>10

\* A session's phase goes forward, and its listener is done at most once; only
\* CONNECT opens a session.
LEMMA PhaseForward ==
    ASSUME TypeOK, NEW c \in Clients, SessionPart(c)
    PROVE  /\ phase[c] # "connecting" => phase'[c] # "connecting"
           /\ phase[c] \notin {"connecting", "alive"} => phase'[c] \notin {"connecting", "alive"}
<1> DEFINE Forward == /\ phase[c] # "connecting" => phase'[c] # "connecting"
                      /\ phase[c] \notin {"connecting", "alive"} =>
                           phase'[c] \notin {"connecting", "alive"}
<1> USE DEF TypeOK, SessionTypeOK
<1>1. CASE Connect(c) \/ Reject(c)
  BY <1>1 DEF Connect, Reject, End
<1>2. CASE BadFrame(c) \/ \E s \in SubIds : UnknownUnsubscribe(c, s)
  BY <1>2 DEF BadFrame, UnknownUnsubscribe
<1>3. CASE Disconnect(c) \/ UnhandledFrame(c) \/ EndOfStream(c)
  BY <1>3 DEF Disconnect, UnhandledFrame, EndOfStream, End
<1>4. CASE HandleEvent(c)
  BY <1>4 DEF HandleEvent, OnSubscribed, OnUnsubscribed, OnServerMessage, OnError, OnClose, End
<1>5. CASE Heartbeat(c) \/ MissHeartbeat(c) \/ SinkFails(c) \/ LingerEnds(c)
  BY <1>5 DEF Heartbeat, MissHeartbeat, SinkFails, LingerEnds, End
<1>6. CASE ToDestination(c)
  BY <1>6 DEF ToDestination, SubscribeFrame, SendFrame, UnsubscribeFrame
<1>7. ASSUME NEW e \in active[c], UnsubscribePanic(c, e)
      PROVE  Forward
  BY <1>7 DEF UnsubscribePanic, End
<1>8. CASE Callback(c)
  BY <1>8 DEF Callback, sessionVars
<1>9. CASE UNCHANGED vars
  BY <1>9 DEF vars, sessionVars
<1> QED
  BY <1>1, <1>2, <1>3, <1>4, <1>5, <1>6, <1>7, <1>8, <1>9 DEF OpenStep, SessionStep, SessionPart

\* At first no client has a timer.
LEMMA NoClients == TimedInit => TimedInv
<1> SUFFICES ASSUME TimedInit PROVE TimedInv
  OBVIOUS
<1>1. TypeOK
  BY InitSessionTypes DEF TimedInit
<1>2. ChainInv
  BY NoTimers DEF TimedInit
<1>3. commands \in [Timers -> ChannelOf({Reset})]
  <2>1. Dropped \in ChannelOf({Reset})
    BY EmptyChannels
  <2> QED
    BY <2>1 DEF TimedInit, TimerInit
<1>4. TimedTypes
  BY <1>1, <1>2, <1>3 DEF TimedTypes, TimedInit
<1>5. ASSUME NEW c \in Clients
      PROVE  OwnTimers(c)
  <2>1. Server(c) \in Timers /\ Client(c) \in Timers
    BY OwnPair
  <2>2. phase[c] = "connecting" /\ listener[c] = "idle"
    BY DEF TimedInit, Init, SessionInit
  <2>3. wanted[c].supplied = 0
    BY DEF TimedInit
  <2> QED
    BY <2>1, <2>2, <2>3 DEF OwnTimers, TimedInit, TimerInit
<1> QED
  BY <1>4, <1>5 DEF TimedInv

\* A step that changes neither streams nor resetters, nor what a client's
\* timers depend on.
LEMMA SameOwners ==
    ASSUME NEW c \in Clients, OwnTimers(c),
           UNCHANGED <<stream, period, resetter>>,
           UNCHANGED <<phase[c], listener[c], wanted[c]>>
    PROVE  OwnTimers(c)'
BY DEF OwnTimers, Server, Client

\* A client's timers remain its session's and its listener's, whatever the
\* client, the session, the listener or the timers do.
LEMMA StepKeepsTimers ==
    ASSUME TimedInv, NEW c \in Clients, TimedStep(c)
    PROVE  OwnTimers(c)'
<1>1. /\ TimedTypes /\ OwnTimers(c) /\ TypeOK /\ ChainInv
      /\ commands \in [Timers -> ChannelOf({Reset})]
  BY DEF TimedInv, TimedTypes
<1>2. Server(c) \in Timers /\ Client(c) \in Timers /\ Server(c) # Client(c)
      /\ TimersOf(c) \in SUBSET Timers
      /\ Server(c) \in TimersOf(c) /\ Client(c) \in TimersOf(c)
  BY OwnPair DEF TimersOf
<1>3. /\ stream \in [Timers -> StreamState] /\ phase \in [Clients -> Phase]
      /\ listener \in [Clients -> {"idle", "waiting", "done"}]
  BY <1>1 DEF ChainInv, TimerTypeOK, TypeOK, SessionTypeOK
<1>4. CASE TimedConnect(c)
  <2>1. /\ phase'[c] = "alive" /\ listener'[c] = "waiting"
        /\ \A t \in TimersOf(c) : stream'[t] = "unpolled" /\ resetter'[t]
        /\ period'[Server(c)] = wanted'[c].expected
        /\ period'[Client(c)] = Buffered(wanted'[c].supplied)
    BY <1>1, <1>4, ConnectEffect
  <2> QED
    BY <1>2, <2>1 DEF OwnTimers, Server, Client
<1>5. CASE TimedReject(c)
  <2>1. /\ phase[c] = "connecting" /\ phase'[c] = "lingering" /\ listener' = listener
        /\ UNCHANGED <<stream, period, resetter, wanted>>
    BY <1>3, <1>5 DEF TimedReject, Reject, End, timerVars
  <2> QED
    BY <1>1, <2>1 DEF OwnTimers, Server, Client
<1>6. ASSUME NEW resets \in SUBSET TimersOf(c), NEW heard \in BOOLEAN,
             ResettingStep(c, resets, heard)
      PROVE  OwnTimers(c)'
  <2>1. phase[c] = "alive" /\ listener' = listener /\ SessionPart(c) /\ WithTimers(c, resets)
    BY <1>6 DEF ResettingStep
  <2>2. TimersKept(c, resets)
    BY <1>1, <1>6, <2>1, WithTimersEffect, Zenon
  <2>3. phase'[c] # "connecting"
    BY <1>1, <2>1, PhaseForward
  <2>4. CASE phase'[c] = "alive"
    <3>1. \A t \in TimersOf(c) : UNCHANGED <<stream[t], period[t], resetter[t]>>
      BY <1>2, <2>2, <2>4 DEF TimersKept
    <3>2. UNCHANGED <<phase[c], listener[c], wanted[c]>>
      BY <2>1, <2>2, <2>4 DEF TimersKept
    <3> QED
      BY <1>1, <3>1, <3>2, OwnFrame
  <2>5. CASE phase'[c] # "alive"
    <3>1. /\ stream'[Server(c)] = "dropped" /\ stream'[Client(c)] = stream[Client(c)]
          /\ UNCHANGED <<period, wanted>>
      BY <1>2, <2>2, <2>5 DEF TimersKept
    <3> QED
      BY <1>1, <2>1, <2>3, <2>5, <3>1 DEF OwnTimers, Server, Client
  <2> QED
    BY <2>4, <2>5
<1>7. CASE TimedAfterEnd(c) \/ TimedCallback(c)
  <2>1. /\ phase[c] # "connecting" /\ listener' = listener /\ SessionPart(c)
        /\ UNCHANGED <<stream, period, resetter, wanted>>
        /\ phase'[c] = phase[c] \/ phase[c] = "lingering"
    BY <1>7 DEF TimedAfterEnd, TimedCallback, LingerEnds, SinkFails, Callback, sessionVars,
                timerVars, SessionPart, OpenStep, SessionStep
  <2>2. phase[c] \notin {"connecting", "alive"} => phase'[c] \notin {"connecting", "alive"}
    BY <1>1, <2>1, PhaseForward
  <2> QED
    BY <1>1, <2>1, <2>2 DEF OwnTimers, Server, Client
<1>8. CASE TimedHeartbeat(c)
  <2>1. /\ UNCHANGED <<phase, listener, wanted>>
        /\ UNCHANGED <<stream, period, resetter>>
    BY <1>8 DEF TimedHeartbeat, Heartbeat, PollExistingTask
  <2> QED
    BY <1>1, <2>1, SameOwners
<1>9. CASE FirstPoll(c)
  <2>1. /\ UNCHANGED <<phase, listener, wanted>> /\ UNCHANGED <<period, resetter>>
    BY <1>9 DEF FirstPoll, Initialise, FirstPollPending, FirstPollReady, vars, sessionVars
  <2>2. \/ /\ stream[Client(c)] \in {"unpolled", "initialising"}
           /\ stream'[Client(c)] \in {"initialising", "held"}
           /\ stream'[Server(c)] = stream[Server(c)]
        \/ /\ phase[c] = "alive" \/ stream[Server(c)] = "initialising"
           /\ stream'[Server(c)] \in {"initialising", "held", "ended"}
           /\ stream'[Client(c)] = stream[Client(c)]
    BY <1>2, <1>3, <1>9 DEF FirstPoll, TimersOf, Initialise, FirstPollPending, FirstPollReady
  <2> QED
    BY <1>1, <1>3, <2>1, <2>2 DEF OwnTimers, Server, Client
<1>10. CASE TimedMiss(c)
  <2>1. /\ UNCHANGED <<phase, wanted, period, resetter>>
        /\ listener[c] = "waiting" /\ listener'[c] = "done"
        /\ stream'[Client(c)] = "dropped" /\ stream'[Server(c)] = stream[Server(c)]
    BY <1>2, <1>3, <1>10 DEF TimedMiss, MissHeartbeat, NextAndDrop
  <2> QED
    BY <1>1, <2>1 DEF OwnTimers, Server, Client
<1>11. ASSUME NEW t \in TimersOf(c), TimedTask(t)
       PROVE  OwnTimers(c)'
  <2>1. TaskStep(t) /\ UNCHANGED <<phase, listener, wanted>> /\ t \in Timers
    BY <1>2, <1>11 DEF TimedTask, vars, sessionVars
  <2>2. period' = period
    BY <1>1, <2>1, TaskResets
  <2>3. UNCHANGED <<stream, resetter>>
    BY <2>1 DEF TaskStep, Start, HandleCommand, ResetterGone, Expire, ExpireAlone, Cancel
  <2> QED
    BY <1>1, <2>1, <2>2, <2>3, SameOwners
<1> QED
  BY <1>4, <1>5, <1>6, <1>7, <1>8, <1>9, <1>10, <1>11 DEF TimedStep

\* Every step is one of a client and its timers, or a tick of the clock.
LEMMA TimedSteps ==
    ASSUME TimedTypes, TimedNext
    PROVE  (\E c \in Clients : TimedStep(c)) \/ Tick
<1>1. ASSUME NEW c \in Clients,
             \/ TimedConnect(c) \/ TimedReject(c) \/ TimedFrame(c) \/ ClientHeartbeat(c)
             \/ TimedEvent(c) \/ TimedEnd(c) \/ TimedAfterEnd(c)
             \/ TimedHeartbeat(c) \/ FirstPoll(c) \/ TimedMiss(c) \/ TimedCallback(c)
      PROVE  TimedStep(c)
  <2>1. CASE TimedFrame(c) \/ ClientHeartbeat(c) \/ TimedEvent(c) \/ TimedEnd(c)
    <3>1. PICK resets \in SUBSET TimersOf(c), heard \in BOOLEAN : ResettingStep(c, resets, heard)
      BY <2>1, Resetting DEF TimersOf
    <3> QED
      BY <3>1 DEF TimedStep
  <2> QED
    BY <1>1, <2>1 DEF TimedStep
<1>2. ASSUME NEW t \in Timers, TimedTask(t)
      PROVE  \E c \in Clients : TimedStep(c)
  <2>1. PICK c \in Clients : t \in TimersOf(c)
    BY TimersAssumption DEF Server, Client, TimersOf, SessionTimers
  <2> QED
    BY <1>2, <2>1 DEF TimedStep
<1> QED
  BY <1>1, <1>2 DEF TimedNext

\* The clocks count further than any period.
LEMMA OldestPeriod == Oldest \in Nat /\ \A n \in Periods : n < Oldest
<1> DEFINE longest == CHOOSE n \in Periods : \A k \in Periods : k <= n
<1>1. \E n \in Periods : \A k \in Periods : k <= n
  BY IntervalsAssumption
<1>2. longest \in Periods /\ \A k \in Periods : k <= longest
  BY <1>1, Zenon
<1>3. Oldest = longest + 1
  BY DEF Oldest
<1> HIDE DEF longest
<1> QED
  BY <1>2, <1>3, PeriodsAssumption

\* The clock concerns neither streams nor resetters.
LEMMA TickKeepsTimers ==
    ASSUME TimedInv, Tick
    PROVE  TimedInv'
<1>1. Elapse /\ UNCHANGED <<vars, wanted>>
  BY DEF Tick
<1>2. ChainInv' /\ UNCHANGED <<stream, period, resetter, commands>>
  BY <1>1, TickChain DEF TimedInv, TimedTypes, Elapse
<1>3. TypeOK'
  BY <1>1 DEF TimedInv, TimedTypes, TypeOK, ProxyTypeOK, SessionTypeOK, vars, sessionVars
<1>4. Oldest \in Nat
  BY OldestPeriod
<1>5. /\ unread' \in [Clients -> Nat] /\ unwritten' \in [Clients -> Nat]
      /\ punctual' \in [Clients -> BOOLEAN]
  <2>1. \A age \in Nat : Older(age) \in Nat
    BY <1>4 DEF Older
  <2>2. \A c \in Clients : punctual'[c] \in BOOLEAN
    BY DEF Tick, TimedInv, TimedTypes
  <2>3. punctual' \in [Clients -> BOOLEAN]
    BY <2>2 DEF Tick
  <2> QED
    BY <2>1, <2>3 DEF Tick, TimedInv, TimedTypes
<1>6. TimedTypes'
  BY <1>1, <1>2, <1>3, <1>5 DEF TimedTypes, TimedInv
<1>7. ASSUME NEW c \in Clients
      PROVE  OwnTimers(c)'
  BY <1>1, <1>2, SameOwners DEF TimedInv, vars, sessionVars
<1> QED
  BY <1>6, <1>7 DEF TimedInv

\* So does every step, of whichever client.
LEMMA StepKeepsAllTimers ==
    ASSUME TimedInv, NEW c \in Clients, TimedStep(c)
    PROVE  TimedInv'
<1>1. TimedTypes' /\ Elsewhere(c)
  BY TimedStepTypes DEF TimedInv
<1>2. ASSUME NEW x \in Clients
      PROVE  OwnTimers(x)'
  <2>1. CASE x = c
    BY <2>1, StepKeepsTimers
  <2>2. CASE x # c
    <3>1. /\ UNCHANGED <<phase[x], listener[x], wanted[x]>>
          /\ \A t \in TimersOf(x) : UNCHANGED <<stream[t], period[t], resetter[t]>>
      BY <1>1, <2>2 DEF Elsewhere
    <3> QED
      BY <3>1, OwnFrame DEF TimedInv
  <2> QED
    BY <2>1, <2>2
<1> QED
  BY <1>1, <1>2 DEF TimedInv

\* Nothing happens at all.
LEMMA StutterKeepsTimers ==
    ASSUME TimedInv, UNCHANGED timedVars
    PROVE  TimedInv'
<1>1. /\ UNCHANGED <<stream, task, fired, period, left, commands, resetter>>
      /\ UNCHANGED <<wanted, unread, unwritten, punctual>> /\ UNCHANGED vars
      /\ UNCHANGED <<phase, listener>>
  BY DEF timedVars, timerVars, clocks, vars, sessionVars
<1>2. TimedTypes'
  BY <1>1 DEF TimedInv, TimedTypes, ChainInv, TimerTypeOK, HandedOver,
              vars, sessionVars, TypeOK, ProxyTypeOK, SessionTypeOK
<1>3. ASSUME NEW c \in Clients
      PROVE  OwnTimers(c)'
  BY <1>1, SameOwners DEF TimedInv
<1> QED
  BY <1>2, <1>3 DEF TimedInv

\* Both timers of a client belong to its session and its listener, and have
\* the periods of the heart-beat header (client.rs:541-613).
THEOREM TimersOwned == TimedSpec => []TimedInv
<1>1. ASSUME TimedInv, [TimedNext]_timedVars
      PROVE  TimedInv'
  BY <1>1, TimedSteps, StepKeepsAllTimers, TickKeepsTimers, StutterKeepsTimers DEF TimedInv
<1> QED
  BY <1>1, NoClients, PTL DEF TimedSpec

\* ServerResetSucceeds: the expect behind a message to the client
\* (client.rs:375-377) does not fail, on any machine.
THEOREM ServerResets == TimedSpec => []ServerResetSucceeds
<1>1. TimedInv => ServerResetSucceeds
  <2> SUFFICES ASSUME TimedInv, NEW c \in Clients, phase[c] = "alive"
               PROVE  CanCommand(Server(c))
    BY DEF ServerResetSucceeds
  <2>1. HandedOver(Server(c))
    BY OwnPair DEF TimedInv, TimedTypes, ChainInv
  <2>2. /\ stream[Server(c)] \in {"unpolled", "initialising", "held", "ended"}
        /\ resetter[Server(c)]
    BY DEF TimedInv, OwnTimers
  <2> QED
    BY <2>1, <2>2 DEF HandedOver, CanCommand
<1> QED
  BY <1>1, TimersOwned, PTL

-----------------------------------------------------------------------------
(* Timers in time, on a prompt machine.                                    *)

\* What ends the session is in its channel.
Leaving(c) == Error \in Pending(inbox[c]) \/ Close \in Pending(inbox[c])

\* A listener that is done has told the session, and has left no task.
Reported(c) ==
    /\ phase[c] \in {"connecting", "alive"} => Alive(c)
    /\ listener[c] = "done" =>
         /\ phase[c] = "alive" => Leaving(c)
         /\ task[Client(c)] = "aborted" \/ (task[Client(c)] = "none" /\ ~CanCommand(Client(c)))

Timely(c) ==
    /\ Sleeping(Server(c)) /\ Sleeping(Client(c))
    /\ phase[c] = "alive" => InPace(Server(c), unwritten[c]) /\ InPace(Client(c), unread[c])
    /\ Reported(c)

\* An event that a destination or the listener sends joins those in the channel.
LEMMA InboxGrows ==
    ASSUME TypeOK, NEW c \in Clients, NEW e \in ClientEvent, SendEvent(c, e)
    PROVE  /\ Alive(c)' = Alive(c)
           /\ Leaving(c) => Leaving(c)'
           /\ Alive(c) => e \in Pending(inbox'[c])
<1>1. inbox[c] \in ChannelOf(ClientEvent) /\ inbox'[c] = Push(inbox[c], e)
  BY DEF SendEvent, TypeOK, ProxyTypeOK
<1>2. /\ Push(inbox[c], e).open = inbox[c].open
      /\ Pending(inbox[c]) \subseteq Pending(Push(inbox[c], e))
      /\ inbox[c].open => e \in Pending(Push(inbox[c], e))
  BY <1>1, PushProperties
<1> QED
  BY <1>1, <1>2 DEF Alive, Leaving

\* A session that goes on does not lose what will end it: Error becomes Close,
\* and Close is not taken without ending it (client.rs:328-390).
LEMMA LeavingStays ==
    ASSUME TypeOK, NEW c \in Clients, SessionPart(c), phase[c] = "alive", Alive(c),
           phase'[c] = "alive"
    PROVE  Alive(c)' /\ (Leaving(c) => Leaving(c)')
<1> DEFINE Stays == Alive(c)' /\ (Leaving(c) => Leaving(c)')
<1>1. /\ inbox[c] \in ChannelOf(ClientEvent) /\ Error \in ClientEvent /\ Close \in ClientEvent
      /\ inbox \in [Clients -> ChannelOf(ClientEvent)] /\ phase \in [Clients -> Phase]
  BY SimpleEventTypes DEF TypeOK, ProxyTypeOK, SessionTypeOK
<1>2. UNCHANGED inbox => Stays
  BY DEF Alive, Leaving
<1>3. ASSUME NEW e \in ClientEvent, SendEvent(c, e)
      PROVE  Stays
  BY <1>3, InboxGrows
<1>4. ~Reject(c) /\ ~Connect(c) /\ ~Disconnect(c) /\ ~UnhandledFrame(c) /\ ~EndOfStream(c)
      /\ ~OnClose(c) /\ ~SinkFails(c) /\ ~LingerEnds(c)
      /\ \A e \in active[c] : ~UnsubscribePanic(c, e)
  BY <1>1 DEF Reject, Connect, Disconnect, UnhandledFrame, EndOfStream, OnClose, SinkFails,
              LingerEnds, UnsubscribePanic, End
<1>5. CASE BadFrame(c) \/ \E s \in SubIds : UnknownUnsubscribe(c, s)
  BY <1>1, <1>3, <1>5 DEF BadFrame, UnknownUnsubscribe, Fail
<1>6. CASE HandleEvent(c)
  <2>1. Ready(inbox[c])
    BY <1>6 DEF HandleEvent, OnSubscribed, OnUnsubscribed, OnServerMessage, OnError, OnClose, Event
  <2>2. /\ Pop(inbox[c]) \in ChannelOf(ClientEvent)
        /\ Pop(inbox[c]).open = inbox[c].open
        /\ Pending(inbox[c]) \subseteq Pending(Pop(inbox[c])) \cup {NextEvent(c)}
    BY <1>1, <2>1, PopProperties DEF NextEvent
  <2>3. CASE OnError(c)
    <3>1. inbox'[c] = Push(Pop(inbox[c]), Close)
      BY <1>1, <2>3 DEF OnError
    <3>2. /\ Push(Pop(inbox[c]), Close).open = Pop(inbox[c]).open
          /\ Pop(inbox[c]).open => Close \in Pending(Push(Pop(inbox[c]), Close))
      BY <1>1, <2>2, PushProperties
    <3> QED
      BY <2>2, <3>1, <3>2 DEF Alive, Leaving
  <2>4. CASE OnSubscribed(c) \/ OnUnsubscribed(c) \/ OnServerMessage(c)
    <3>1. inbox'[c] = Pop(inbox[c])
      BY <1>1, <2>4 DEF OnSubscribed, OnUnsubscribed, OnServerMessage, TakeEvent
    <3>2. NextEvent(c) # Error /\ NextEvent(c) # Close
      BY <2>4 DEF OnSubscribed, OnUnsubscribed, OnServerMessage, Event, Error, Close
    <3> QED
      BY <2>2, <3>1, <3>2 DEF Alive, Leaving
  <2> QED
    BY <1>4, <1>6, <2>3, <2>4 DEF HandleEvent
<1>7. CASE Heartbeat(c) \/ ToDestination(c) \/ UNCHANGED vars
  BY <1>2, <1>7 DEF Heartbeat, ToDestination, vars
<1>8. CASE MissHeartbeat(c)
  BY <1>1, <1>3, <1>8 DEF MissHeartbeat
<1>9. CASE Callback(c)
  <2>1. PICK e \in ClientEvent : SendEvent(c, e)
    BY <1>9, CallbackTypes DEF Callback
  <2> QED
    BY <1>3, <2>1
<1> QED
  BY <1>4, <1>5, <1>6, <1>7, <1>8, <1>9 DEF SessionPart, OpenStep, SessionStep

\* A timer that nobody touches stays as it is.
LEMMA SleepingFrame ==
    ASSUME NEW t \in Timers, Sleeping(t),
           UNCHANGED <<stream[t], task[t], fired[t], period[t], left[t], commands[t], resetter[t]>>
    PROVE  Sleeping(t)'
BY DEF Sleeping

\* Nor does its pace change.
LEMMA PacedFrame ==
    ASSUME NEW t \in Timers, NEW n, InPace(t, n),
           UNCHANGED <<stream[t], task[t], fired[t], period[t], left[t], commands[t]>>
    PROVE  InPace(t, n)'
BY DEF InPace

\* A poll, a drop and a step of one timer of a client leave its other one alone.
LEMMA OtherTimerFrame ==
    ASSUME TimedInv, NEW c \in Clients, NEW t \in TimersOf(c), NEW u \in TimersOf(c) \ {t},
           \/ Initialise(t) \/ FirstPollPending(t) \/ FirstPollReady(t) \/ PollExistingTask(t)
           \/ NextAndDrop(t) \/ TaskStep(t)
    PROVE  UNCHANGED <<stream[u], task[u], fired[u], period[u], left[u], commands[u], resetter[u]>>
<1>1. t \in Timers /\ u \in Timers \ {t} /\ ChainInv
  BY OwnPair DEF TimedInv, TimedTypes
<1> QED
  BY <1>1, OneTimer

\* Both timers go on sleeping, whatever a client, its session, its listener or
\* the timers themselves do.
LEMMA StepKeepsSleep ==
    ASSUME TimedInv, NEW c \in Clients, Timely(c), TimedStep(c)
    PROVE  Sleeping(Server(c))' /\ Sleeping(Client(c))'
<1> DEFINE Goal == Sleeping(Server(c))' /\ Sleeping(Client(c))'
<1>1. /\ TimedTypes /\ OwnTimers(c) /\ ChainInv /\ TimerTypeOK
      /\ commands \in [Timers -> ChannelOf({Reset})]
      /\ Sleeping(Server(c)) /\ Sleeping(Client(c))
  BY DEF TimedInv, TimedTypes, Timely, ChainInv
<1>2. /\ Server(c) \in Timers /\ Client(c) \in Timers /\ Server(c) # Client(c)
      /\ TimersOf(c) = {Server(c), Client(c)}
  BY OwnPair DEF TimersOf
<1>3. UNCHANGED timerVars => Goal
  BY <1>1, <1>2, SleepingFrame DEF timerVars
<1>4. ASSUME NEW t \in TimersOf(c),
             \/ Initialise(t) \/ FirstPollPending(t) \/ FirstPollReady(t) \/ PollExistingTask(t)
             \/ NextAndDrop(t) \/ TaskStep(t)
      PROVE  Goal
  <2>1. Sleeping(t)'
    BY <1>1, <1>2, <1>4, SleepingPoll, SleepingTask
  <2>2. ASSUME NEW u \in TimersOf(c) \ {t}
        PROVE  Sleeping(u)'
    BY <1>1, <1>2, <1>4, <2>2, OtherTimerFrame, SleepingFrame
  <2> QED
    BY <1>2, <2>1, <2>2
<1>5. CASE TimedConnect(c)
  <2>1. \A t \in TimersOf(c) : stream[t] = "absent" /\ stream'[t] = "unpolled"
    BY <1>1, <1>5, ConnectEffect
  <2>2. fired' = fired
    BY <1>1, <1>5, ConnectEffect
  <2> QED
    BY <1>1, <1>2, <2>1, <2>2 DEF Sleeping
<1>6. ASSUME NEW resets \in SUBSET TimersOf(c), NEW heard \in BOOLEAN,
             ResettingStep(c, resets, heard)
      PROVE  Goal
  <2>1. phase[c] = "alive" /\ WithTimers(c, resets)
    BY <1>6 DEF ResettingStep
  <2>2. TimersKept(c, resets)
    BY <1>1, <1>6, <2>1, WithTimersEffect, Zenon
  <2>3. ASSUME NEW t \in TimersOf(c), t # Server(c) \/ phase'[c] = "alive"
        PROVE  Sleeping(t)'
    <3>1. UNCHANGED <<stream[t], task[t], fired[t], period[t], left[t]>>
      BY <1>2, <2>2, <2>3 DEF TimersKept
    <3>2. resetter[t] /\ Sleeping(t)
      BY <1>1, <1>2, <2>1 DEF OwnTimers
    <3> QED
      BY <3>1, <3>2 DEF Sleeping
  <2>4. phase'[c] # "alive" => Sleeping(Server(c))'
    BY <2>2 DEF TimersKept, Sleeping
  <2> QED
    BY <1>2, <2>3, <2>4
<1> QED
  BY <1>2, <1>3, <1>4, <1>5, <1>6
     DEF TimedStep, TimedReject, TimedAfterEnd, TimedCallback, TimedHeartbeat, FirstPoll,
         TimedMiss, TimedTask

\* So does their pace: every frame or heartbeat of the client, and every
\* message and heartbeat to it, resets the timer that waits for the next.
LEMMA StepKeepsPace ==
    ASSUME TimedInv, NEW c \in Clients, Timely(c), TimedStep(c), phase'[c] = "alive"
    PROVE  InPace(Server(c), unwritten[c])' /\ InPace(Client(c), unread[c])'
<1> DEFINE Goal == InPace(Server(c), unwritten[c])' /\ InPace(Client(c), unread[c])'
<1>1. /\ TimedTypes /\ OwnTimers(c) /\ ChainInv /\ TimerTypeOK /\ TypeOK
      /\ commands \in [Timers -> ChannelOf({Reset})]
      /\ Sleeping(Server(c)) /\ Sleeping(Client(c))
      /\ Sleeping(Server(c))' /\ Sleeping(Client(c))'
  BY StepKeepsSleep DEF TimedInv, TimedTypes, Timely, ChainInv
<1>2. /\ Server(c) \in Timers /\ Client(c) \in Timers /\ Server(c) # Client(c)
      /\ TimersOf(c) = {Server(c), Client(c)}
  BY OwnPair DEF TimersOf
<1>3. PICK w \in Nat, r \in Nat : w = unwritten[c] /\ r = unread[c]
  BY <1>1 DEF TimedTypes
<1>4. \A t \in TimersOf(c) : period[t] \in Nat /\ left[t] \in Nat
  BY <1>1, <1>2, PeriodsAssumption DEF TimerTypeOK
<1>5. phase[c] = "alive" => InPace(Server(c), w) /\ InPace(Client(c), r)
  BY <1>3 DEF Timely
<1>6. UNCHANGED clocks /\ InPace(Server(c), w)' /\ InPace(Client(c), r)' => Goal
  BY <1>3 DEF clocks, InPace
<1>7. ASSUME UNCHANGED timerVars, UNCHANGED clocks, phase[c] = "alive"
      PROVE  Goal
  BY <1>2, <1>5, <1>6, <1>7, PacedFrame DEF timerVars
<1>8. CASE TimedConnect(c)
  <2>1. /\ \A t \in TimersOf(c) : stream'[t] = "unpolled"
        /\ Noted(c, TRUE) /\ out' # out
    BY <1>1, <1>8, ConnectEffect
  <2>2. unread'[c] = 0 /\ unwritten'[c] = 0
    BY <1>1, <2>1, NotedEffect
  <2>3. ChainInv'
    BY <1>1, <1>8, ConnectEffect
  <2>4. \A t \in TimersOf(c) : period'[t] \in Nat
    BY <1>2, <2>3, PeriodsAssumption DEF ChainInv, TimerTypeOK
  <2> QED
    BY <1>2, <2>1, <2>2, <2>4 DEF InPace
<1>9. CASE TimedReject(c) \/ TimedAfterEnd(c)
  <2>1. phase'[c] # "alive"
    BY <1>1, <1>9 DEF TimedReject, TimedAfterEnd, Reject, End, LingerEnds, SinkFails, TypeOK,
                      SessionTypeOK
  <2> QED
    BY <2>1
<1>10. ASSUME NEW resets \in SUBSET TimersOf(c), NEW heard \in BOOLEAN,
              ResettingStep(c, resets, heard)
       PROVE  Goal
  <2>1. /\ phase[c] = "alive" /\ WithTimers(c, resets) /\ Noted(c, heard)
        /\ heard <=> Client(c) \in resets
        /\ Server(c) \in resets => out' # out
    BY <1>10 DEF ResettingStep
  <2>2. TimersKept(c, resets)
    BY <1>1, <1>10, <2>1, WithTimersEffect, Zenon
  <2>3. /\ unread'[c] = IF heard THEN 0 ELSE unread[c]
        /\ unwritten'[c] = IF out' = out THEN unwritten[c] ELSE 0
    BY <1>1, <2>1, NotedEffect
  <2>4. \A t \in TimersOf(c) :
          /\ UNCHANGED <<stream[t], task[t], fired[t], period[t], left[t]>>
          /\ t \notin resets => UNCHANGED commands[t]
    BY <1>2, <2>2 DEF TimersKept
  <2>5. InPace(Server(c), unwritten[c])'
    <3>1. CASE out' = out
      BY <1>2, <1>3, <1>5, <2>1, <2>3, <2>4, <3>1 DEF InPace
    <3>2. CASE out' # out
      BY <1>1, <1>2, <1>4, <2>3, <2>4, <3>2 DEF InPace, Sleeping
    <3> QED
      BY <3>1, <3>2
  <2>6. InPace(Client(c), unread[c])'
    <3>1. CASE ~heard
      BY <1>2, <1>3, <1>5, <2>1, <2>3, <2>4, <3>1 DEF InPace
    <3>2. CASE heard
      BY <1>1, <1>2, <1>4, <2>3, <2>4, <3>2 DEF InPace, Sleeping
    <3> QED
      BY <3>1, <3>2
  <2> QED
    BY <2>5, <2>6
<1>11. CASE TimedCallback(c)
  BY <1>7, <1>11 DEF TimedCallback, Callback, sessionVars
<1>12. CASE TimedHeartbeat(c)
  <2>1. phase[c] = "alive" /\ PollExistingTask(Server(c)) /\ Noted(c, FALSE) /\ Heartbeat(c)
    BY <1>12 DEF TimedHeartbeat, Heartbeat
  <2>2. unread'[c] = unread[c] /\ unwritten'[c] = 0
    <3>1. out' # out
      <4>1. out[c] \in Seq(Frame) /\ out'[c] = Append(out[c], HEARTBEAT)
        BY <1>1, <2>1 DEF Heartbeat, Emit, TypeOK, SessionTypeOK
      <4>2. Len(out'[c]) = Len(out[c]) + 1 /\ Len(out[c]) \in Nat
        BY <4>1
      <4> QED
        BY <4>2
    <3> QED
      BY <1>1, <2>1, <3>1, NotedEffect
  <2>3. InPace(Server(c), 0)'
    <3>1. /\ stream'[Server(c)] = "held"
          /\ UNCHANGED <<period[Server(c)], left[Server(c)]>>
      BY <2>1 DEF PollExistingTask, Emits
    <3>2. \/ task'[Server(c)] # "running"
          \/ left[Server(c)] <= period[Server(c)]
      BY <1>1, <3>1 DEF Sleeping
    <3> QED
      BY <1>2, <1>4, <3>1, <3>2 DEF InPace
  <2>4. InPace(Client(c), r)'
    <3>1. UNCHANGED <<stream[Client(c)], task[Client(c)], fired[Client(c)], period[Client(c)],
                      left[Client(c)], commands[Client(c)]>>
      BY <1>2, <2>1, OtherTimerFrame
    <3> QED
      BY <1>2, <1>5, <2>1, <3>1, PacedFrame
  <2> QED
    BY <1>3, <2>2, <2>3, <2>4 DEF InPace
<1>13. ASSUME NEW t \in TimersOf(c), phase[c] = "alive", UNCHANGED clocks,
              \/ Initialise(t) \/ FirstPollPending(t) \/ TaskStep(t)
              \/ t = Client(c) /\ NextAndDrop(t)
       PROVE  Goal
  <2>1. resetter[t] /\ t \in Timers /\ Sleeping(t)
    BY <1>1, <1>2, <1>13 DEF OwnTimers
  <2>2. ASSUME NEW n \in Nat, InPace(t, n)
        PROVE  InPace(t, n)'
    <3>1. CASE NextAndDrop(t)
      <4>1. stream'[t] = "dropped" /\ period'[t] = period[t]
        BY <1>1, <2>1, <3>1 DEF NextAndDrop, TimerTypeOK
      <4> QED
        BY <2>2, <4>1 DEF InPace
    <3> QED
      BY <1>1, <1>13, <2>1, <2>2, <3>1, PacedTask, PacedFirstPoll
  <2>3. ASSUME NEW u \in TimersOf(c) \ {t}, NEW n \in Nat, InPace(u, n)
        PROVE  InPace(u, n)'
    <3>1. /\ UNCHANGED <<stream[u], task[u], fired[u], period[u], left[u], commands[u]>>
          /\ u \in Timers
      BY <1>2, <1>13, OtherTimerFrame
    <3> QED
      BY <2>3, <3>1, PacedFrame
  <2> QED
    BY <1>2, <1>5, <1>6, <1>13, <2>2, <2>3
<1>14. CASE FirstPoll(c)
  <2>1. PICK t \in TimersOf(c) : Initialise(t) \/ FirstPollPending(t) \/ FirstPollReady(t)
    BY <1>14 DEF FirstPoll
  <2>2. ~FirstPollReady(t)
    BY <1>1, <1>2, <2>1, SleepingPoll
  <2>3. phase[c] = "alive" /\ UNCHANGED clocks
    BY <1>14 DEF FirstPoll, vars, sessionVars
  <2> QED
    BY <1>13, <2>1, <2>2, <2>3
<1>15. CASE TimedMiss(c)
  BY <1>2, <1>13, <1>15 DEF TimedMiss, MissHeartbeat
<1>16. CASE \E t \in TimersOf(c) : TimedTask(t)
  BY <1>13, <1>16 DEF TimedTask, vars, sessionVars
<1> QED
  BY <1>8, <1>9, <1>10, <1>11, <1>12, <1>14, <1>15, <1>16 DEF TimedStep

\* A command for a timer that is gone changes nothing.
LEMMA ClosedStaysClosed ==
    ASSUME NEW ch \in ChannelOf({Reset})
    PROVE  Push(ch, Reset).open = ch.open
<1>1. Reset \in {Reset}
  OBVIOUS
<1> QED
  BY ONLY <1>1, ch \in ChannelOf({Reset}), PushProperties

\* Once the listener has told the session that a heartbeat is missing, the
\* session does not forget it, and the listener's timer leaves no task: what
\* it drops is the successor that its task has spawned (client.rs:600-613).
LEMMA StepKeepsReport ==
    ASSUME TimedInv, NEW c \in Clients, Timely(c), TimedStep(c)
    PROVE  Reported(c)'
<1> DEFINE NoTaskLeft == task[Client(c)] = "aborted"
                         \/ (task[Client(c)] = "none" /\ ~CanCommand(Client(c)))
<1>1. /\ TimedTypes /\ OwnTimers(c) /\ ChainInv /\ TimerTypeOK /\ TypeOK
      /\ commands \in [Timers -> ChannelOf({Reset})]
      /\ Sleeping(Client(c)) /\ Reported(c)
  BY DEF TimedInv, TimedTypes, Timely, ChainInv
<1>2. /\ Server(c) \in Timers /\ Client(c) \in Timers /\ Server(c) # Client(c)
      /\ TimersOf(c) = {Server(c), Client(c)}
  BY OwnPair DEF TimersOf
<1>3. ASSUME UNCHANGED inbox, UNCHANGED <<phase, listener>>, NoTaskLeft => NoTaskLeft'
      PROVE  Reported(c)'
  BY <1>1, <1>3 DEF Reported, Leaving, Alive
<1>4. ASSUME UNCHANGED <<task[Client(c)], commands[Client(c)]>>
      PROVE  NoTaskLeft => NoTaskLeft'
  BY <1>4 DEF CanCommand, Client
<1>5. CASE TimedConnect(c)
  <2>1. Connect(c)
    BY <1>5 DEF TimedConnect
  <2> QED
    BY <1>1, <2>1 DEF Connect, Reported, Alive, TypeOK, SessionTypeOK
<1>6. CASE TimedReject(c) \/ TimedAfterEnd(c)
  <2>1. phase'[c] \notin {"connecting", "alive"} /\ listener' = listener
    BY <1>1, <1>6 DEF TimedReject, TimedAfterEnd, Reject, End, LingerEnds, SinkFails, TypeOK,
                      SessionTypeOK
  <2>2. UNCHANGED <<task, commands>>
    BY <1>6 DEF TimedReject, TimedAfterEnd, timerVars
  <2> QED
    BY <1>1, <2>1, <2>2 DEF Reported, CanCommand, Client
<1>7. ASSUME SessionPart(c), phase[c] # "connecting", UNCHANGED listener, NoTaskLeft => NoTaskLeft'
      PROVE  Reported(c)'
  <2>1. /\ phase'[c] # "connecting"
        /\ phase'[c] = "alive" => phase[c] = "alive"
    BY <1>1, <1>7, PhaseForward
  <2>2. phase'[c] = "alive" => Alive(c)' /\ (Leaving(c) => Leaving(c)')
    BY <1>1, <1>7, <2>1, LeavingStays DEF Reported
  <2> QED
    BY <1>1, <1>7, <2>1, <2>2 DEF Reported
<1>8. ASSUME NEW resets \in SUBSET TimersOf(c), NEW heard \in BOOLEAN,
             ResettingStep(c, resets, heard)
      PROVE  Reported(c)'
  <2>1. /\ phase[c] = "alive" /\ listener' = listener
        /\ SessionPart(c) /\ WithTimers(c, resets)
    BY <1>8 DEF ResettingStep
  <2>2. TimersKept(c, resets)
    BY <1>1, <1>8, <2>1, WithTimersEffect, Zenon
  <2>3. /\ task'[Client(c)] = task[Client(c)]
        /\ commands'[Client(c)] = IF Client(c) \in resets THEN Push(commands[Client(c)], Reset)
                                  ELSE commands[Client(c)]
    BY <1>2, <2>2 DEF TimersKept
  <2>4. commands'[Client(c)].open = commands[Client(c)].open
    BY <1>1, <1>2, <2>3, ClosedStaysClosed
  <2>5. NoTaskLeft => NoTaskLeft'
    BY <2>3, <2>4 DEF CanCommand, Client
  <2> QED
    BY <1>7, <2>1, <2>5
<1>9. CASE TimedCallback(c)
  <2>1. /\ SessionPart(c) /\ phase[c] # "connecting" /\ UNCHANGED listener
        /\ UNCHANGED <<task, commands>>
    BY <1>9 DEF TimedCallback, Callback, timerVars, sessionVars, SessionPart, OpenStep
  <2>2. NoTaskLeft => NoTaskLeft'
    BY <1>4, <2>1
  <2> QED
    BY <1>7, <2>1, <2>2
<1>10. CASE TimedHeartbeat(c)
  <2>1. /\ SessionPart(c) /\ phase[c] # "connecting" /\ UNCHANGED listener
        /\ UNCHANGED <<task, commands>>
    BY <1>10 DEF TimedHeartbeat, Heartbeat, PollExistingTask, SessionPart, OpenStep, SessionStep
  <2>2. NoTaskLeft => NoTaskLeft'
    BY <1>4, <2>1
  <2> QED
    BY <1>7, <2>1, <2>2
<1>11. CASE FirstPoll(c)
  <2>1. UNCHANGED vars /\ UNCHANGED <<inbox, phase, listener>>
    BY <1>11 DEF FirstPoll, vars, sessionVars
  <2>2. PICK t \in TimersOf(c) : Initialise(t) \/ FirstPollPending(t) \/ FirstPollReady(t)
    BY <1>11 DEF FirstPoll
  <2>3. CASE t = Server(c)
    <3>1. UNCHANGED <<task[Client(c)], commands[Client(c)]>>
      BY <1>2, <2>2, <2>3, OtherTimerFrame
    <3>2. NoTaskLeft => NoTaskLeft'
      BY <1>4, <3>1
    <3> QED
      BY <1>3, <2>1, <3>2
  <2>4. CASE t = Client(c)
    <3>1. stream[Client(c)] # "dropped"
      BY <2>2, <2>4 DEF Initialise, FirstPollPending, FirstPollReady
    <3>2. listener[c] # "done"
      BY <1>1, <3>1 DEF OwnTimers
    <3> QED
      BY <1>1, <2>1, <3>2 DEF Reported, Alive
  <2> QED
    BY <1>2, <2>2, <2>3, <2>4
<1>12. CASE TimedMiss(c)
  <2>1. MissHeartbeat(c) /\ NextAndDrop(Client(c))
    BY <1>12 DEF TimedMiss
  <2>2. SendEvent(c, Error) /\ UNCHANGED phase
    BY <2>1 DEF MissHeartbeat
  <2>3. Alive(c)' = Alive(c) /\ (Alive(c) => Leaving(c)')
    BY <1>1, <2>2, InboxGrows, SimpleEventTypes DEF Leaving
  <2>4. stream[Client(c)] = "held" /\ fired[Client(c)] = 1
    BY <1>1, <1>2, <2>1 DEF NextAndDrop, Sleeping
  <2>5. task'[Client(c)] = "aborted"
    BY <1>1, <1>2, <2>1, <2>4 DEF NextAndDrop, TimerTypeOK
  <2> QED
    BY <1>1, <2>2, <2>3, <2>5 DEF Reported, Client
<1>13. ASSUME NEW t \in TimersOf(c), TimedTask(t)
       PROVE  Reported(c)'
  <2>1. TaskStep(t) /\ UNCHANGED <<inbox, phase, listener>>
    BY <1>13 DEF TimedTask, vars, sessionVars
  <2>2. CASE t = Server(c)
    <3>1. UNCHANGED <<task[Client(c)], commands[Client(c)]>>
      BY <1>2, <2>1, <2>2, OtherTimerFrame
    <3>2. NoTaskLeft => NoTaskLeft'
      BY <1>4, <3>1
    <3> QED
      BY <1>3, <2>1, <3>2
  <2>3. CASE t = Client(c)
    <3>1. NoTaskLeft => Cancel(t)
      BY <2>1, <2>3 DEF TaskStep, Start, HandleCommand, ResetterGone, Expire, ExpireAlone
    <3>2. Cancel(t) => NoTaskLeft'
      BY <1>1, <1>2, <2>3 DEF Cancel, CanCommand, TimerTypeOK, Dropped, Client
    <3> QED
      BY <1>3, <2>1, <3>1, <3>2
  <2> QED
    BY <1>2, <2>2, <2>3
<1> QED
  BY <1>5, <1>6, <1>8, <1>9, <1>10, <1>11, <1>12, <1>13 DEF TimedStep

\* What a prompt machine has done before time passes: the timers sleep.
LEMMA TickIsQuiet ==
    ASSUME TimedInv, NEW c \in Clients, Timely(c), Prompt, Tick
    PROVE  /\ Elapse /\ ~TaskReady(Server(c)) /\ ~TaskReady(Client(c))
           /\ \A t \in TimersOf(c) : ~Emits(t) /\ stream[t] # "initialising"
           /\ listener[c] = "waiting" => stream[Client(c)] = "held" /\ fired[Client(c)] = 0
           /\ phase[c] = "alive" => /\ listener[c] = "waiting"
                                    /\ stream[Server(c)] = "held" /\ fired[Server(c)] = 0
<1>1. Elapse /\ ~Busy(c)
  BY DEF Tick
<1>2. /\ OwnTimers(c) /\ Sleeping(Server(c)) /\ Reported(c)
      /\ Server(c) \in Timers /\ Client(c) \in Timers
      /\ TimersOf(c) = {Server(c), Client(c)}
      /\ TypeOK /\ TimerTypeOK
  BY OwnPair DEF TimedInv, TimedTypes, Timely, ChainInv, TimersOf
<1>3. /\ ~TaskReady(Server(c)) /\ ~TaskReady(Client(c))
      /\ phase[c] = "alive" => ~Ready(inbox[c])
      /\ phase[c] = "alive" => stream[Server(c)] # "unpolled" /\ ~Emits(Server(c))
      /\ stream[Server(c)] # "initialising"
      /\ stream[Client(c)] \notin {"unpolled", "initialising"} /\ ~Emits(Client(c))
  BY <1>1, <1>2 DEF Busy
<1>4. fired[Server(c)] \in Nat /\ fired[Client(c)] \in Nat
  BY <1>2 DEF TimerTypeOK
<1>5. ~Emits(Server(c))
  BY <1>2, <1>3 DEF OwnTimers, Emits
<1>6. ~Leaving(c) \/ phase[c] # "alive"
  <2>1. ASSUME ~Ready(inbox[c])
        PROVE  Pending(inbox[c]) = {}
    BY <2>1 DEF Ready, Pending
  <2> QED
    BY <1>3, <2>1 DEF Leaving
<1>7. listener[c] = "waiting" => stream[Client(c)] = "held" /\ fired[Client(c)] = 0
  BY <1>2, <1>3, <1>4 DEF OwnTimers, Emits
<1>8. phase[c] = "alive" => listener[c] = "waiting"
  BY <1>2, <1>6 DEF OwnTimers, Reported, TypeOK, SessionTypeOK
<1>9. phase[c] = "alive" => stream[Server(c)] = "held" /\ fired[Server(c)] = 0
  BY <1>2, <1>3, <1>4 DEF OwnTimers, Sleeping, Emits
<1> QED
  BY <1>1, <1>2, <1>3, <1>5, <1>7, <1>8, <1>9

\* The clock keeps the sessions in time.
LEMMA TickKeepsTime ==
    ASSUME TimedInv, NEW c \in Clients, Timely(c), Prompt, Tick
    PROVE  Timely(c)'
<1>1. /\ Elapse /\ ~TaskReady(Server(c)) /\ ~TaskReady(Client(c))
      /\ \A t \in TimersOf(c) : ~Emits(t) /\ stream[t] # "initialising"
      /\ phase[c] = "alive" => /\ stream[Server(c)] = "held" /\ fired[Server(c)] = 0
                               /\ stream[Client(c)] = "held" /\ fired[Client(c)] = 0
  BY TickIsQuiet
<1>2. /\ OwnTimers(c) /\ ChainInv /\ Reported(c) /\ TimerTypeOK
      /\ Sleeping(Server(c)) /\ Sleeping(Client(c))
      /\ Server(c) \in Timers /\ Client(c) \in Timers /\ TimersOf(c) = {Server(c), Client(c)}
  BY OwnPair DEF TimedInv, TimedTypes, Timely, ChainInv, TimersOf
<1>3. UNCHANGED <<phase, listener, inbox>>
  BY DEF Tick, vars, sessionVars
<1>4. Sleeping(Server(c))' /\ Sleeping(Client(c))'
  BY <1>1, <1>2, SleepingTick
<1>5. Reported(c)'
  BY <1>1, <1>2, <1>3 DEF Reported, Leaving, Alive, CanCommand, Elapse, Client
<1>6. PICK w \in Nat, r \in Nat : w = unwritten[c] /\ r = unread[c]
  BY DEF TimedInv, TimedTypes
<1>7. unwritten'[c] = Older(w) /\ unread'[c] = Older(r)
  BY <1>6 DEF Tick
<1>8. ASSUME phase[c] = "alive", NEW t \in TimersOf(c), NEW n \in Nat, InPace(t, n)
      PROVE  InPace(t, Older(n))'
  <2>1. resetter[t] /\ stream[t] = "held" /\ fired[t] = 0 /\ Sleeping(t) /\ ~TaskReady(t)
    BY <1>1, <1>2, <1>8 DEF OwnTimers
  <2>2. InPace(t, n + 1)'
    BY <1>1, <1>2, <1>8, <2>1, PacedTick
  <2>3. period'[t] = period[t] /\ period[t] \in Periods
    BY <1>1, <1>2 DEF Elapse, TimerTypeOK
  <2>4. period[t] > 0 => Older(n) = n + 1
    <3>1. period[t] > 0 => n <= period[t]
      BY <1>8 DEF InPace
    <3> QED
      <4>1. period[t] < Oldest /\ Oldest \in Nat
        BY <2>3, OldestPeriod
      <4>2. period[t] \in Nat
        BY <2>3, PeriodsAssumption
      <4> QED
        BY ONLY <3>1, <4>1, <4>2, n \in Nat DEF Older
  <2> QED
    BY <2>2, <2>3, <2>4 DEF InPace
<1>9. phase[c] = "alive" => InPace(Server(c), unwritten[c])' /\ InPace(Client(c), unread[c])'
  <2>1. phase[c] = "alive" => InPace(Server(c), Older(w))' /\ InPace(Client(c), Older(r))'
    BY <1>2, <1>6, <1>8 DEF Timely
  <2> QED
    BY <1>7, <2>1 DEF InPace
<1> QED
  BY <1>3, <1>4, <1>5, <1>9 DEF Timely

PromptInv == TimedInv /\ \A c \in Clients : Timely(c)

\* At first nobody waits for anything.
LEMMA TimelyInit == TimedInit => PromptInv
<1> SUFFICES ASSUME TimedInit, NEW c \in Clients PROVE Timely(c)
  BY NoClients DEF PromptInv
<1>1. Server(c) \in Timers /\ Client(c) \in Timers
  BY OwnPair
<1>2. Sleeping(Server(c)) /\ Sleeping(Client(c))
  BY <1>1 DEF TimedInit, TimerInit, Sleeping
<1>3. phase[c] = "connecting" /\ listener[c] = "idle" /\ Alive(c)
  BY DEF TimedInit, Init, SessionInit, ProxyInit, NewChannel, Alive
<1> QED
  BY <1>2, <1>3 DEF Timely, Reported

\* What one client and its timers do is nothing to another's.
LEMMA TimelyFrame ==
    ASSUME NEW x \in Clients, Timely(x),
           UNCHANGED <<phase[x], listener[x], inbox[x], unread[x], unwritten[x]>>,
           \A t \in TimersOf(x) :
             UNCHANGED <<stream[t], task[t], fired[t], period[t], left[t], commands[t], resetter[t]>>
    PROVE  Timely(x)'
<1>1. Server(x) \in Timers /\ Client(x) \in Timers /\ TimersOf(x) = {Server(x), Client(x)}
  BY OwnPair DEF TimersOf
<1>2. Sleeping(Server(x))' /\ Sleeping(Client(x))'
  BY <1>1, SleepingFrame DEF Timely
<1>3. Reported(x)'
  BY <1>1 DEF Timely, Reported, Leaving, Alive, CanCommand, Client
<1>4. PICK w, r : w = unwritten[x] /\ r = unread[x]
  OBVIOUS
<1>5. phase[x] = "alive" => InPace(Server(x), w)' /\ InPace(Client(x), r)'
  BY <1>1, <1>4, PacedFrame DEF Timely
<1>6. phase[x] = "alive" => InPace(Server(x), unwritten[x])' /\ InPace(Client(x), unread[x])'
  BY <1>4, <1>5 DEF InPace
<1> QED
  BY <1>2, <1>3, <1>6 DEF Timely

\* Every step of a client and its timers keeps all clients in time, ...
LEMMA StepKeepsTime ==
    ASSUME PromptInv, NEW c \in Clients, TimedStep(c)
    PROVE  PromptInv'
<1>1. TimedInv /\ TimedInv' /\ Elsewhere(c)
  BY StepKeepsAllTimers, TimedStepTypes DEF PromptInv, TimedInv
<1>2. ASSUME NEW x \in Clients
      PROVE  Timely(x)'
  <2>1. CASE x = c
    <3>1. Timely(c)
      BY DEF PromptInv
    <3>2. Sleeping(Server(c))' /\ Sleeping(Client(c))' /\ Reported(c)'
      BY <1>1, <3>1, StepKeepsSleep, StepKeepsReport
    <3>3. phase'[c] = "alive" =>
            InPace(Server(c), unwritten[c])' /\ InPace(Client(c), unread[c])'
      BY <1>1, <3>1, StepKeepsPace
    <3> QED
      BY <2>1, <3>2, <3>3 DEF Timely
  <2>2. CASE x # c
    <3>1. /\ UNCHANGED <<phase[x], listener[x], inbox[x], unread[x], unwritten[x]>>
          /\ \A t \in TimersOf(x) :
               UNCHANGED <<stream[t], task[t], fired[t], period[t], left[t], commands[t], resetter[t]>>
      BY <1>1, <2>2 DEF Elsewhere
    <3> QED
      BY <3>1, TimelyFrame DEF PromptInv
  <2> QED
    BY <2>1, <2>2
<1> QED
  BY <1>1, <1>2 DEF PromptInv

\* ... and so does doing nothing.
LEMMA StutterKeepsTime ==
    ASSUME PromptInv, UNCHANGED timedVars
    PROVE  PromptInv'
<1>1. /\ UNCHANGED <<stream, task, fired, period, left, commands, resetter>>
      /\ UNCHANGED <<wanted, unread, unwritten, punctual>>
      /\ UNCHANGED <<phase, listener, inbox>>
  BY DEF timedVars, timerVars, clocks, vars, sessionVars
<1>2. TimedInv'
  BY StutterKeepsTimers DEF PromptInv
<1>3. ASSUME NEW c \in Clients
      PROVE  Timely(c)'
  BY <1>1, TimelyFrame DEF PromptInv
<1> QED
  BY <1>2, <1>3 DEF PromptInv

\* On a prompt machine both timers emit in time, and a listener that is done
\* has told its session.
THEOREM TimersInTime == ASSUME Prompt PROVE TimedSpec => []PromptInv
<1>1. ASSUME PromptInv, [TimedNext]_timedVars
      PROVE  PromptInv'
  <2>1. ASSUME NEW c \in Clients, TimedStep(c)
        PROVE  PromptInv'
    BY <1>1, <2>1, StepKeepsTime
  <2>2. CASE Tick
    BY <1>1, <2>2, TickKeepsTimers, TickKeepsTime DEF PromptInv
  <2>3. CASE UNCHANGED timedVars
    BY <1>1, <2>3, StutterKeepsTime
  <2> QED
    BY <1>1, <2>1, <2>2, <2>3, TimedSteps DEF PromptInv, TimedInv
<1> QED
  BY <1>1, TimelyInit, PTL DEF TimedSpec

\* ServerKeepsPromise: no client waits longer for a frame or a heartbeat than
\* the interval the server agreed to (client.rs:545-551).
THEOREM PromiseKept == ASSUME Prompt PROVE TimedSpec => []ServerKeepsPromise
<1>1. PromptInv => ServerKeepsPromise
  <2> SUFFICES ASSUME PromptInv, NEW c \in Clients, phase[c] = "alive", wanted[c].expected > 0
               PROVE  unwritten[c] <= wanted[c].expected
    BY DEF ServerKeepsPromise
  <2>1. period[Server(c)] = wanted[c].expected
    BY DEF PromptInv, TimedInv, OwnTimers
  <2>2. InPace(Server(c), unwritten[c])
    BY DEF PromptInv, Timely
  <2> QED
    BY <2>1, <2>2 DEF InPace
<1> QED
  BY <1>1, TimersInTime, PTL

\* ListenerLeavesNoTask: when the listener has ended, no task of the client's
\* timer runs, neither with its channel nor without (client.rs:604-611).
THEOREM ListenerTidies == ASSUME Prompt PROVE TimedSpec => []ListenerLeavesNoTask
<1>1. PromptInv => ListenerLeavesNoTask
  BY DEF PromptInv, Timely, Reported, ListenerLeavesNoTask
<1> QED
  BY <1>1, TimersInTime, PTL

-----------------------------------------------------------------------------
(* The client's interval, as long as its product with 120 is a u32.        *)

NoOverflow == \A s \in Supplied : s * (BufferPercent + 100) < Word

\* The buffer (client.rs:569) makes an interval no shorter, and longer from
\* 5 ms on.
LEMMA BufferedInterval ==
    ASSUME NoOverflow, NEW s \in Supplied
    PROVE  /\ Buffered(s) \in Nat
           /\ s > 0 => Buffered(s) > 0
           /\ HasBuffer(s) => Buffered(s) > s
<1>1. s \in Nat /\ s * 120 < Word /\ Word \in Nat /\ s * 120 \in Nat
  BY IntervalsAssumption DEF NoOverflow, BufferPercent
<1>2. (s * 120) % Word = s * 120
  BY <1>1
<1>3. Buffered(s) = (s * 120) \div 100
  BY <1>2 DEF Buffered, BufferPercent
<1>4. HasBuffer(s) => s * 20 >= 100
  BY DEF HasBuffer, BufferPercent
<1> QED
  BY <1>1, <1>3, <1>4

\* SilentClientIsDropped: no session outlives the silence of its client by
\* more than the buffer (client.rs:600-613, 386).
THEOREM SilenceEnds ==
    ASSUME Prompt, NoOverflow PROVE TimedSpec => []SilentClientIsDropped
<1>1. PromptInv => SilentClientIsDropped
  <2> SUFFICES ASSUME PromptInv, NEW c \in Clients, phase[c] = "alive", wanted[c].supplied > 0
               PROVE  unread[c] <= Buffered(wanted[c].supplied)
    BY DEF SilentClientIsDropped
  <2>1. period[Client(c)] = Buffered(wanted[c].supplied)
    BY DEF PromptInv, TimedInv, OwnTimers
  <2>2. wanted[c].supplied \in Supplied
    BY DEF PromptInv, TimedInv, TimedTypes
  <2>3. Buffered(wanted[c].supplied) > 0
    BY <2>2, BufferedInterval
  <2>4. InPace(Client(c), unread[c])
    BY DEF PromptInv, Timely
  <2> QED
    BY <2>1, <2>3, <2>4 DEF InPace
<1> QED
  BY <1>1, TimersInTime, PTL

\* A client that has kept its interval so far: its timer has not fired, and
\* will not before the client is late.
Lazy(c) ==
    HasBuffer(wanted[c].supplied) /\ punctual[c] =>
        /\ listener[c] # "done"
        /\ unread[c] <= wanted[c].supplied
        /\ fired[Client(c)] = 0
        /\ task[Client(c)] \in {"running", "alone"} =>
             /\ left[Client(c)] > 0
             /\ ~Ready(commands[Client(c)]) => left[Client(c)] + unread[c] >= period[Client(c)]

\* A client that promises heartbeats has a listener, and a timer whose period
\* is longer than the interval it promised.
LEMMA PromisedPeriod ==
    ASSUME NoOverflow, TimedInv, NEW c \in Clients, HasBuffer(wanted[c].supplied)
    PROVE  /\ wanted[c].supplied \in Nat
           /\ listener[c] # "idle" /\ phase[c] # "connecting"
           /\ period[Client(c)] > wanted[c].supplied
           /\ period[Client(c)] \in Nat /\ period[Client(c)] < Oldest
           /\ left[Client(c)] \in Nat /\ fired[Client(c)] \in Nat /\ unread[c] \in Nat
<1>1. OwnTimers(c) /\ Client(c) \in Timers /\ TypeOK /\ TimerTypeOK
  BY OwnPair DEF TimedInv, TimedTypes, ChainInv
<1>2. wanted[c].supplied # 0
  BY DEF HasBuffer, BufferPercent
<1>3. wanted[c].supplied \in Supplied /\ unread[c] \in Nat
  BY <1>2 DEF TimedInv, TimedTypes
<1>4. listener[c] # "idle" /\ period[Client(c)] = Buffered(wanted[c].supplied)
  BY <1>1, <1>2 DEF OwnTimers
<1>5. period[Client(c)] > wanted[c].supplied
  BY <1>3, <1>4, BufferedInterval
<1>6. phase[c] # "connecting"
  BY <1>1, <1>4 DEF OwnTimers
<1>7. /\ period[Client(c)] \in Periods /\ left[Client(c)] \in Nat /\ fired[Client(c)] \in Nat
      /\ period[Client(c)] \in Nat /\ period[Client(c)] < Oldest
  BY <1>1, OldestPeriod, PeriodsAssumption DEF TimerTypeOK
<1> QED
  BY <1>3, <1>4, <1>5, <1>6, <1>7, IntervalsAssumption

\* A message that reaches an open channel is there.
LEMMA PushedIsReady ==
    ASSUME NEW ch \in ChannelOf({Reset}), ch.open
    PROVE  Ready(Push(ch, Reset))
<1>1. Reset \in {Reset}
  OBVIOUS
<1>2. Reset \in Pending(Push(ch, Reset))
  BY ONLY <1>1, ch \in ChannelOf({Reset}), ch.open, PushProperties
<1> QED
  BY <1>2 DEF Ready, Pending

\* Steps that leave a client's timer, listener and clock alone leave it lazy.
LEMMA LazyFrame ==
    ASSUME NEW c \in Clients, Lazy(c),
           UNCHANGED <<task[Client(c)], fired[Client(c)], period[Client(c)], left[Client(c)],
                       commands[Client(c)]>>,
           UNCHANGED <<listener[c], wanted[c], punctual[c], unread[c]>>
    PROVE  Lazy(c)'
BY DEF Lazy, Client

\* A punctual client is not taken for a silent one: its timer sleeps for
\* longer than it has been silent, or has a reset in its channel, which it
\* takes before it can fire (delayable_stream.rs:189-243).
LEMMA StepKeepsLazy ==
    ASSUME NoOverflow, TimedInv, NEW c \in Clients, Timely(c), Lazy(c), TimedStep(c)
    PROVE  Lazy(c)'
<1>1. /\ TimedTypes /\ OwnTimers(c) /\ ChainInv /\ TimerTypeOK /\ TypeOK
      /\ commands \in [Timers -> ChannelOf({Reset})]
      /\ HandedOver(Client(c)) /\ Sleeping(Client(c)) /\ punctual' = punctual
  <2>1. punctual' = punctual
    BY ConnectEffect
       DEF TimedStep, TimedConnect, TimedReject, ResettingStep, TimedAfterEnd, TimedHeartbeat,
           FirstPoll, TimedMiss, TimedCallback, TimedTask, Noted, clocks
  <2> QED
    BY <2>1, OwnPair DEF TimedInv, TimedTypes, Timely, ChainInv
<1>2. /\ Server(c) \in Timers /\ Client(c) \in Timers /\ Server(c) # Client(c)
      /\ TimersOf(c) = {Server(c), Client(c)}
  BY OwnPair DEF TimersOf
<1>3. ASSUME UNCHANGED <<listener, wanted>>, UNCHANGED clocks, UNCHANGED timerVars
      PROVE  Lazy(c)'
  BY <1>3, LazyFrame DEF clocks, timerVars
<1>4. CASE TimedConnect(c)
  <2>1. /\ Noted(c, TRUE) /\ listener'[c] = "waiting"
        /\ stream[Client(c)] = "absent" /\ UNCHANGED <<task, fired>>
        /\ wanted' \in [Clients -> [expected : Expected \cup {0}, supplied : Supplied \cup {0}]]
    BY <1>1, <1>2, <1>4, ConnectEffect
  <2>2. task[Client(c)] = "none" /\ fired[Client(c)] = 0
    BY <1>1, <2>1 DEF HandedOver, Sleeping
  <2>3. unread'[c] = 0
    BY <1>1, <2>1, NotedEffect
  <2>4. wanted'[c].supplied \in Nat
    <3>1. wanted'[c] \in [expected : Expected \cup {0}, supplied : Supplied \cup {0}]
      BY <2>1
    <3>2. wanted'[c].supplied \in Supplied \cup {0}
      BY ONLY <3>1
    <3>3. \A s \in Supplied \cup {0} : s \in Nat
      BY IntervalsAssumption
    <3> QED
      BY <3>2, <3>3
  <2> QED
    BY <2>1, <2>2, <2>3, <2>4 DEF Lazy, Client
<1>5. CASE TimedReject(c)
  <2>1. phase[c] = "connecting" /\ wanted' = wanted
    BY <1>5 DEF TimedReject, Reject
  <2>2. ~HasBuffer(wanted[c].supplied)
    BY <2>1, PromisedPeriod
  <2> QED
    BY <2>1, <2>2 DEF Lazy
<1>6. ASSUME NEW resets \in SUBSET TimersOf(c), NEW heard \in BOOLEAN,
             ResettingStep(c, resets, heard)
      PROVE  Lazy(c)'
  <2>1. /\ phase[c] = "alive" /\ listener' = listener
        /\ WithTimers(c, resets) /\ Noted(c, heard)
        /\ heard <=> Client(c) \in resets
    BY <1>6 DEF ResettingStep
  <2>2. TimersKept(c, resets)
    BY <1>1, <1>6, <2>1, WithTimersEffect, Zenon
  <2>3. /\ UNCHANGED <<task[Client(c)], fired[Client(c)], period[Client(c)], left[Client(c)]>>
        /\ commands'[Client(c)] = IF heard THEN Push(commands[Client(c)], Reset)
                                  ELSE commands[Client(c)]
        /\ wanted' = wanted
    BY <1>2, <2>1, <2>2 DEF TimersKept
  <2>4. unread'[c] = IF heard THEN 0 ELSE unread[c]
    BY <1>1, <2>1, NotedEffect
  <2>5. CASE ~heard
    BY <1>1, <2>1, <2>3, <2>4, <2>5, LazyFrame
  <2>6. CASE heard
    <3> SUFFICES ASSUME HasBuffer(wanted[c].supplied), punctual[c]
                 PROVE  Lazy(c)'
      BY <1>1, <2>3 DEF Lazy
    <3>1. /\ listener[c] # "done" /\ fired[Client(c)] = 0
          /\ task[Client(c)] \in {"running", "alone"} => left[Client(c)] > 0
          /\ wanted[c].supplied \in Nat
      BY PromisedPeriod DEF Lazy
    <3>2. commands[Client(c)].open
      <4>1. resetter[Client(c)] /\ listener[c] = "waiting"
        BY <1>1, <2>1, <3>1 DEF OwnTimers, TypeOK, SessionTypeOK
      <4>2. stream[Client(c)] \in {"unpolled", "initialising", "held"}
        BY <1>1, <4>1 DEF OwnTimers
      <4> QED
        BY <1>1, <4>1, <4>2 DEF HandedOver
    <3>3. Ready(commands[Client(c)])'
      BY <1>1, <1>2, <2>3, <2>6, <3>2, PushedIsReady DEF Ready, Client
    <3> QED
      BY <2>1, <2>3, <2>4, <2>6, <3>1, <3>3 DEF Lazy, Client, Ready
  <2> QED
    BY <2>5, <2>6
<1>7. CASE TimedAfterEnd(c) \/ TimedCallback(c)
  BY <1>3, <1>7 DEF TimedAfterEnd, TimedCallback, LingerEnds, SinkFails, Callback, sessionVars
<1>8. CASE TimedHeartbeat(c)
  <2>1. /\ PollExistingTask(Server(c)) /\ Noted(c, FALSE) /\ UNCHANGED <<listener, wanted>>
    BY <1>8 DEF TimedHeartbeat, Heartbeat
  <2>2. UNCHANGED <<task[Client(c)], fired[Client(c)], period[Client(c)], left[Client(c)],
                    commands[Client(c)]>>
    BY <1>2, <2>1, OtherTimerFrame
  <2>3. unread'[c] = unread[c]
    BY <1>1, <2>1, NotedEffect
  <2> QED
    BY <1>1, <2>1, <2>2, <2>3, LazyFrame
<1>9. CASE FirstPoll(c)
  <2>1. UNCHANGED <<listener, wanted>> /\ unread' = unread
    BY <1>9 DEF FirstPoll, vars, sessionVars, clocks
  <2>2. PICK t \in TimersOf(c) : Initialise(t) \/ FirstPollPending(t) \/ FirstPollReady(t)
    BY <1>9 DEF FirstPoll
  <2>3. CASE t = Server(c)
    <3>1. UNCHANGED <<task[Client(c)], fired[Client(c)], period[Client(c)], left[Client(c)],
                      commands[Client(c)]>>
      BY <1>2, <2>2, <2>3, OtherTimerFrame
    <3> QED
      BY <1>1, <2>1, <3>1, LazyFrame
  <2>4. CASE t = Client(c)
    <3>1. ~FirstPollReady(t)
      BY <1>1, <1>2, <2>2, <2>4, SleepingPoll
    <3>2. /\ UNCHANGED <<fired, period, left, commands>>
          /\ task'[Client(c)] \in {task[Client(c)], "spawned"}
      BY <1>1, <1>2, <2>2, <2>4, <3>1 DEF Initialise, FirstPollPending, TimerTypeOK
    <3> QED
      BY <1>1, <2>1, <3>2 DEF Lazy, Client, Ready
  <2> QED
    BY <1>2, <2>2, <2>3, <2>4
<1>10. CASE TimedMiss(c)
  <2>1. fired[Client(c)] > 0 /\ wanted' = wanted
    BY <1>10 DEF TimedMiss, NextAndDrop
  <2>2. ~(HasBuffer(wanted[c].supplied) /\ punctual[c])
    BY <2>1 DEF Lazy
  <2> QED
    BY <1>1, <2>1, <2>2 DEF Lazy
<1>11. ASSUME NEW t \in TimersOf(c), TimedTask(t)
       PROVE  Lazy(c)'
  <2>1. TaskStep(t) /\ UNCHANGED <<listener, wanted>> /\ unread' = unread
    BY <1>11 DEF TimedTask, vars, sessionVars, clocks
  <2>2. CASE t = Server(c)
    <3>1. UNCHANGED <<task[Client(c)], fired[Client(c)], period[Client(c)], left[Client(c)],
                      commands[Client(c)]>>
      BY <1>2, <2>1, <2>2, OtherTimerFrame
    <3> QED
      BY <1>1, <2>1, <3>1, LazyFrame
  <2>3. CASE t = Client(c)
    <3> SUFFICES ASSUME HasBuffer(wanted[c].supplied), punctual[c]
                 PROVE  Lazy(c)'
      BY <1>1, <2>1 DEF Lazy
    <3>1. /\ wanted[c].supplied \in Nat /\ period[t] > wanted[c].supplied
          /\ period[t] \in Nat /\ left[t] \in Nat /\ unread[c] \in Nat
      BY <2>3, PromisedPeriod
    <3>2. /\ listener[c] # "done" /\ unread[c] <= wanted[c].supplied /\ fired[t] = 0
          /\ task[t] \in {"running", "alone"} =>
               left[t] > 0 /\ (~Ready(commands[t]) => left[t] + unread[c] >= period[t])
      BY <2>3 DEF Lazy
    <3>3. period' = period
      BY <1>1, <1>2, <2>1, <2>3, TaskResets
    <3>4. ~Expire(t) /\ ~ExpireAlone(t)
      BY <3>2 DEF Expire, ExpireAlone
    <3>5. /\ fired' = fired
          /\ \/ task'[t] \notin {"running", "alone"}
             \/ left'[t] = period[t]
      <4>1. CASE Start(t) \/ ResetterGone(t) \/ Cancel(t)
        BY <1>1, <1>2, <2>3, <4>1 DEF Start, ResetterGone, Cancel, TimerTypeOK
      <4>2. CASE HandleCommand(t)
        BY <1>1, <1>2, <2>3, <3>3, <4>2 DEF HandleCommand, TimerTypeOK
      <4> QED
        BY <2>1, <3>4, <4>1, <4>2 DEF TaskStep
    <3> QED
      BY <2>1, <2>3, <3>1, <3>2, <3>3, <3>5 DEF Lazy, Client, Ready
  <2> QED
    BY <1>2, <2>2, <2>3
<1> QED
  BY <1>4, <1>5, <1>6, <1>7, <1>8, <1>9, <1>10, <1>11 DEF TimedStep

\* The clock cannot make the timer fire before the client is late.
LEMMA TickKeepsLazy ==
    ASSUME NoOverflow, TimedInv, NEW c \in Clients, Timely(c), Lazy(c), Prompt, Tick
    PROVE  Lazy(c)'
<1>1. /\ Elapse /\ ~TaskReady(Client(c))
      /\ listener[c] = "waiting" => stream[Client(c)] = "held"
  BY TickIsQuiet
<1>2. UNCHANGED <<listener, phase, wanted>>
  BY DEF Tick, vars, sessionVars
<1>3. /\ unread'[c] = Older(unread[c])
      /\ punctual'[c] = (punctual[c] /\ (phase[c] = "connecting"
                                         \/ unread'[c] <= wanted[c].supplied))
  BY DEF Tick
<1> SUFFICES ASSUME HasBuffer(wanted[c].supplied), punctual'[c]
             PROVE  Lazy(c)'
  BY <1>2 DEF Lazy
<1>4. /\ wanted[c].supplied \in Nat /\ listener[c] # "idle" /\ phase[c] # "connecting"
      /\ period[Client(c)] > wanted[c].supplied
      /\ period[Client(c)] \in Nat /\ period[Client(c)] < Oldest /\ Oldest \in Nat
      /\ left[Client(c)] \in Nat /\ unread[c] \in Nat
  BY PromisedPeriod, OldestPeriod
<1>5. punctual[c] /\ unread'[c] <= wanted[c].supplied
  BY <1>3, <1>4
<1>6. /\ listener[c] # "done" /\ unread[c] <= wanted[c].supplied /\ fired[Client(c)] = 0
      /\ task[Client(c)] \in {"running", "alone"} =>
           /\ left[Client(c)] > 0
           /\ ~Ready(commands[Client(c)]) => left[Client(c)] + unread[c] >= period[Client(c)]
  BY <1>5 DEF Lazy
<1>7. unread'[c] = unread[c] + 1
  <2>1. unread[c] < Oldest
    BY <1>4, <1>6
  <2> QED
    BY <1>3, <2>1 DEF Older
<1>8. /\ Client(c) \in Timers
      /\ left'[Client(c)] = IF task[Client(c)] \in {"running", "alone"} /\ left[Client(c)] > 0
                            THEN left[Client(c)] - 1 ELSE left[Client(c)]
      /\ UNCHANGED <<stream, task, fired, period, commands, resetter>>
  BY <1>1, OwnPair DEF Elapse
<1>9. task[Client(c)] \in {"running", "alone"} => ~Ready(commands[Client(c)])
  <2>1. stream[Client(c)] = "held"
    BY <1>1, <1>4, <1>6 DEF TimedInv, TimedTypes, TypeOK, SessionTypeOK
  <2> QED
    BY <1>1, <2>1 DEF TaskReady, Timely, Sleeping
<1>10. task[Client(c)] \in {"running", "alone"} =>
         left'[Client(c)] > 0 /\ left'[Client(c)] + unread'[c] >= period[Client(c)]
  BY <1>4, <1>5, <1>6, <1>7, <1>8, <1>9
<1> QED
  BY <1>2, <1>5, <1>6, <1>8, <1>10 DEF Lazy, Client

PunctualInv == PromptInv /\ \A c \in Clients : Lazy(c)

\* At first no client has promised anything.
LEMMA LazyInit == TimedInit => PunctualInv
<1> SUFFICES ASSUME TimedInit, NEW c \in Clients PROVE Lazy(c)
  BY TimelyInit DEF PunctualInv
<1>1. wanted[c].supplied = 0
  BY DEF TimedInit
<1> QED
  BY <1>1 DEF Lazy, HasBuffer, BufferPercent

\* Every step of a client keeps all punctual clients.
LEMMA StepKeepsPunctual ==
    ASSUME NoOverflow, PunctualInv, NEW c \in Clients, TimedStep(c)
    PROVE  \A x \in Clients : Lazy(x)'
<1>1. TimedInv /\ Timely(c) /\ Elsewhere(c)
  BY TimedStepTypes DEF PunctualInv, PromptInv, TimedInv
<1>2. Lazy(c)'
  BY <1>1, StepKeepsLazy DEF PunctualInv
<1>3. ASSUME NEW x \in Clients \ {c}
      PROVE  Lazy(x)'
  <2>1. UNCHANGED <<listener[x], wanted[x], punctual[x], unread[x]>>
    BY <1>1 DEF Elsewhere
  <2>2. UNCHANGED <<task[Client(x)], fired[Client(x)], period[Client(x)], left[Client(x)],
                    commands[Client(x)]>>
    <3>1. Client(x) \in TimersOf(x)
      BY DEF TimersOf
    <3> QED
      BY <1>1, <3>1 DEF Elsewhere
  <2> QED
    BY <2>1, <2>2, LazyFrame DEF PunctualInv
<1> QED
  BY <1>2, <1>3

\* PunctualClientIsKept: a client that keeps the interval it promised is not
\* dropped for a missed heartbeat (client.rs:566-573).
THEOREM PunctualityPays ==
    ASSUME Prompt, NoOverflow PROVE TimedSpec => []PunctualClientIsKept
<1>1. ASSUME PunctualInv, [TimedNext]_timedVars
      PROVE  PunctualInv'
  <2>1. ASSUME NEW c \in Clients, TimedStep(c)
        PROVE  PunctualInv'
    BY <1>1, <2>1, StepKeepsTime, StepKeepsPunctual DEF PunctualInv
  <2>2. CASE Tick
    <3>1. PromptInv'
      BY <1>1, <2>2, TickKeepsTimers, TickKeepsTime DEF PunctualInv, PromptInv
    <3>2. ASSUME NEW c \in Clients
          PROVE  Lazy(c)'
      BY <1>1, <2>2, TickKeepsLazy DEF PunctualInv, PromptInv
    <3> QED
      BY <3>1, <3>2 DEF PunctualInv
  <2>3. CASE UNCHANGED timedVars
    <3>1. /\ UNCHANGED <<task, fired, period, left, commands>>
          /\ UNCHANGED <<listener, wanted, punctual, unread>>
      BY <2>3 DEF timedVars, timerVars, clocks, vars, sessionVars
    <3>2. ASSUME NEW c \in Clients
          PROVE  Lazy(c)'
      BY <1>1, <3>1, LazyFrame DEF PunctualInv
    <3> QED
      BY <1>1, <2>3, <3>2, StutterKeepsTime DEF PunctualInv
  <2> QED
    BY <1>1, <2>1, <2>2, <2>3, TimedSteps DEF PunctualInv, PromptInv, TimedInv
<1>2. PunctualInv => PunctualClientIsKept
  BY DEF PunctualInv, Lazy, PunctualClientIsKept
<1> QED
  BY <1>1, <1>2, LazyInit, PTL DEF TimedSpec

-----------------------------------------------------------------------------
(* How a session ends, among arbitrary destinations.                       *)

\* The channel is there as long as the session goes on, and an ERROR that was
\* written has a Close behind it.
Closing(c) ==
    /\ Alive(c) <=> phase[c] \in {"connecting", "alive"}
    /\ phase[c] = "connecting" => ~SentError(c)
    /\ phase[c] = "alive" /\ SentError(c) => Close \in Pending(inbox[c])

ClosingInv == TypeOK /\ \A c \in Clients : Closing(c)

\* A frame other than ERROR is no ERROR.
LEMMA EmitsNoError ==
    ASSUME TypeOK, NEW c \in Clients, NEW f, Emit(c, f), f # ERROR, SentError(c)'
    PROVE  SentError(c)
<1>1. out[c] \in Seq(Frame) /\ out'[c] = Append(out[c], f)
  BY DEF Emit, TypeOK, SessionTypeOK
<1>2. /\ DOMAIN out'[c] = 1 .. Len(out[c]) + 1 /\ DOMAIN out[c] = 1 .. Len(out[c])
      /\ out'[c][Len(out[c]) + 1] = f
      /\ \A k \in 1 .. Len(out[c]) : out'[c][k] = out[c][k]
  BY <1>1
<1>3. PICK k \in DOMAIN out'[c] : out'[c][k] = ERROR
  BY DEF SentError
<1> QED
  BY <1>2, <1>3 DEF SentError

\* Every way a session can end drops its channel (client.rs:404-406, 471-484).
LEMMA EndCloses ==
    ASSUME TypeOK, NEW c \in Clients, NEW how \in {"lingering", "closed", "panicked"}, End(c, how)
    PROVE  Closing(c)'
BY DEF End, DropInbox, Dropped, Closing, Alive, TypeOK, ProxyTypeOK, SessionTypeOK

\* An event joins those in the channel, and the session goes on.
LEMMA SentStaysClosing ==
    ASSUME TypeOK, NEW c \in Clients, Closing(c), NEW e \in ClientEvent, SendEvent(c, e),
           phase' = phase, SentError(c)' => SentError(c) \/ (e = Close /\ phase[c] = "alive")
    PROVE  Closing(c)'
<1>1. inbox[c] \in ChannelOf(ClientEvent) /\ inbox'[c] = Push(inbox[c], e)
  BY DEF SendEvent, TypeOK, ProxyTypeOK
<1>2. /\ Push(inbox[c], e).open = inbox[c].open
      /\ Pending(inbox[c]) \subseteq Pending(Push(inbox[c], e))
      /\ inbox[c].open => e \in Pending(Push(inbox[c], e))
  BY <1>1, PushProperties
<1> QED
  BY <1>1, <1>2 DEF Closing, Alive

\* Whatever a session does: error() leaves a Close in the channel
\* (client.rs:328-334), and the handling of Close ends the session.
LEMMA StepKeepsClosing ==
    ASSUME ClosingInv, NEW c \in Clients, OpenStep(c)
    PROVE  Closing(c)'
<1>1. /\ TypeOK /\ Closing(c)
      /\ inbox \in [Clients -> ChannelOf(ClientEvent)] /\ inbox[c] \in ChannelOf(ClientEvent)
      /\ phase \in [Clients -> Phase] /\ Error \in ClientEvent /\ Close \in ClientEvent
  BY SimpleEventTypes DEF ClosingInv, TypeOK, ProxyTypeOK, SessionTypeOK
<1>2. UNCHANGED <<inbox, phase, out>> => Closing(c)'
  BY <1>1 DEF Closing, Alive, SentError
<1>3. /\ CONNECTED # ERROR /\ HEARTBEAT # ERROR
      /\ \A s, m : MESSAGE(s, m) # ERROR
  BY DEF CONNECTED, HEARTBEAT, MESSAGE, ERROR
<1>4. CASE Connect(c)
  <2>1. SentError(c)' => SentError(c)
    BY <1>1, <1>3, <1>4, EmitsNoError DEF Connect
  <2> QED
    BY <1>1, <1>4, <2>1 DEF Connect, Closing, Alive
<1>5. CASE Reject(c) \/ Disconnect(c) \/ UnhandledFrame(c) \/ EndOfStream(c) \/ OnClose(c)
           \/ SinkFails(c) \/ \E e \in active[c] : UnsubscribePanic(c, e)
  BY <1>1, <1>5, EndCloses
     DEF Reject, Disconnect, UnhandledFrame, EndOfStream, OnClose, SinkFails, UnsubscribePanic
<1>6. CASE BadFrame(c) \/ \E s \in SubIds : UnknownUnsubscribe(c, s)
  <2>1. SendEvent(c, Close) /\ phase' = phase /\ phase[c] = "alive"
    BY <1>6 DEF BadFrame, UnknownUnsubscribe, Fail, Reads
  <2> QED
    BY <1>1, <2>1, SentStaysClosing
<1>7. CASE OnError(c)
  <2>1. Ready(inbox[c]) /\ phase' = phase /\ inbox'[c] = Push(Pop(inbox[c]), Close)
    BY <1>1, <1>7 DEF OnError, Event
  <2>2. Pop(inbox[c]) \in ChannelOf(ClientEvent) /\ Pop(inbox[c]).open = inbox[c].open
    BY <1>1, <2>1, PopProperties
  <2>3. /\ Push(Pop(inbox[c]), Close).open = Pop(inbox[c]).open
        /\ Pop(inbox[c]).open => Close \in Pending(Push(Pop(inbox[c]), Close))
    BY <1>1, <2>2, PushProperties
  <2>4. phase[c] = "alive"
    BY <1>7 DEF OnError, Event
  <2> QED
    BY <1>1, <2>1, <2>2, <2>3, <2>4 DEF Closing, Alive
<1>8. CASE OnSubscribed(c) \/ OnUnsubscribed(c) \/ OnServerMessage(c)
  <2>1. /\ Ready(inbox[c]) /\ phase' = phase /\ inbox'[c] = Pop(inbox[c])
        /\ phase[c] = "alive" /\ NextEvent(c) # Close
    BY <1>1, <1>8 DEF OnSubscribed, OnUnsubscribed, OnServerMessage, Event, TakeEvent, Close
  <2>2. /\ Pop(inbox[c]).open = inbox[c].open
        /\ Pending(inbox[c]) \subseteq Pending(Pop(inbox[c])) \cup {NextEvent(c)}
    BY <1>1, <2>1, PopProperties DEF NextEvent
  <2>3. SentError(c)' => SentError(c)
    <3>1. CASE OnServerMessage(c)
      BY <1>1, <1>3, <3>1, EmitsNoError DEF OnServerMessage
    <3>2. CASE OnSubscribed(c) \/ OnUnsubscribed(c)
      BY <3>2 DEF OnSubscribed, OnUnsubscribed, SentError
    <3> QED
      BY <1>8, <3>1, <3>2
  <2> QED
    BY <1>1, <2>1, <2>2, <2>3 DEF Closing, Alive
<1>9. CASE Heartbeat(c)
  <2>1. SentError(c)' => SentError(c)
    BY <1>1, <1>3, <1>9, EmitsNoError DEF Heartbeat
  <2> QED
    BY <1>1, <1>9, <2>1 DEF Heartbeat, Closing, Alive
<1>10. CASE MissHeartbeat(c)
  BY <1>1, <1>10, SentStaysClosing DEF MissHeartbeat, SentError
<1>11. CASE LingerEnds(c)
  BY <1>1, <1>11 DEF LingerEnds, Closing, Alive
<1>12. CASE ToDestination(c)
  BY <1>2, <1>12 DEF ToDestination, SubscribeFrame, SendFrame, UnsubscribeFrame
<1>13. CASE Callback(c)
  <2>1. PICK e \in ClientEvent : SendEvent(c, e)
    BY <1>1, <1>13, CallbackTypes
  <2>2. phase' = phase /\ out' = out
    BY <1>13 DEF Callback, sessionVars
  <2> QED
    BY <1>1, <2>1, <2>2, SentStaysClosing DEF SentError
<1> QED
  BY <1>4, <1>5, <1>6, <1>7, <1>8, <1>9, <1>10, <1>11, <1>12, <1>13
     DEF OpenStep, SessionStep, HandleEvent

\* Every session, whatever clients send and destinations answer.
LEMMA SessionsClose == Spec => []ClosingInv
<1>1. Init => ClosingInv
  BY InitSessionTypes
     DEF Init, ProxyInit, SessionInit, NewChannel, ClosingInv, Closing, Alive, SentError
<1>2. ASSUME ClosingInv, [Next]_vars
      PROVE  ClosingInv'
  <2>1. ASSUME NEW c \in Clients, OpenStep(c)
        PROVE  ClosingInv'
    <3>1. TypeOK /\ Closing(c)'
      BY <1>2, <2>1, StepKeepsClosing DEF ClosingInv
    <3>2. /\ TypeOK'
          /\ \A x \in Clients \ {c} : UNCHANGED <<phase[x], listener[x], inbox[x], out[x]>>
      BY <2>1, <3>1, SessionPartEffect DEF SessionPart
    <3>3. \A x \in Clients \ {c} : Closing(x)'
      BY <1>2, <3>2 DEF ClosingInv, Closing, Alive, SentError
    <3> QED
      BY <3>1, <3>2, <3>3 DEF ClosingInv
  <2>2. CASE UNCHANGED vars
    BY <1>2, <2>2
       DEF vars, sessionVars, ClosingInv, Closing, Alive, SentError, TypeOK, ProxyTypeOK,
           SessionTypeOK
  <2> QED
    BY <1>2, <2>1, <2>2 DEF Next, OpenStep
<1> QED
  BY <1>1, <1>2, PTL DEF Spec

\* ErrorMeansClosing: a session that has written ERROR and goes on has a Close
\* in its channel, whatever destinations put in front of it (client.rs:328-334).
THEOREM ErrorsLeadToClose == Spec => []ErrorMeansClosing
<1>1. ClosingInv => ErrorMeansClosing
  BY DEF ClosingInv, Closing, ErrorMeansClosing
<1> QED
  BY <1>1, SessionsClose, PTL

\* ChannelClosedWithSession: the channel is closed exactly when the session has
\* ended, in each of the ways it can end (client.rs:404-406, 471-484).
THEOREM ChannelsCloseWithSessions == Spec => []ChannelClosedWithSession
<1>1. ClosingInv => ChannelClosedWithSession
  BY DEF ClosingInv, Closing, ChannelClosedWithSession
<1> QED
  BY <1>1, SessionsClose, PTL
=============================================================================
