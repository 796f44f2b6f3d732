------------------------- MODULE ConsumeStreamProofs -------------------------
(***************************************************************************)
(* Proofs about the Consume RPC (ConsumeStream), for any number of         *)
(* requests and deliveries and any capacity of messageChannel:             *)
(*   - the client gets the messages in the order of the provider and       *)
(*     without a gap;                                                      *)
(*   - a loop stopped by a failed goroutine returns an error;              *)
(*   - handler, sender and subscriber implement MessageLine.               *)
(* The numbers of the messages follow the line they stand in: those sent,  *)
(* the one in the sender's hands, those in messageChannel, the one the     *)
(* subscriber is about to push.  The error follows returnError from the    *)
(* goroutine that fails to the operand of return.                          *)
(***************************************************************************)
EXTENDS ConsumeStream, TLAPS

SenderRecords ==
    [pc : Stopping \cup {"none", "select", "send", "done"}, msg : 0..MaxDeliveries]
SubscriberRecords ==
    [pc : Stopping \cup {"none", "wait", "consume", "push", "declared", "done"},
     only : BOOLEAN, ok : BOOLEAN]

\* Where the goroutines can be.
Points ==
    /\ ~isSubscribing => sender.pc = "none" /\ subscriber.pc = "none"
    /\ mcClosed => main \in {"closeStop", "forget", "returned"}
    /\ subscriber.pc = "push" => delivered # 0

\* The line of messages, from the client to the provider.
InLine ==
    /\ \A i \in 1..Len(sent) : sent[i] = i
    /\ sender.pc \in {"none", "select", "send"} =>
          /\ sender.pc = "send" => sender.msg = Len(sent) + 1
          /\ \A i \in 1..Len(messageChannel) : messageChannel[i] = Len(sent) + InHand + i
          /\ ~mcClosed => delivered = Len(sent) + InHand + Len(messageChannel) + Pushing

\* The way of an error.
ErrorKept ==
    /\ sender.pc \in Stopping => returnError
    /\ ~subscriber.ok => returnError
    /\ stopped => /\ returnError
                  /\ main \notin {"start", "top", "select"}
                  /\ main # "return" => result

IInv == TypeOK /\ Points /\ InLine /\ ErrorKept
-----------------------------------------------------------------------------
\* The appended element is the last, the others stay.
LEMMA AppendFacts ==
    ASSUME NEW S, NEW s \in Seq(S), NEW e \in S
    PROVE  /\ Append(s, e) \in Seq(S) /\ Len(Append(s, e)) = Len(s) + 1 /\ Len(s) \in Nat
           /\ \A i \in 1..Len(s) : Append(s, e)[i] = s[i]
           /\ Append(s, e)[Len(s) + 1] = e
OBVIOUS

\* The elements of the tail are those after the head.
LEMMA TailFacts ==
    ASSUME NEW S, NEW s \in Seq(S), s # <<>>
    PROVE  /\ Tail(s) \in Seq(S) /\ Len(Tail(s)) = Len(s) - 1 /\ Len(s) \in Nat \ {0}
           /\ \A i \in 1..Len(s) - 1 : Tail(s)[i] = s[i + 1]
           /\ Head(s) = s[1] /\ Head(s) \in S
<1>1. Len(s) \in Nat \ {0}
  OBVIOUS
<1>2. Tail(s) \in Seq(S) /\ Len(Tail(s)) = Len(s) - 1
  BY <1>1
<1>3. \A i \in 1..Len(s) - 1 : Tail(s)[i] = s[i + 1]
  BY <1>1
<1>4. Head(s) = s[1] /\ Head(s) \in S
  BY <1>1
<1> QED
  BY <1>1, <1>2, <1>3, <1>4

\* No goroutine runs yet and the line is empty.
LEMMA InitInv == Init => IInv
<1> SUFFICES ASSUME Init PROVE IInv
  OBVIOUS
<1> USE ConsumeAssumption
<1>1. 0 \in 0..MaxRequests /\ 0 \in 0..MaxDeliveries
  OBVIOUS
<1>2. /\ sent = <<>> /\ messageChannel = <<>> /\ delivered = 0 /\ sender.pc = "none"
      /\ subscriber.pc = "none" /\ subscriber.ok /\ ~stopped /\ ~mcClosed
  BY DEF Init
<1>3. TypeOK
  <2>1. sender \in SenderRecords /\ subscriber \in SubscriberRecords
    BY <1>1 DEF Init, SenderRecords, SubscriberRecords
  <2>2. receiver \in [pc : {"none", "recv", "offer"}, got : Requests \cup {"error", "none"}]
    BY DEF Init, Idle
  <2>3. messageChannel \in Seq(1..MaxDeliveries) /\ Len(messageChannel) <= Buffer
        /\ sent \in Seq(1..MaxDeliveries)
    BY <1>2
  <2> QED
    BY <1>1, <2>1, <2>2, <2>3 DEF Init, TypeOK, SenderRecords, SubscriberRecords
<1>4. Points
  BY <1>2 DEF Points
<1>5. InLine
  <2>1. Len(sent) = 0 /\ Len(messageChannel) = 0 /\ InHand = 0 /\ Pushing = 0
    BY <1>2 DEF InHand, Pushing
  <2> QED
    BY <1>2, <2>1 DEF InLine
<1>6. ErrorKept
  BY <1>2 DEF ErrorKept, Stopping
<1> QED
  BY <1>3, <1>4, <1>5, <1>6 DEF IInv

\* A step that moves no message, and lets no sender come back to its loop.
LEMMA LineKept ==
    ASSUME InLine, UNCHANGED <<sent, messageChannel, delivered>>,
           sender'.pc \in {"none", "select", "send"} =>
              /\ sender.pc \in {"none", "select", "send"}
              /\ (sender'.pc = "send") = (sender.pc = "send")
              /\ sender'.msg = sender.msg,
           ~mcClosed' => ~mcClosed /\ ((subscriber'.pc = "push") = (subscriber.pc = "push"))
    PROVE  InLine'
<1>1. sent' = sent /\ messageChannel' = messageChannel /\ delivered' = delivered
  OBVIOUS
<1>2. \A i \in 1..Len(sent') : sent'[i] = i
  BY <1>1 DEF InLine
<1>3. ASSUME sender'.pc \in {"none", "select", "send"}
      PROVE  /\ sender'.pc = "send" => sender'.msg = Len(sent') + 1
             /\ \A i \in 1..Len(messageChannel') : messageChannel'[i] = Len(sent') + InHand' + i
             /\ ~mcClosed' => delivered' = Len(sent') + InHand' + Len(messageChannel') + Pushing'
  <2>1. InHand' = InHand /\ (~mcClosed' => Pushing' = Pushing)
    BY <1>3 DEF InHand, Pushing
  <2>2. sender.pc \in {"none", "select", "send"}
    BY <1>3
  <2> QED
    BY <1>1, <1>3, <2>1, <2>2 DEF InLine
<1> QED
  BY <1>2, <1>3 DEF InLine
-----------------------------------------------------------------------------
(* The handler.                                                            *)

\* Every step of the handler keeps the invariant.
LEMMA MainInv == IInv /\ MainStep => IInv'
<1> SUFFICES ASSUME IInv, MainStep PROVE IInv'
  OBVIOUS
<1> USE ConsumeAssumption
<1>0. TypeOK /\ Points /\ InLine /\ ErrorKept
  BY DEF IInv
<1>1. CASE Start
  <2>1. /\ UNCHANGED <<isSubscribing, returnError, loopCtx, stopForLoop, mcClosed,
                       messageChannel, receiver, sender, subscriber, requests, ended, sent,
                       delivered, stopped>>
        /\ main = "start" /\ main' \in {"top", "returned"} /\ result' \in BOOLEAN
    BY <1>0, <1>1 DEF Start, deferVars, clientVars, TypeOK
  <2>2. TypeOK'
    BY <1>0, <2>1 DEF TypeOK
  <2>3. Points' /\ ErrorKept'
    BY <1>0, <2>1 DEF Points, ErrorKept
  <2>4. InLine'
    BY <1>0, <2>1, LineKept
  <2> QED
    BY <2>2, <2>3, <2>4 DEF IInv
<1>2. CASE Loop
  <2>1. /\ UNCHANGED <<isSubscribing, returnError, result, loopCtx, stopForLoop, mcClosed,
                       messageChannel, sender, subscriber, requests, ended, sent,
                       delivered, stopped>>
        /\ main = "top" /\ main' = "select" /\ receiver' = [Idle EXCEPT !.pc = "recv"]
    BY <1>2 DEF Loop, deferVars, clientVars
  <2>2. TypeOK'
    BY <1>0, <2>1 DEF TypeOK, Idle
  <2>3. Points' /\ ErrorKept'
    BY <1>0, <2>1 DEF Points, ErrorKept
  <2>4. InLine'
    BY <1>0, <2>1, LineKept
  <2> QED
    BY <2>2, <2>3, <2>4 DEF IInv
<1>3. CASE LoopEnds
  <2>1. /\ UNCHANGED <<isSubscribing, returnError, result, loopCtx, stopForLoop, mcClosed,
                       messageChannel, receiver, requests, ended, sent, delivered>>
        /\ main = "select" /\ main' = "return"
    BY <1>3 DEF LoopEnds, deferVars, clientVars
  <2>2. \/ UNCHANGED <<sender, subscriber, stopped>>
        \/ /\ sender.pc = "stop" /\ sender' = [sender EXCEPT !.pc = "done"]
           /\ stopped' = TRUE /\ UNCHANGED subscriber
        \/ /\ subscriber.pc = "stop" /\ subscriber' = [subscriber EXCEPT !.pc = "done"]
           /\ stopped' = ~subscriber.ok /\ UNCHANGED sender
    BY <1>3 DEF LoopEnds
  <2>3. CASE UNCHANGED <<sender, subscriber, stopped>>
    <3>1. TypeOK'
      BY <1>0, <2>1, <2>3 DEF TypeOK
    <3>2. Points' /\ ErrorKept'
      BY <1>0, <2>1, <2>3 DEF Points, ErrorKept
    <3>3. InLine'
      BY <1>0, <2>1, <2>3, LineKept
    <3> QED
      BY <3>1, <3>2, <3>3 DEF IInv
  <2>4. CASE /\ sender.pc = "stop" /\ sender' = [sender EXCEPT !.pc = "done"]
             /\ stopped' = TRUE /\ UNCHANGED subscriber
    <3>1. sender'.pc = "done" /\ sender.pc \in Stopping
      BY <1>0, <2>4 DEF TypeOK, Stopping
    <3>2. TypeOK'
      <4>1. sender' \in SenderRecords /\ stopped' \in BOOLEAN
        BY <1>0, <2>4 DEF TypeOK, SenderRecords
      <4> QED
        BY <1>0, <2>1, <2>4, <4>1 DEF TypeOK, SenderRecords
    <3>3. Points'
      BY <1>0, <2>1, <2>4, <3>1 DEF Points
    <3>4. ErrorKept'
      BY <1>0, <2>1, <2>4, <3>1 DEF ErrorKept, Stopping
    <3>5. InLine'
      BY <1>0, <2>1, <2>4, <3>1, LineKept
    <3> QED
      BY <3>2, <3>3, <3>4, <3>5 DEF IInv
  <2>5. CASE /\ subscriber.pc = "stop" /\ subscriber' = [subscriber EXCEPT !.pc = "done"]
             /\ stopped' = ~subscriber.ok /\ UNCHANGED sender
    <3>1. subscriber'.pc = "done" /\ subscriber'.ok = subscriber.ok
      BY <1>0, <2>5 DEF TypeOK
    <3>2. TypeOK'
      BY <1>0, <2>1, <2>5 DEF TypeOK
    <3>3. Points'
      BY <1>0, <2>1, <2>5, <3>1 DEF Points
    <3>4. ErrorKept'
      BY <1>0, <2>1, <2>5, <3>1 DEF ErrorKept
    <3>5. InLine'
      BY <1>0, <2>1, <2>5, <3>1, LineKept
    <3> QED
      BY <3>2, <3>3, <3>4, <3>5 DEF IInv
  <2> QED
    BY <2>2, <2>3, <2>4, <2>5
<1>4. CASE Subscribe
  <2>1. /\ UNCHANGED <<returnError, loopCtx, stopForLoop, mcClosed, messageChannel,
                       requests, ended, sent, delivered, stopped>>
        /\ main = "select" /\ ~isSubscribing /\ receiver' = Idle
    BY <1>4 DEF Subscribe, deferVars, clientVars
  <2>2. sender.pc = "none" /\ subscriber.pc = "none" /\ ~mcClosed /\ ~stopped
    BY <1>0, <2>1 DEF Points, ErrorKept
  <2>3. CASE receiver.got = "badOptions"
    <3>1. /\ main' = "cancel" /\ result' = TRUE
          /\ UNCHANGED <<isSubscribing, sender, subscriber>>
      BY <1>4, <2>3 DEF Subscribe
    <3>2. TypeOK'
      BY <1>0, <2>1, <3>1 DEF TypeOK, Idle
    <3>3. Points' /\ ErrorKept'
      BY <1>0, <2>1, <2>2, <3>1 DEF Points, ErrorKept
    <3>4. InLine'
      BY <1>0, <2>1, <3>1, LineKept
    <3> QED
      BY <3>2, <3>3, <3>4 DEF IInv
  <2>4. CASE receiver.got # "badOptions"
    <3>1. /\ main' = "top" /\ isSubscribing' = TRUE
          /\ sender' = [sender EXCEPT !.pc = "select"]
          /\ subscriber' = [pc |-> "wait", only |-> receiver.got = "declareOnly", ok |-> TRUE]
          /\ UNCHANGED result
      BY <1>4, <2>4 DEF Subscribe
    <3>2. /\ sender'.pc = "select" /\ sender'.msg = sender.msg
          /\ subscriber'.pc = "wait" /\ subscriber'.ok
      BY <1>0, <3>1 DEF TypeOK
    <3>3. TypeOK'
      <4>1. (receiver.got = "declareOnly") \in BOOLEAN
        OBVIOUS
      <4>2. subscriber' \in [pc : Stopping \cup {"none", "wait", "consume", "push",
                                                 "declared", "done"},
                             only : BOOLEAN, ok : BOOLEAN]
        BY <3>1, <4>1
      <4>3. sender' \in [pc : Stopping \cup {"none", "select", "send", "done"},
                         msg : 0..MaxDeliveries]
        BY <1>0, <3>1 DEF TypeOK
      <4> QED
        BY <1>0, <2>1, <3>1, <4>2, <4>3 DEF TypeOK, Idle
    <3>4. Points' /\ ErrorKept'
      BY <1>0, <2>1, <2>2, <3>1, <3>2 DEF Points, ErrorKept, Stopping
    <3>5. InLine'
      BY <1>0, <2>1, <2>2, <3>2, LineKept
    <3> QED
      BY <3>3, <3>4, <3>5 DEF IInv
  <2> QED
    BY <2>3, <2>4
<1>5. CASE Request
  <2>1. /\ UNCHANGED <<isSubscribing, result, loopCtx, stopForLoop, mcClosed,
                       messageChannel, sender, subscriber, requests, ended, sent,
                       delivered, stopped>>
        /\ main = "select" /\ main' \in {"return", "top"} /\ returnError' \in BOOLEAN
        /\ returnError => returnError'
        /\ receiver' = Idle
    BY <1>0, <1>5 DEF Request, deferVars, clientVars, TypeOK
  <2>2. TypeOK'
    <3>1. receiver' \in [pc : {"none", "recv", "offer"}, got : Requests \cup {"error", "none"}]
      BY <2>1 DEF Idle
    <3> QED
      BY <1>0, <2>1, <3>1 DEF TypeOK
  <2>3. Points' /\ ErrorKept'
    BY <1>0, <2>1 DEF Points, ErrorKept
  <2>4. InLine'
    BY <1>0, <2>1, LineKept
  <2> QED
    BY <2>2, <2>3, <2>4 DEF IInv
<1>6. CASE Return
  <2>1. /\ UNCHANGED <<isSubscribing, returnError, loopCtx, stopForLoop, mcClosed,
                       messageChannel, receiver, sender, subscriber, requests, ended, sent,
                       delivered, stopped>>
        /\ main = "return" /\ main' = "cancel" /\ result' = returnError
    BY <1>6 DEF Return, deferVars, clientVars
  <2>2. TypeOK'
    BY <1>0, <2>1 DEF TypeOK
  <2>3. Points' /\ ErrorKept'
    BY <1>0, <2>1 DEF Points, ErrorKept
  <2>4. InLine'
    BY <1>0, <2>1, LineKept
  <2> QED
    BY <2>2, <2>3, <2>4 DEF IInv
<1>7. CASE Deferred
  <2>1. /\ UNCHANGED <<isSubscribing, returnError, result, messageChannel, receiver,
                       sender, subscriber, requests, ended, sent, delivered, stopped>>
        /\ main \in {"cancel", "closeMessages", "closeStop", "forget"}
        /\ loopCtx' = TRUE /\ mcClosed' = (main # "cancel")
    BY <1>7 DEF Deferred, clientVars
  <2>2. /\ main' \in {"closeMessages", "closeStop", "forget", "returned"}
        /\ main # "cancel" => main' \in {"closeStop", "forget", "returned"}
        /\ stopForLoop' \in {"closed", "nil", stopForLoop}
    BY <1>7 DEF Deferred
  <2>3. TypeOK'
    BY <1>0, <2>1, <2>2 DEF TypeOK
  <2>4. mcClosed => mcClosed'
    BY <1>0, <2>1 DEF Points
  <2>5. Points' /\ ErrorKept'
    BY <1>0, <2>1, <2>2 DEF Points, ErrorKept
  <2>6. InLine'
    BY <1>0, <2>1, <2>4, LineKept
  <2> QED
    BY <2>3, <2>5, <2>6 DEF IInv
<1> QED
  BY <1>1, <1>2, <1>3, <1>4, <1>5, <1>6, <1>7 DEF MainStep
-----------------------------------------------------------------------------
(* The receiver and the client change no message and no error.             *)

\* Every step of the receiver and of the client keeps the invariant.
LEMMA ReceiverInv == IInv /\ (Recv \/ ReceiverStep \/ ClientEnds \/ UNCHANGED vars) => IInv'
<1> SUFFICES ASSUME IInv, Recv \/ ReceiverStep \/ ClientEnds \/ UNCHANGED vars PROVE IInv'
  OBVIOUS
<1> USE ConsumeAssumption
<1>0. TypeOK /\ Points /\ InLine /\ ErrorKept
  BY DEF IInv
<1>1. UNCHANGED <<main, isSubscribing, returnError, result, loopCtx, stopForLoop, mcClosed,
                  messageChannel, sender, subscriber, sent, delivered, stopped>>
  BY DEF Recv, ReceiverStep, RecvEnd, ReceiverStops, ClientEnds, vars, deferVars, clientVars
<1>2. /\ requests' \in 0..MaxRequests /\ ended' \in {"no", "eof", "cancel"}
      /\ receiver' \in [pc : {"none", "recv", "offer"}, got : Requests \cup {"error", "none"}]
  <2>1. CASE Recv
    <3>1. requests' \in 0..MaxRequests
      BY <1>0, <2>1 DEF Recv, TypeOK
    <3> QED
      BY <1>0, <2>1, <3>1 DEF Recv, TypeOK
  <2>2. CASE ReceiverStep
    BY <1>0, <2>2 DEF ReceiverStep, RecvEnd, ReceiverStops, TypeOK, Idle, clientVars
  <2>3. CASE ClientEnds
    BY <1>0, <2>3 DEF ClientEnds, TypeOK
  <2>4. CASE UNCHANGED vars
    BY <1>0, <2>4 DEF vars, TypeOK
  <2> QED
    BY <2>1, <2>2, <2>3, <2>4
<1>3. TypeOK'
  BY <1>0, <1>1, <1>2 DEF TypeOK
<1>4. Points' /\ ErrorKept'
  BY <1>0, <1>1 DEF Points, ErrorKept
<1>5. InLine'
  BY <1>0, <1>1, LineKept
<1> QED
  BY <1>3, <1>4, <1>5 DEF IInv
-----------------------------------------------------------------------------
(* The sender.                                                             *)

\* The sender takes the head of the line and sends it, or leaves its loop.
LEMMA SenderInv == IInv /\ SenderStep => IInv'
<1> SUFFICES ASSUME IInv, SenderStep PROVE IInv'
  OBVIOUS
<1> USE ConsumeAssumption
<1>0. TypeOK /\ Points /\ InLine /\ ErrorKept
  BY DEF IInv
<1>1. CASE SenderTake
  <2> DEFINE S == 1..MaxDeliveries
             t == Tail(messageChannel)
             h == Head(messageChannel)
             n == Len(messageChannel)
             l == Len(sent)
  <2>1. /\ UNCHANGED <<main, isSubscribing, returnError, result, loopCtx, stopForLoop, mcClosed,
                       receiver, subscriber, requests, ended, sent, delivered, stopped>>
        /\ sender.pc = "select" /\ messageChannel # <<>>
        /\ sender' = [pc |-> "send", msg |-> h] /\ messageChannel' = t
    BY <1>1 DEF SenderTake, deferVars, clientVars
  <2>2. /\ messageChannel \in Seq(S) /\ sent \in Seq(S) /\ l \in Nat
        /\ delivered \in Nat /\ Len(messageChannel) <= Buffer
    BY <1>0 DEF TypeOK
  <2>3. /\ t \in Seq(S) /\ Len(t) = n - 1 /\ n \in Nat \ {0}
        /\ \A i \in 1..n - 1 : t[i] = messageChannel[i + 1]
        /\ h = messageChannel[1] /\ h \in S
    <3> HIDE DEF S
    <3> QED
      BY <2>1, <2>2, TailFacts
  <2>4. sender'.pc = "send" /\ sender'.msg = h
    BY <2>1
  <2>5. InHand = 0 /\ InHand' = 1 /\ Pushing' = Pushing /\ Pushing \in Nat
    BY <2>1, <2>4 DEF InHand, Pushing
  <2>6. /\ \A i \in 1..n : messageChannel[i] = l + 0 + i
        /\ ~mcClosed => delivered = l + 0 + n + Pushing
    BY <1>0, <2>1, <2>5 DEF InLine
  <2> HIDE DEF t, h, l, n
  <2>7. TypeOK'
    <3>1. sender' \in [pc : Stopping \cup {"none", "select", "send", "done"},
                       msg : 0..MaxDeliveries]
      BY <2>1, <2>3
    <3>2. messageChannel' \in Seq(S) /\ Len(messageChannel') <= Buffer
      BY <2>1, <2>2, <2>3 DEF n
    <3> QED
      BY <1>0, <2>1, <3>1, <3>2 DEF TypeOK
  <2>8. Points' /\ ErrorKept'
    BY <1>0, <2>1, <2>4 DEF Points, ErrorKept, Stopping
  <2>9. InLine'
    <3>1. \A i \in 1..Len(sent') : sent'[i] = i
      BY <1>0, <2>1 DEF InLine
    <3>2. sender'.msg = Len(sent') + 1
      <4>1. 1 \in 1..n
        BY <2>3
      <4>2. h = l + 0 + 1
        BY <2>3, <2>6, <4>1
      <4> QED
        BY <2>1, <2>2, <2>4, <4>2 DEF l
    <3>3. \A i \in 1..Len(messageChannel') : messageChannel'[i] = Len(sent') + InHand' + i
      <4> SUFFICES ASSUME NEW i \in 1..(n - 1) PROVE t[i] = l + 1 + i
        BY <2>1, <2>3, <2>5 DEF l
      <4>1. i + 1 \in 1..n /\ t[i] = messageChannel[i + 1] /\ i \in Nat
        BY <2>3
      <4>2. t[i] = l + 0 + (i + 1)
        BY <2>6, <4>1
      <4> QED
        BY <2>2, <4>1, <4>2 DEF l
    <3>4. ~mcClosed' => delivered' = Len(sent') + InHand' + Len(messageChannel') + Pushing'
      <4>1. ASSUME ~mcClosed PROVE delivered = l + 1 + (n - 1) + Pushing
        BY <2>2, <2>3, <2>5, <2>6, <4>1 DEF l
      <4> QED
        BY <2>1, <2>3, <2>5, <4>1 DEF l
    <3> QED
      BY <3>1, <3>2, <3>3, <3>4 DEF InLine
  <2> QED
    BY <2>7, <2>8, <2>9 DEF IInv
<1>2. CASE SenderReturns
  <2>1. /\ UNCHANGED <<main, isSubscribing, returnError, result, loopCtx, stopForLoop, mcClosed,
                       messageChannel, receiver, subscriber, requests, ended, sent, delivered,
                       stopped>>
        /\ sender.pc = "select" /\ sender' = [sender EXCEPT !.pc = "done"]
    BY <1>2 DEF SenderReturns, deferVars, clientVars
  <2>2. sender'.pc = "done"
    BY <1>0, <2>1 DEF TypeOK
  <2>3. TypeOK'
    BY <1>0, <2>1 DEF TypeOK
  <2>4. Points' /\ ErrorKept'
    BY <1>0, <2>1, <2>2 DEF Points, ErrorKept, Stopping
  <2>5. InLine'
    BY <1>0, <2>1, <2>2, LineKept
  <2> QED
    BY <2>3, <2>4, <2>5 DEF IInv
<1>3. CASE SenderSend
  <2>1. /\ UNCHANGED <<main, isSubscribing, result, loopCtx, stopForLoop, mcClosed,
                       messageChannel, receiver, subscriber, requests, ended, delivered,
                       stopped>>
        /\ sender.pc = "send"
    BY <1>3 DEF SenderSend, deferVars
  <2>2. CASE sender' = [sender EXCEPT !.pc = "test"] /\ returnError' = TRUE /\ UNCHANGED sent
    <3>1. sender'.pc = "test"
      BY <1>0, <2>2 DEF TypeOK
    <3>2. TypeOK'
      BY <1>0, <2>1, <2>2 DEF TypeOK, Stopping
    <3>3. Points' /\ ErrorKept'
      BY <1>0, <2>1, <2>2, <3>1 DEF Points, ErrorKept, Stopping
    <3>4. InLine'
      BY <1>0, <2>1, <2>2, <3>1, LineKept
    <3> QED
      BY <3>2, <3>3, <3>4 DEF IInv
  <2>3. CASE /\ sent' = Append(sent, sender.msg) /\ sender' = [pc |-> "select", msg |-> 0]
             /\ UNCHANGED returnError
    <3> DEFINE S == 1..MaxDeliveries
               m == sender.msg
               l == Len(sent)
               n == Len(messageChannel)
    <3>1. sender'.pc = "select" /\ sender'.msg = 0
      BY <2>3
    <3>2. /\ sent \in Seq(S) /\ messageChannel \in Seq(S) /\ l \in Nat /\ n \in Nat
          /\ m \in 0..MaxDeliveries
      BY <1>0 DEF TypeOK
    <3>3. InHand = 1 /\ InHand' = 0 /\ Pushing' = Pushing /\ Pushing \in Nat
      BY <2>1, <3>1 DEF InHand, Pushing
    <3>4. /\ m = l + 1 /\ \A i \in 1..n : messageChannel[i] = l + 1 + i
          /\ ~mcClosed => delivered = l + 1 + n + Pushing
          /\ \A i \in 1..l : sent[i] = i
      BY <1>0, <2>1, <3>3 DEF InLine
    <3>5. m \in S
      BY <3>2, <3>4
    <3> HIDE DEF S, m, l, n
    <3>6. /\ sent' \in Seq(S) /\ Len(sent') = l + 1 /\ sent'[l + 1] = m
          /\ \A i \in 1..l : sent'[i] = sent[i]
      BY <2>3, <3>2, <3>5, AppendFacts DEF m, l
    <3>7. TypeOK'
      <4>1. 0 \in 0..MaxDeliveries
        OBVIOUS
      <4>2. sender' \in [pc : Stopping \cup {"none", "select", "send", "done"},
                         msg : 0..MaxDeliveries]
        BY <2>3, <4>1
      <4>3. sent' \in Seq(1..MaxDeliveries)
        BY <3>6 DEF S
      <4> QED
        BY <1>0, <2>1, <2>3, <4>2, <4>3 DEF TypeOK
    <3>8. Points' /\ ErrorKept'
      BY <1>0, <2>1, <2>3, <3>1 DEF Points, ErrorKept, Stopping
    <3>9. InLine'
      <4>1. \A i \in 1..Len(sent') : sent'[i] = i
        <5> SUFFICES ASSUME NEW i \in 1..(l + 1) PROVE sent'[i] = i
          BY <3>6
        <5>1. CASE i = l + 1
          BY <3>4, <3>6, <5>1
        <5>2. CASE i # l + 1
          <6>1. i \in 1..l
            BY <3>2, <5>2
          <6> QED
            BY <3>4, <3>6, <6>1
        <5> QED
          BY <5>1, <5>2
      <4>2. \A i \in 1..Len(messageChannel') : messageChannel'[i] = Len(sent') + InHand' + i
        <5> SUFFICES ASSUME NEW i \in 1..n PROVE messageChannel[i] = (l + 1) + 0 + i
          BY <2>1, <3>3, <3>6 DEF n
        <5> QED
          BY <3>2, <3>4
      <4>3. ~mcClosed' => delivered' = Len(sent') + InHand' + Len(messageChannel') + Pushing'
        <5>1. ASSUME ~mcClosed PROVE delivered = (l + 1) + 0 + n + Pushing
          BY <3>2, <3>3, <3>4, <5>1
        <5> QED
          BY <2>1, <3>3, <3>6, <5>1 DEF n
      <4> QED
        BY <3>1, <4>1, <4>2, <4>3 DEF InLine
    <3> QED
      BY <3>7, <3>8, <3>9 DEF IInv
  <2> QED
    BY <1>3, <2>2, <2>3 DEF SenderSend
<1>4. CASE SenderStop
  <2>1. UNCHANGED <<main, isSubscribing, returnError, result, loopCtx, stopForLoop, mcClosed,
                    messageChannel, receiver, subscriber, requests, ended, sent, delivered,
                    stopped>>
    BY <1>4 DEF SenderStop, deferVars, clientVars
  <2>2. PICK next \in StopSteps(sender.pc) : sender' = [sender EXCEPT !.pc = next]
    BY <1>4 DEF SenderStop
  <2>3. sender.pc \in Stopping /\ next \in Stopping \cup {"done"}
    BY <2>2 DEF StopSteps, Stopping
  <2>4. sender'.pc = next
    BY <1>0, <2>2 DEF TypeOK
  <2>5. TypeOK'
    BY <1>0, <2>1, <2>2, <2>3 DEF TypeOK
  <2>6. Points' /\ ErrorKept'
    BY <1>0, <2>1, <2>3, <2>4 DEF Points, ErrorKept, Stopping
  <2>7. InLine'
    BY <1>0, <2>1, <2>3, <2>4, LineKept DEF Stopping
  <2> QED
    BY <2>5, <2>6, <2>7 DEF IInv
<1> QED
  BY <1>1, <1>2, <1>3, <1>4 DEF SenderStep
-----------------------------------------------------------------------------
(* The subscriber.                                                         *)

\* The subscriber joins the end of the line.
LEMMA SubscriberInv ==
    IInv /\ (WaitForConnect \/ Deliver \/ Push \/ Unsubscribe \/ Declared \/ SubscriberStop)
        => IInv'
<1> SUFFICES ASSUME IInv, \/ WaitForConnect \/ Deliver \/ Push \/ Unsubscribe
                          \/ Declared \/ SubscriberStop
             PROVE  IInv'
  OBVIOUS
<1> USE ConsumeAssumption
<1>0. TypeOK /\ Points /\ InLine /\ ErrorKept
  BY DEF IInv
<1>1. CASE WaitForConnect \/ Unsubscribe \/ Declared \/ SubscriberStop
  <2>1. /\ UNCHANGED <<main, isSubscribing, result, loopCtx, stopForLoop, mcClosed,
                       messageChannel, receiver, sender, requests, ended, sent, delivered,
                       stopped>>
    BY <1>1 DEF WaitForConnect, Unsubscribe, Declared, SubscriberStop, deferVars, clientVars
  <2>2. /\ subscriber' \in [pc : Stopping \cup {"none", "wait", "consume", "push",
                                                "declared", "done"},
                            only : BOOLEAN, ok : BOOLEAN]
        /\ returnError' \in BOOLEAN /\ (returnError => returnError')
        /\ subscriber.pc # "none" /\ subscriber.pc # "push" /\ subscriber'.pc # "push"
        /\ ~subscriber'.ok => returnError' \/ ~subscriber.ok
    <3>1. CASE WaitForConnect
      BY <1>0, <3>1 DEF WaitForConnect, TypeOK, Stopping
    <3>2. CASE Unsubscribe
      <4>1. PICK ok \in BOOLEAN :
              /\ subscriber' = [subscriber EXCEPT !.pc = "declared", !.ok = ok]
              /\ returnError' = (returnError \/ ~ok)
        BY <3>2 DEF Unsubscribe
      <4>2. subscriber.pc = "consume"
        BY <3>2 DEF Unsubscribe
      <4>3. /\ subscriber' \in [pc : Stopping \cup {"none", "wait", "consume", "push",
                                                    "declared", "done"},
                                only : BOOLEAN, ok : BOOLEAN]
            /\ subscriber'.pc = "declared" /\ subscriber'.ok = ok
        BY <1>0, <4>1 DEF TypeOK
      <4> QED
        BY <1>0, <4>1, <4>2, <4>3 DEF TypeOK
    <3>3. CASE Declared
      BY <1>0, <3>3 DEF Declared, TypeOK, Stopping
    <3>4. CASE SubscriberStop
      <4>1. PICK next \in StopSteps(subscriber.pc) : subscriber' = [subscriber EXCEPT !.pc = next]
        BY <3>4 DEF SubscriberStop
      <4>2. subscriber.pc \in Stopping /\ next \in Stopping \cup {"done"}
        BY <4>1 DEF StopSteps, Stopping
      <4>3. returnError' = returnError
        BY <3>4 DEF SubscriberStop
      <4>4. /\ subscriber' \in [pc : Stopping \cup {"none", "wait", "consume", "push",
                                                    "declared", "done"},
                                only : BOOLEAN, ok : BOOLEAN]
            /\ subscriber'.pc = next /\ subscriber'.ok = subscriber.ok
        BY <1>0, <4>1, <4>2 DEF TypeOK
      <4> QED
        BY <1>0, <4>2, <4>3, <4>4 DEF TypeOK, Stopping
    <3> QED
      BY <1>1, <3>1, <3>2, <3>3, <3>4
  <2>3. TypeOK'
    BY <1>0, <2>1, <2>2 DEF TypeOK
  <2>4. Points'
    BY <1>0, <2>1, <2>2 DEF Points
  <2>5. ErrorKept'
    BY <1>0, <2>1, <2>2 DEF ErrorKept
  <2>6. InLine'
    BY <1>0, <2>1, <2>2, LineKept
  <2> QED
    BY <2>3, <2>4, <2>5, <2>6 DEF IInv
<1>2. CASE Deliver
  <2>1. /\ UNCHANGED <<main, isSubscribing, returnError, result, loopCtx, stopForLoop, mcClosed,
                       messageChannel, receiver, sender, requests, ended, sent, stopped>>
        /\ subscriber.pc = "consume" /\ subscriber' = [subscriber EXCEPT !.pc = "push"]
        /\ delivered < MaxDeliveries /\ delivered' = delivered + 1
    BY <1>2 DEF Deliver, deferVars, clientVars
  <2>2. subscriber'.pc = "push" /\ subscriber'.ok = subscriber.ok
    BY <1>0, <2>1 DEF TypeOK
  <2>3. delivered \in Nat /\ delivered' \in 0..MaxDeliveries /\ delivered' # 0
    BY <1>0, <2>1 DEF TypeOK
  <2>4. TypeOK'
    <3>1. subscriber' \in SubscriberRecords
      BY <1>0, <2>1 DEF TypeOK, SubscriberRecords
    <3> QED
      BY <1>0, <2>1, <2>3, <3>1 DEF TypeOK, SubscriberRecords
  <2>5. Points' /\ ErrorKept'
    BY <1>0, <2>1, <2>2, <2>3 DEF Points, ErrorKept
  <2>6. InLine'
    <3>1. Pushing = 0 /\ Pushing' = 1 /\ InHand' = InHand /\ InHand \in Nat
      BY <2>1, <2>2 DEF Pushing, InHand
    <3>2. Len(sent) \in Nat /\ Len(messageChannel) \in Nat
      BY <1>0 DEF TypeOK
    <3>3. sent' = sent /\ messageChannel' = messageChannel /\ sender' = sender /\ mcClosed' = mcClosed
      BY <2>1
    <3>4. ASSUME sender.pc \in {"none", "select", "send"}, ~mcClosed
          PROVE  delivered' = Len(sent) + InHand + Len(messageChannel) + 1
      <4>1. delivered = Len(sent) + InHand + Len(messageChannel) + 0
        BY <1>0, <3>1, <3>4 DEF InLine
      <4> QED
        BY <2>1, <3>1, <3>2, <4>1
    <3> QED
      BY <1>0, <3>1, <3>3, <3>4 DEF InLine
  <2> QED
    BY <2>4, <2>5, <2>6 DEF IInv
<1>3. CASE Push
  <2>1. /\ UNCHANGED <<main, isSubscribing, returnError, result, loopCtx, stopForLoop, mcClosed,
                       receiver, sender, requests, ended, sent, delivered, stopped>>
        /\ subscriber.pc = "push"
    BY <1>3 DEF Push, deferVars, clientVars
  <2>2. CASE /\ mcClosed /\ subscriber' = [subscriber EXCEPT !.pc = "declared"]
             /\ UNCHANGED messageChannel
    <3>1. subscriber'.pc = "declared" /\ subscriber'.ok = subscriber.ok
      BY <1>0, <2>2 DEF TypeOK
    <3>2. TypeOK'
      BY SMTT(30), <1>0, <2>1, <2>2 DEF TypeOK
    <3>3. Points' /\ ErrorKept'
      BY <1>0, <2>1, <3>1 DEF Points, ErrorKept
    <3>4. InLine'
      BY <1>0, <2>1, <2>2, <3>1, LineKept
    <3> QED
      BY <3>2, <3>3, <3>4 DEF IInv
  <2>3. CASE /\ ~mcClosed /\ Len(messageChannel) < Buffer
             /\ messageChannel' = Append(messageChannel, delivered)
             /\ subscriber' = [subscriber EXCEPT !.pc = "consume"]
    <3> DEFINE S == 1..MaxDeliveries
               l == Len(sent)
               n == Len(messageChannel)
    <3>1. subscriber'.pc = "consume" /\ subscriber'.ok = subscriber.ok
      BY <1>0, <2>3 DEF TypeOK
    <3>2. /\ messageChannel \in Seq(S) /\ l \in Nat /\ n \in Nat
          /\ delivered \in S /\ delivered \in Nat
      BY <1>0, <2>1 DEF TypeOK, Points
    <3>3. Pushing = 1 /\ Pushing' = 0 /\ InHand' = InHand /\ InHand \in Nat
      BY <2>1, <3>1 DEF Pushing, InHand
    <3>4. /\ messageChannel' \in Seq(S) /\ Len(messageChannel') = n + 1
          /\ messageChannel'[n + 1] = delivered
          /\ \A i \in 1..n : messageChannel'[i] = messageChannel[i]
      <4> HIDE DEF S
      <4> QED
        BY <2>3, <3>2, AppendFacts
    <3>5. TypeOK'
      <4>1. subscriber' \in SubscriberRecords
        BY <1>0, <2>3 DEF TypeOK, SubscriberRecords
      <4>2. Len(messageChannel') <= Buffer
        BY <2>3, <3>2, <3>4
      <4> QED
        BY <1>0, <2>1, <3>4, <4>1, <4>2 DEF TypeOK, SubscriberRecords
    <3>6. Points' /\ ErrorKept'
      BY <1>0, <2>1, <3>1 DEF Points, ErrorKept
    <3>7. InLine'
      <4>1. \A i \in 1..Len(sent') : sent'[i] = i
        BY <1>0, <2>1 DEF InLine
      <4>2. sender' = sender /\ sent' = sent /\ delivered' = delivered /\ mcClosed' = mcClosed
        BY <2>1
      <4>3. ASSUME sender.pc \in {"none", "select", "send"}
            PROVE  /\ sender.pc = "send" => sender.msg = l + 1
                   /\ \A i \in 1..Len(messageChannel') : messageChannel'[i] = l + InHand + i
                   /\ delivered = l + InHand + Len(messageChannel') + 0
        <5>1. /\ sender.pc = "send" => sender.msg = l + 1
              /\ \A i \in 1..n : messageChannel[i] = l + InHand + i
              /\ delivered = l + InHand + n + 1
          BY <1>0, <2>3, <3>3, <4>3 DEF InLine
        <5> HIDE DEF l, n
        <5>2. delivered = l + InHand + (n + 1) + 0
          BY <3>2, <3>3, <5>1
        <5>3. ASSUME NEW i \in 1..(n + 1) PROVE messageChannel'[i] = l + InHand + i
          <6>1. CASE i = n + 1
            BY <3>2, <3>3, <3>4, <5>2, <6>1
          <6>2. CASE i # n + 1
            <7>1. i \in 1..n
              BY <3>2, <6>2
            <7> QED
              BY <3>4, <5>1, <7>1
          <6> QED
            BY <6>1, <6>2
        <5> QED
          BY <3>4, <5>1, <5>2, <5>3
      <4> QED
        BY <3>3, <4>1, <4>2, <4>3 DEF InLine
    <3> QED
      BY <3>5, <3>6, <3>7 DEF IInv
  <2> QED
    BY <1>3, <2>2, <2>3 DEF Push
<1> QED
  BY <1>1, <1>2, <1>3
-----------------------------------------------------------------------------
\* The invariant holds in every reachable state.
LEMMA InvHolds == Spec => []IInv
<1>1. IInv /\ [Next]_vars => IInv'
  BY MainInv, ReceiverInv, SenderInv, SubscriberInv DEF Next
<1> QED
  BY <1>1, InitInv, PTL DEF Spec

\* The client of Consume gets the messages in the order of the provider, and none is
\* left out while the stream works, for any number of messages and any capacity of
\* messageChannel.
THEOREM ForwardedInOrderAlways == Spec => []ForwardedInOrder
<1>1. IInv => ForwardedInOrder
  <2> SUFFICES ASSUME IInv PROVE ForwardedInOrder
    OBVIOUS
  <2>1. /\ \A i \in 1..Len(sent) : sent[i] = i
        /\ InHand \in Nat /\ Pushing \in Nat /\ Len(sent) \in Nat /\ Len(messageChannel) \in Nat
    BY DEF IInv, InLine, InHand, Pushing, TypeOK
  <2>2. ASSUME sender.pc \in {"select", "send"}, main \in {"top", "select"}
        PROVE  delivered = Len(sent) + Len(messageChannel) + InHand + Pushing
    <3>1. ~mcClosed
      BY <2>2 DEF IInv, Points
    <3>2. delivered = Len(sent) + InHand + Len(messageChannel) + Pushing
      BY <2>2, <3>1 DEF IInv, InLine
    <3> QED
      BY <2>1, <3>2
  <2> QED
    BY <2>1, <2>2 DEF ForwardedInOrder, InHand, Pushing
<1> QED
  BY <1>1, InvHolds, PTL

\* A failure that stops the loop of Consume is in returnError by then, so that the
\* handler returns it.
THEOREM FailuresAreReported == Spec => []FailureReported
<1>1. IInv => FailureReported
  BY DEF IInv, ErrorKept, FailureReported
<1> QED
  BY <1>1, InvHolds, PTL
-----------------------------------------------------------------------------
(***************************************************************************)
(* The line of messages.  A message enters with Deliver and leaves with    *)
(* Send; SenderTake and Push move it on.                                   *)
(***************************************************************************)

\* A step that moves no message and ends neither the sender nor the channel.
LEMMA LineStutters ==
    ASSUME UNCHANGED <<sent, messageChannel, mcClosed>>,
           (sender.pc = "send") = (sender'.pc = "send"),
           SenderWorks' = SenderWorks,
           (subscriber.pc = "push") = (subscriber'.pc = "push") \/ mcClosed \/ ~SenderWorks
    PROVE  UNCHANGED <<InTransit, sent, mcClosed \/ ~SenderWorks>>
<1>1. InHand' = InHand
  BY DEF InHand
<1>2. mcClosed \/ ~SenderWorks \/ Pushing' = Pushing
  BY DEF Pushing
<1>3. messageChannel' = messageChannel /\ mcClosed' = mcClosed /\ sent' = sent
  OBVIOUS
<1>4. InTransit' = InTransit
  BY <1>1, <1>2, <1>3 DEF InTransit
<1> QED
  BY <1>3, <1>4

\* How much of the line either goroutine can hold.
LEMMA LineTypes ==
    ASSUME TypeOK
    PROVE  /\ InHand \in 0..1 /\ Pushing \in 0..1
           /\ Len(messageChannel) \in 0..Buffer /\ Len(sent) \in Nat
           /\ InTransit \in 0..(Buffer + 2)
<1>1. InHand \in 0..1 /\ Pushing \in 0..1
  BY DEF InHand, Pushing
<1>2. Len(messageChannel) \in Nat /\ Len(messageChannel) <= Buffer /\ Len(sent) \in Nat
  BY DEF TypeOK
<1> QED
  BY <1>1, <1>2, ConsumeAssumption DEF InTransit

\* Closing messageChannel, and the end of the sender, cut the line.
LEMMA LineIsCut ==
    ASSUME TypeOK, TypeOK', UNCHANGED <<sent, messageChannel, subscriber>>,
           \/ mcClosed' /\ sender' = sender
           \/ SenderWorks /\ ~SenderWorks'
    PROVE  Line!Cut
<1>1. CASE SenderWorks /\ ~SenderWorks'
  <2>1. InTransit' = 0
    BY <1>1 DEF InTransit
  <2> QED
    BY <1>1, <2>1, LineTypes DEF Line!Cut
<1>2. CASE mcClosed' /\ sender' = sender
  <2>1. /\ SenderWorks' = SenderWorks /\ InHand' = InHand
        /\ Len(messageChannel') = Len(messageChannel)
    BY <1>2 DEF SenderWorks, InHand
  <2>2. InTransit' = IF SenderWorks THEN InHand + Len(messageChannel) + 0 ELSE 0
    BY <1>2, <2>1 DEF InTransit
  <2>3. InTransit' \in 0..InTransit
    BY <2>2, LineTypes DEF InTransit
  <2> QED
    BY <1>2, <2>3 DEF Line!Cut
<1> QED
  BY <1>1, <1>2

\* Every step of the RPC is a step of the line or leaves it alone.
LEMMA LineStep ==
    IInv /\ IInv' /\ [Next]_vars => [Line!Next]_<<InTransit, sent, mcClosed \/ ~SenderWorks>>
<1> SUFFICES ASSUME IInv, IInv', [Next]_vars
             PROVE  [Line!Next]_<<InTransit, sent, mcClosed \/ ~SenderWorks>>
  OBVIOUS
<1> DEFINE Same == UNCHANGED <<InTransit, sent, mcClosed \/ ~SenderWorks>>
<1>0. TypeOK /\ TypeOK' /\ Points /\ InLine
  BY DEF IInv
<1>1. CASE \/ Start \/ Loop \/ Request \/ Return \/ Recv \/ ReceiverStep \/ ClientEnds
           \/ UNCHANGED vars
  <2>1. UNCHANGED <<sent, messageChannel, mcClosed, sender, subscriber>>
    BY <1>1 DEF Start, Loop, Request, Return, Recv, ReceiverStep, RecvEnd, ReceiverStops,
                ClientEnds, vars, deferVars, clientVars
  <2>2. SenderWorks' = SenderWorks
    BY <2>1 DEF SenderWorks
  <2>3. Same
    BY <2>1, <2>2, LineStutters
  <2> QED
    BY <2>3
<1>2. CASE WaitForConnect \/ Unsubscribe \/ Declared \/ SubscriberStop
  <2>1. /\ UNCHANGED <<sent, messageChannel, mcClosed, sender>>
        /\ subscriber.pc # "push" /\ subscriber'.pc # "push"
    <3>1. CASE WaitForConnect \/ Unsubscribe \/ Declared
      BY <1>0, <3>1 DEF WaitForConnect, Unsubscribe, Declared, TypeOK, deferVars, clientVars
    <3>2. CASE SubscriberStop
      <4>1. PICK next \in StopSteps(subscriber.pc) : subscriber' = [subscriber EXCEPT !.pc = next]
        BY <3>2 DEF SubscriberStop
      <4>2. subscriber.pc # "push" /\ next # "push"
        BY <4>1 DEF StopSteps
      <4>3. subscriber'.pc = next
        BY <1>0, <4>1 DEF TypeOK
      <4> QED
        BY <3>2, <4>2, <4>3 DEF SubscriberStop, deferVars, clientVars
    <3> QED
      BY <1>2, <3>1, <3>2
  <2>2. SenderWorks' = SenderWorks
    BY <2>1 DEF SenderWorks
  <2>3. Same
    BY <2>1, <2>2, LineStutters
  <2> QED
    BY <2>3
<1>3. CASE LoopEnds
  <2>1. /\ UNCHANGED <<sent, messageChannel, mcClosed>>
        /\ \/ UNCHANGED sender
           \/ sender.pc = "stop" /\ sender'.pc = "done"
        /\ \/ UNCHANGED subscriber
           \/ subscriber.pc = "stop" /\ subscriber'.pc = "done"
    BY <1>0, <1>3 DEF LoopEnds, TypeOK, deferVars, clientVars
  <2>2. SenderWorks' = SenderWorks
    BY <2>1 DEF SenderWorks
  <2>3. Same
    BY <2>1, <2>2, LineStutters
  <2> QED
    BY <2>3
<1>4. CASE Subscribe
  <2>1. /\ UNCHANGED <<sent, messageChannel, mcClosed>>
        /\ sender.pc = "none" /\ subscriber.pc = "none"
        /\ sender'.pc \in {"none", "select"} /\ subscriber'.pc \in {"none", "wait"}
    <3>1. sender.pc = "none" /\ subscriber.pc = "none"
      BY <1>0, <1>4 DEF Subscribe, Points
    <3>2. \/ sender' = sender /\ subscriber' = subscriber
          \/ sender' = [sender EXCEPT !.pc = "select"] /\ subscriber'.pc = "wait"
      <4>1. CASE receiver.got = "badOptions"
        <5>1. UNCHANGED <<isSubscribing, sender, subscriber>>
          BY <1>4, <4>1, Zenon DEF Subscribe
        <5> QED
          BY <5>1
      <4>2. CASE receiver.got # "badOptions"
        <5>1. /\ sender' = [sender EXCEPT !.pc = "select"]
              /\ subscriber' = [pc |-> "wait", only |-> receiver.got = "declareOnly", ok |-> TRUE]
          BY <1>4, <4>2 DEF Subscribe
        <5> QED
          BY <5>1
      <4> QED
        BY <4>1, <4>2
    <3>3. sender'.pc \in {"none", "select"} /\ subscriber'.pc \in {"none", "wait"}
      BY <1>0, <3>1, <3>2 DEF TypeOK
    <3> QED
      BY <1>4, <3>1, <3>3 DEF Subscribe, deferVars, clientVars
  <2>2. SenderWorks' = SenderWorks
    BY <2>1 DEF SenderWorks
  <2>3. Same
    BY <2>1, <2>2, LineStutters
  <2> QED
    BY <2>3
<1>5. CASE Deferred
  <2>1. /\ UNCHANGED <<sent, messageChannel, sender, subscriber>>
        /\ mcClosed' = (main # "cancel")
    BY <1>5 DEF Deferred, clientVars
  <2>2. CASE main = "cancel"
    <3>1. mcClosed' = mcClosed
      BY <1>0, <2>1, <2>2 DEF Points, TypeOK
    <3>2. SenderWorks' = SenderWorks
      BY <2>1 DEF SenderWorks
    <3>3. Same
      BY <2>1, <3>1, <3>2, LineStutters
    <3> QED
      BY <3>3
  <2>3. CASE main # "cancel"
    <3>1. Line!Cut
      BY <1>0, <2>1, <2>3, LineIsCut
    <3> QED
      BY <3>1 DEF Line!Next
  <2> QED
    BY <2>2, <2>3
<1>6. CASE SenderTake
  <2>1. /\ UNCHANGED <<sent, mcClosed, subscriber>>
        /\ sender.pc = "select" /\ sender'.pc = "send"
        /\ messageChannel # <<>> /\ messageChannel' = Tail(messageChannel)
    BY <1>6 DEF SenderTake, deferVars, clientVars
  <2>2. Len(messageChannel') = Len(messageChannel) - 1 /\ Len(messageChannel) \in Nat
    BY <1>0, <2>1, TailFacts DEF TypeOK
  <2>3. /\ SenderWorks /\ SenderWorks' /\ InHand = 0 /\ InHand' = 1
        /\ Pushing' = Pushing /\ Pushing \in 0..1
    BY <2>1 DEF SenderWorks, InHand, Pushing
  <2>4. InTransit' = InTransit
    BY <2>1, <2>2, <2>3 DEF InTransit
  <2>5. Same
    BY <2>1, <2>3, <2>4
  <2> QED
    BY <2>5
<1>7. CASE SenderReturns
  <2>1. /\ UNCHANGED <<sent, messageChannel, mcClosed, subscriber>>
        /\ sender.pc = "select" /\ sender'.pc = "done"
    BY <1>0, <1>7 DEF SenderReturns, TypeOK, deferVars, clientVars
  <2>2. SenderWorks /\ ~SenderWorks'
    BY <2>1 DEF SenderWorks
  <2>3. Line!Cut
    BY <1>0, <2>1, <2>2, LineIsCut
  <2> QED
    BY <2>3 DEF Line!Next
<1>8. CASE SenderSend
  <2>1. /\ UNCHANGED <<messageChannel, mcClosed, subscriber>>
        /\ sender.pc = "send"
        /\ \/ sent' = Append(sent, sender.msg) /\ sender'.pc = "select"
           \/ UNCHANGED sent /\ sender'.pc = "test"
    BY <1>0, <1>8 DEF SenderSend, TypeOK, deferVars
  <2>2. SenderWorks /\ InHand = 1 /\ Pushing' = Pushing
    BY <2>1 DEF SenderWorks, InHand, Pushing
  <2>3. CASE sent' = Append(sent, sender.msg) /\ sender'.pc = "select"
    <3>1. SenderWorks' /\ InHand' = 0
      BY <2>3 DEF SenderWorks, InHand
    <3>2. InTransit' = InTransit - 1 /\ InTransit > 0
      BY <1>0, <2>1, <2>2, <3>1, LineTypes DEF InTransit
    <3>3. sender.msg = Len(sent) + 1
      BY <1>0, <2>1 DEF InLine
    <3>4. Line!Leave
      BY <2>1, <2>2, <2>3, <3>1, <3>2, <3>3 DEF Line!Leave
    <3> QED
      BY <3>4 DEF Line!Next
  <2>4. CASE UNCHANGED sent /\ sender'.pc = "test"
    <3>1. ~SenderWorks'
      BY <2>4 DEF SenderWorks
    <3>2. Line!Cut
      BY <1>0, <2>1, <2>2, <2>4, <3>1, LineIsCut
    <3> QED
      BY <3>2 DEF Line!Next
  <2> QED
    BY <2>1, <2>3, <2>4
<1>9. CASE SenderStop
  <2>1. PICK next \in StopSteps(sender.pc) : sender' = [sender EXCEPT !.pc = next]
    BY <1>9 DEF SenderStop
  <2>2. /\ sender.pc \in Stopping /\ next \in Stopping \cup {"done"}
        /\ UNCHANGED <<sent, messageChannel, mcClosed, subscriber>>
    BY <1>9, <2>1 DEF SenderStop, StopSteps, Stopping, deferVars, clientVars
  <2>3. sender'.pc = next
    BY <1>0, <2>1 DEF TypeOK
  <2>4. SenderWorks' = SenderWorks /\ (sender.pc = "send") = (sender'.pc = "send")
    BY <2>2, <2>3 DEF SenderWorks, Stopping
  <2>5. Same
    BY <2>2, <2>4, LineStutters
  <2> QED
    BY <2>5
<1>10. CASE Deliver
  <2>1. /\ UNCHANGED <<sent, messageChannel, mcClosed, sender>>
        /\ subscriber.pc = "consume" /\ subscriber'.pc = "push"
    BY <1>0, <1>10 DEF Deliver, TypeOK, deferVars, clientVars
  <2>2. SenderWorks' = SenderWorks
    BY <2>1 DEF SenderWorks
  <2>3. CASE mcClosed \/ ~SenderWorks
    <3>1. Same
      BY <2>1, <2>2, <2>3, LineStutters
    <3> QED
      BY <3>1
  <2>4. CASE ~mcClosed /\ SenderWorks
    <3>1. Pushing = 0 /\ Pushing' = 1 /\ InHand' = InHand
      BY <2>1 DEF Pushing, InHand
    <3>2. /\ InTransit = InHand + Len(messageChannel) + 0
          /\ InTransit' = InHand + Len(messageChannel) + 1
      BY <2>1, <2>2, <2>4, <3>1 DEF InTransit
    <3>3. InTransit' = InTransit + 1 /\ InTransit < Buffer + 2
      BY <1>0, <3>2, LineTypes, ConsumeAssumption
    <3>4. Line!Enter
      BY <2>1, <2>2, <2>4, <3>3 DEF Line!Enter
    <3> QED
      BY <3>4 DEF Line!Next
  <2> QED
    BY <2>3, <2>4
<1>11. CASE Push
  <2>1. UNCHANGED <<sent, mcClosed, sender>> /\ subscriber.pc = "push"
    BY <1>11 DEF Push, deferVars, clientVars
  <2>2. SenderWorks' = SenderWorks /\ InHand' = InHand
    BY <2>1 DEF SenderWorks, InHand
  <2>3. CASE mcClosed /\ UNCHANGED messageChannel
    <3>1. Same
      BY <2>1, <2>2, <2>3, LineStutters
    <3> QED
      BY <3>1
  <2>4. CASE /\ ~mcClosed /\ messageChannel' = Append(messageChannel, delivered)
             /\ subscriber' = [subscriber EXCEPT !.pc = "consume"]
    <3>1. Pushing = 1 /\ Pushing' = 0
      BY <1>0, <2>1, <2>4 DEF Pushing, TypeOK
    <3>2. Len(messageChannel') = Len(messageChannel) + 1
      <4>1. delivered \in 1..MaxDeliveries
        BY <1>0, <2>1, ConsumeAssumption DEF TypeOK, Points
      <4> QED
        BY <1>0, <2>4, <4>1, AppendFacts DEF TypeOK
    <3>3. InTransit' = InTransit
      BY <1>0, <2>1, <2>2, <2>4, <3>1, <3>2, LineTypes DEF InTransit
    <3>4. Same
      BY <2>1, <2>2, <3>3
    <3> QED
      BY <3>4
  <2> QED
    BY <1>11, <2>3, <2>4 DEF Push
<1> QED
  BY <1>1, <1>2, <1>3, <1>4, <1>5, <1>6, <1>7, <1>8, <1>9, <1>10, <1>11
     DEF Next, MainStep, SenderStep

\* The Consume RPC implements MessageLine, for any number of messages and any
\* capacity of messageChannel: the client is given the messages of the provider in
\* their order, no more than the capacity and two are in the server, and messages
\* are given up only when the sender ends or the handler closes messageChannel.
THEOREM LineImplemented == Spec => ImplementsLine
<1>1. Init => Line!Init
  <2> SUFFICES ASSUME Init PROVE Line!Init
    OBVIOUS
  <2>1. /\ sent = <<>> /\ messageChannel = <<>> /\ ~mcClosed
        /\ sender.pc = "none" /\ subscriber.pc = "none"
    BY DEF Init
  <2>2. SenderWorks /\ InTransit = 0
    BY <2>1 DEF SenderWorks, InTransit, InHand, Pushing
  <2> QED
    BY <2>1, <2>2 DEF Line!Init
<1>2. IInv /\ IInv' /\ [Next]_vars => [Line!Next]_<<InTransit, sent, mcClosed \/ ~SenderWorks>>
  BY LineStep
<1> QED
  BY InvHolds, <1>1, <1>2, PTL DEF Spec, ImplementsLine, Line!Spec
=============================================================================
