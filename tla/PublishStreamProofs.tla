------------------------- MODULE PublishStreamProofs -------------------------
(***************************************************************************)
(* Proofs about the Publish RPC (PublishStream), for any number of         *)
(* messages and rounds and any messages with Confirm or a bad address:     *)
(*   - messages reach the broker in the order of the client, none twice;   *)
(*   - success is reported for published messages only, as long as the     *)
(*     variable msg has one reader;                                        *)
(*   - the RPC implements PublishLog, where also no message is answered    *)
(*     twice.                                                              *)
(* Only the reader of the current round can hand a message over.  What it  *)
(* holds is later than everything published and than the message that      *)
(* prov.Publish is working on, because msg never goes back.                *)
(***************************************************************************)
EXTENDS PublishStream, TLAPS

ReaderRecords ==
    [pc : Gone \cup {"none", "recv", "prepare", "offer", "await", "send"},
     mine : 0..MaxMessages, value : 0..MaxMessages, ok : BOOLEAN, stop : BOOLEAN]

\* The message was given to the broker.
Given(m) == \E k \in 1..Len(published) : published[k] = m

\* The message comes after all that were given to the broker, and after the one that
\* prov.Publish has yet to give.
Later(m) ==
    /\ \A k \in 1..Len(published) : published[k] < m
    /\ main \in {"refuse", "work"} => taken < m

\* Where the handler and the readers can be.
Points ==
    /\ main \notin {"top", "finish", "returned"} => round \in Rounds
    /\ msg \in {0, received}
    /\ \A r \in Rounds : /\ reader[r].pc = "offer" => reader[r].value # 0
                         /\ reader[r].ok \/ reader[r].stop => reader[r].pc = "send"
                         /\ r > round => reader[r].pc = "none"

InOrder ==
    /\ PublishedInOrder
    /\ \A k \in 1..Len(published) : published[k] <= received
    /\ main \in {"refuse", "work"} =>
          /\ taken <= received
          /\ \A k \in 1..Len(published) : published[k] < taken
    /\ \A r \in Rounds : r = round =>
          /\ reader[r].pc = "prepare" => Later(reader[r].mine) /\ reader[r].mine <= received
          /\ reader[r].pc = "offer" => Later(reader[r].value) /\ reader[r].value <= received

\* While msg has one reader: earlier readers are about to return, and the message the
\* current one has received is the one it hands over.
OwnMessage ==
    ~shared =>
        /\ \A i \in 1..Len(responses) : responses[i].ok => Given(responses[i].msg)
        /\ main = "result" /\ result => Given(taken)
        /\ \A r \in Rounds :
              /\ r # round => reader[r].pc \in Gone \cup {"none"} \/ reader[r].stop
              /\ reader[r].ok /\ reader[r].mine # 0 => Given(reader[r].mine)
              /\ r = round =>
                    /\ reader[r].pc = "prepare" => reader[r].mine = msg
                    /\ reader[r].pc = "offer" => reader[r].mine = reader[r].value
                    /\ reader[r].pc = "await" => /\ reader[r].mine = taken
                                                 /\ main \in {"refuse", "work", "result"}

IInv == TypeOK /\ Points /\ InOrder /\ OwnMessage
-----------------------------------------------------------------------------
\* The appended element is the last, the others stay.
LEMMA AppendFacts ==
    ASSUME NEW S, NEW s \in Seq(S), NEW e \in S
    PROVE  /\ Append(s, e) \in Seq(S) /\ Len(Append(s, e)) = Len(s) + 1 /\ Len(s) \in Nat
           /\ \A i \in 1..Len(s) : Append(s, e)[i] = s[i]
           /\ Append(s, e)[Len(s) + 1] = e
OBVIOUS

\* An element of a sequence.
LEMMA ElementOf == ASSUME NEW S, NEW s \in Seq(S), NEW i \in 1..Len(s) PROVE s[i] \in S
OBVIOUS

\* There is no reader, no message and no response.
LEMMA InitInv == Init => IInv
<1> SUFFICES ASSUME Init PROVE IInv
  OBVIOUS
<1> USE PublishAssumption
<1>1. 0 \in 0..MaxMessages /\ 0 \in 0..MaxRounds
  OBVIOUS
<1>2. /\ NoReader \in ReaderRecords /\ NoReader.pc = "none" /\ ~NoReader.ok /\ ~NoReader.stop
  BY <1>1 DEF NoReader, ReaderRecords
<1>3. \A r \in Rounds : reader[r] = NoReader
  BY DEF Init
<1>4. Len(published) = 0 /\ Len(responses) = 0
  BY DEF Init
<1>5. TypeOK
  <2>1. reader \in [Rounds -> ReaderRecords]
    BY <1>2 DEF Init
  <2>2. published \in Seq(Messages) /\ responses \in Seq([msg : Messages, ok : BOOLEAN])
    BY DEF Init
  <2> QED
    BY <1>1, <2>1, <2>2 DEF Init, TypeOK, ReaderRecords
<1>6. Points
  BY <1>2, <1>3 DEF Init, Points
<1>7. InOrder
  <2>1. PublishedInOrder /\ \A k \in 1..Len(published) : published[k] <= received
    BY <1>4 DEF PublishedInOrder
  <2> QED
    BY <1>2, <1>3, <2>1 DEF Init, InOrder
<1>8. OwnMessage
  <2>1. \A i \in 1..Len(responses) : responses[i].ok => Given(responses[i].msg)
    BY <1>4
  <2> QED
    BY <1>2, <1>3, <2>1 DEF Init, OwnMessage
<1> QED
  BY <1>5, <1>6, <1>7, <1>8 DEF IInv
-----------------------------------------------------------------------------
\* What a reader holds stays later than what was published, in a step that publishes
\* nothing and takes nothing.
LEMMA OrderKept ==
    ASSUME TypeOK, InOrder, UNCHANGED published, received' \in Nat, received <= received',
           main' \in {"refuse", "work"} => main \in {"refuse", "work"} /\ taken' = taken,
           \A r \in Rounds : r = round' =>
              /\ reader'[r].pc = "prepare" => /\ r = round /\ reader[r].pc = "prepare"
                                              /\ reader'[r].mine = reader[r].mine
              /\ reader'[r].pc = "offer" => /\ r = round /\ reader[r].pc = "offer"
                                            /\ reader'[r].value = reader[r].value
    PROVE  InOrder'
<1> USE PublishAssumption
<1>1. /\ published' = published /\ published \in Seq(Messages) /\ received \in Nat
      /\ taken \in Nat
      /\ \A r \in Rounds : reader[r].mine \in Nat /\ reader[r].value \in Nat
  BY DEF TypeOK
<1>2. \A k \in 1..Len(published) : published[k] \in Nat
  BY <1>1, ElementOf DEF Messages
<1>3. PublishedInOrder'
  BY <1>1 DEF InOrder, PublishedInOrder
<1>4. \A k \in 1..Len(published') : published'[k] <= received'
  BY <1>1, <1>2 DEF InOrder
<1>5. ASSUME main' \in {"refuse", "work"}
      PROVE  taken' <= received' /\ \A k \in 1..Len(published') : published'[k] < taken'
  <2>1. taken' = taken /\ taken <= received /\ \A k \in 1..Len(published) : published[k] < taken
    BY <1>5 DEF InOrder
  <2> QED
    BY <1>1, <2>1
<1>6. ASSUME NEW m \in Nat, Later(m) PROVE Later(m)'
  BY <1>1, <1>6 DEF Later
<1>7. ASSUME NEW r \in Rounds, r = round', reader'[r].pc = "prepare"
      PROVE  Later(reader[r].mine)' /\ reader'[r].mine <= received'
  <2>1. /\ reader'[r].mine = reader[r].mine /\ Later(reader[r].mine)
        /\ reader[r].mine <= received /\ reader[r].mine \in Nat
    BY <1>1, <1>7 DEF InOrder
  <2> QED
    BY <1>1, <1>6, <2>1 DEF Later
<1>8. ASSUME NEW r \in Rounds, r = round', reader'[r].pc = "offer"
      PROVE  Later(reader[r].value)' /\ reader'[r].value <= received'
  <2>1. /\ reader'[r].value = reader[r].value /\ Later(reader[r].value)
        /\ reader[r].value <= received /\ reader[r].value \in Nat
    BY <1>1, <1>8 DEF InOrder
  <2> QED
    BY <1>1, <1>6, <2>1 DEF Later
<1> QED
  BY <1>3, <1>4, <1>5, <1>7, <1>8 DEF InOrder

\* The message of a reader stays its own in a step that publishes and answers nothing.
LEMMA OwnKept ==
    ASSUME OwnMessage, UNCHANGED <<published, responses>>, ~shared' => ~shared,
           main' = "result" /\ result' => main = "result" /\ result /\ taken' = taken,
           ~shared' =>
              \A r \in Rounds :
                 /\ r # round' => reader'[r].pc \in Gone \cup {"none"} \/ reader'[r].stop
                 /\ reader'[r].ok => reader[r].ok /\ reader'[r].mine = reader[r].mine
                 /\ r = round' =>
                       /\ reader'[r].pc = "prepare" => reader'[r].mine = msg'
                       /\ reader'[r].pc = "offer" => reader'[r].mine = reader'[r].value
                       /\ reader'[r].pc = "await" => /\ reader'[r].mine = taken'
                                                     /\ main' \in {"refuse", "work", "result"}
    PROVE  OwnMessage'
<1> SUFFICES ASSUME ~shared' PROVE OwnMessage'
  BY DEF OwnMessage
<1>1. \A m : Given(m)' <=> Given(m)
  BY DEF Given
<1>2. published' = published /\ responses' = responses /\ ~shared
  OBVIOUS
<1>3. \A i \in 1..Len(responses') : responses'[i].ok => Given(responses[i].msg)'
  BY <1>1, <1>2 DEF OwnMessage
<1>4. main' = "result" /\ result' => Given(taken)'
  BY <1>2 DEF OwnMessage, Given
<1>5. ASSUME NEW r \in Rounds, reader'[r].ok, reader'[r].mine # 0
      PROVE  Given(reader[r].mine)'
  <2>1. Given(reader[r].mine) /\ reader'[r].mine = reader[r].mine
    BY <1>2, <1>5 DEF OwnMessage
  <2> QED
    BY <1>2, <2>1 DEF Given
<1> QED
  BY <1>2, <1>3, <1>4, <1>5 DEF OwnMessage

\* A step that moves no reader, and does not let the handler take or give a message.
LEMMA QuietMove ==
    ASSUME IInv, TypeOK',
           \/ main' = main
           \/ main \notin {"refuse", "work", "result"} /\ main' \notin {"refuse", "work", "result"},
           main' \notin {"top", "finish", "returned"} => main \notin {"top", "finish", "returned"},
           UNCHANGED <<round, taken, result, reader, msg, received, published, responses, shared>>
    PROVE  IInv'
<1>1. /\ round' = round /\ taken' = taken /\ result' = result /\ reader' = reader /\ msg' = msg
      /\ received' = received /\ published' = published /\ responses' = responses
      /\ shared' = shared
  OBVIOUS
<1>2. Points'
  BY <1>1 DEF IInv, Points
<1>3. InOrder'
  <2>1. received \in Nat /\ received <= received
    BY PublishAssumption DEF IInv, TypeOK
  <2> QED
    BY <1>1, <2>1, OrderKept DEF IInv
<1>4. OwnMessage'
  <2>1. ASSUME ~shared, NEW r \in Rounds
        PROVE  /\ r # round => reader[r].pc \in Gone \cup {"none"} \/ reader[r].stop
               /\ r = round =>
                     /\ reader[r].pc = "prepare" => reader[r].mine = msg
                     /\ reader[r].pc = "offer" => reader[r].mine = reader[r].value
                     /\ reader[r].pc = "await" => /\ reader[r].mine = taken
                                                  /\ main \in {"refuse", "work", "result"}
    BY <2>1 DEF IInv, OwnMessage
  <2>2. main \in {"refuse", "work", "result"} => main' = main
    OBVIOUS
  <2>3. main' = "result" => main = "result"
    OBVIOUS
  <2> QED
    BY <1>1, <2>1, <2>2, <2>3, OwnKept DEF IInv
<1> QED
  BY <1>2, <1>3, <1>4 DEF IInv

\* The handler between two rounds and in prov.Publish, the client and the broker.
LEMMA QuietSteps ==
    ASSUME IInv,
           \/ CheckClient \/ WaitForConnect \/ RoundEnd \/ Finish \/ PublishEnter
           \/ PublishNotify \/ PublishStops \/ PublishNotified \/ ClientEnds
           \/ ConnectionLost \/ ConnectionClosed \/ ClientForgotten \/ Reconnected
           \/ UNCHANGED vars
    PROVE  IInv'
<1> USE PublishAssumption
<1>0. TypeOK
  BY DEF IInv
<1>1. ASSUME main' \in {"top", "enter", "notify", "report", "select", "check", "wait", "after",
                        "finish", "returned"},
             main \in {"select", "enter", "notify", "report", "check", "wait", "after", "finish"},
             main' \notin {"top", "finish", "returned"} => main # "finish",
             stopPublish' \in BOOLEAN, open' \in BOOLEAN, notice' \in {"none", "error", "clean"},
             UNCHANGED <<round, taken, result, reader, msg, received, ended, known, up,
                         published, responses, shared>>
      PROVE  IInv'
  <2>1. TypeOK'
    BY <1>0, <1>1 DEF TypeOK, InPublish
  <2> QED
    BY <1>1, <2>1, QuietMove
<1>2. ASSUME main' = main, stopPublish' = stopPublish, open' \in BOOLEAN, known' \in BOOLEAN,
             up' \in BOOLEAN, notice' \in {"none", "error", "clean"},
             ended' \in {"no", "eof", "cancel"},
             UNCHANGED <<round, taken, result, reader, msg, received, published, responses,
                         shared>>
      PROVE  IInv'
  <2>1. TypeOK'
    BY <1>0, <1>2 DEF TypeOK
  <2> QED
    BY <1>2, <2>1, QuietMove
<1>3. /\ stopPublish \in BOOLEAN /\ open \in BOOLEAN /\ notice \in {"none", "error", "clean"}
      /\ known \in BOOLEAN /\ up \in BOOLEAN /\ ended \in {"no", "eof", "cancel"}
  BY <1>0 DEF TypeOK
<1>4. CASE CheckClient
  <2>1. main = "check" /\ main' \in {"wait", "after"} /\ stopPublish' \in BOOLEAN
    BY <1>4 DEF CheckClient
  <2> QED
    BY <1>1, <1>3, <1>4, <2>1 DEF CheckClient, streamVars, brokerVars
<1>5. CASE WaitForConnect
  BY <1>1, <1>3, <1>5 DEF WaitForConnect, streamVars, brokerVars
<1>6. CASE RoundEnd
  <2>1. main = "after" /\ main' \in {"finish", "top"}
    BY <1>6 DEF RoundEnd
  <2> QED
    BY <1>1, <1>3, <1>6, <2>1 DEF RoundEnd, streamVars, brokerVars
<1>7. CASE Finish
  BY <1>1, <1>3, <1>7 DEF Finish, streamVars, brokerVars
<1>8. CASE PublishEnter
  <2>1. main = "enter" /\ main' \in {"notify", "report"} /\ open' \in BOOLEAN
    BY <1>8 DEF PublishEnter
  <2> QED
    BY <1>1, <1>3, <1>8, <2>1 DEF PublishEnter, streamVars, brokerVars
<1>9. CASE PublishNotify
  <2>1. main = "notify" /\ main' = "select" /\ notice' \in {"none", "clean"}
    BY <1>9 DEF PublishNotify
  <2> QED
    BY <1>1, <1>3, <1>9, <2>1 DEF PublishNotify, streamVars, brokerVars
<1>10. CASE PublishStops
  BY <1>1, <1>3, <1>10 DEF PublishStops, streamVars, brokerVars
<1>11. CASE PublishNotified
  <2>1. main = "select" /\ main' \in {"report", "after", "select"} /\ notice' = "none"
    BY <1>11 DEF PublishNotified
  <2> QED
    BY <1>1, <1>3, <1>11, <2>1 DEF PublishNotified, streamVars, brokerVars
<1>12. CASE ClientEnds
  BY <1>2, <1>3, <1>12 DEF ClientEnds, brokerVars
<1>13. CASE ConnectionLost
  <2>1. up' \in BOOLEAN /\ open' \in BOOLEAN /\ notice' \in {"none", "error", "clean"}
    BY <1>3, <1>13 DEF ConnectionLost
  <2> QED
    BY <1>2, <1>3, <1>13, <2>1 DEF ConnectionLost, streamVars
<1>14. CASE ConnectionClosed
  <2>1. up' \in BOOLEAN /\ open' \in BOOLEAN /\ notice' \in {"none", "error", "clean"}
    BY <1>3, <1>14 DEF ConnectionClosed
  <2> QED
    BY <1>2, <1>3, <1>14, <2>1 DEF ConnectionClosed, streamVars
<1>15. CASE ClientForgotten
  BY <1>2, <1>3, <1>15 DEF ClientForgotten, streamVars
<1>16. CASE Reconnected
  BY <1>2, <1>3, <1>16 DEF Reconnected, streamVars
<1>17. CASE UNCHANGED vars
  BY <1>2, <1>3, <1>17 DEF vars
<1> QED
  BY <1>4, <1>5, <1>6, <1>7, <1>8, <1>9, <1>10, <1>11, <1>12, <1>13, <1>14, <1>15, <1>16, <1>17
-----------------------------------------------------------------------------
\* A reader becomes q, the others stay.
LEMMA ReaderTyped ==
    ASSUME TypeOK, NEW STATE r, r \in Rounds, NEW STATE q, q \in ReaderRecords,
           reader' = [reader EXCEPT ![r] = q]
    PROVE  /\ reader' \in [Rounds -> ReaderRecords] /\ reader'[r] = q
           /\ \A o \in Rounds : o # r => reader'[o] = reader[o]
BY DEF TypeOK, ReaderRecords

\* A reader is given its response.
LEMMA AnswerFacts ==
    ASSUME TypeOK, NEW STATE r, r \in Rounds, NEW STATE success, success \in BOOLEAN,
           NEW STATE halt, halt \in BOOLEAN, Answer(r, success, halt)
    PROVE  /\ reader' \in [Rounds -> ReaderRecords]
           /\ \A o \in Rounds : o # r => reader'[o] = reader[o]
           /\ reader'[r].pc = "send" /\ reader'[r].ok = success /\ reader'[r].stop = halt
           /\ reader'[r].mine = reader[r].mine /\ reader'[r].value = reader[r].value
<1> DEFINE q == [reader[r] EXCEPT !.pc = "send", !.ok = success, !.stop = halt]
<1>1. reader[r] \in ReaderRecords
  BY DEF TypeOK, ReaderRecords
<1>2. /\ q \in ReaderRecords /\ q.pc = "send" /\ q.ok = success /\ q.stop = halt
      /\ q.mine = reader[r].mine /\ q.value = reader[r].value
  BY <1>1 DEF ReaderRecords
<1>3. reader' = [reader EXCEPT ![r] = q]
  BY DEF Answer
<1> HIDE DEF q
<1> QED
  BY <1>2, <1>3, ReaderTyped

\* One reader comes to a point at which it holds no message, or only the response to
\* it, and the handler neither takes nor gives a message.
LEMMA ReaderMove ==
    ASSUME IInv, TypeOK', NEW STATE r, r \in Rounds,
           \A o \in Rounds : o # r => reader'[o] = reader[o],
           reader'[r].pc \notin {"none", "prepare", "offer", "await"},
           reader[r].pc # "none",
           reader'[r].stop => reader'[r].pc = "send",
           reader'[r].ok => reader'[r].pc = "send",
           ~shared /\ reader'[r].ok => Given(reader[r].mine) /\ reader'[r].mine = reader[r].mine,
           ~shared /\ r # round => reader'[r].pc \in Gone \/ reader'[r].stop,
           main' \in {"refuse", "work"} => main \in {"refuse", "work"} /\ taken' = taken,
           main \in {"refuse", "work"} => main' = main \/ r = round,
           main' = "result" => main = "result" /\ taken' = taken /\ result' = result,
           main = "result" => main' = "result" \/ r = round,
           main' \notin {"top", "finish", "returned"} => main \notin {"top", "finish", "returned"},
           msg' \in {0, received},
           ~shared /\ r # round => msg' = msg,
           UNCHANGED <<round, received, published, responses, shared>>
    PROVE  IInv'
<1>1. /\ round' = round /\ received' = received /\ published' = published
      /\ responses' = responses /\ shared' = shared
  OBVIOUS
<1>2. Points'
  <2>1. \A o \in Rounds : /\ reader'[o].pc = "offer" => reader'[o].value # 0
                          /\ reader'[o].ok \/ reader'[o].stop => reader'[o].pc = "send"
                          /\ o > round => reader'[o].pc = "none"
    BY DEF IInv, Points
  <2> QED
    BY <1>1, <2>1 DEF IInv, Points
<1>3. InOrder'
  <2>1. received \in Nat /\ received <= received
    BY PublishAssumption DEF IInv, TypeOK
  <2> QED
    BY <1>1, <2>1, OrderKept DEF IInv
<1>4. OwnMessage'
  <2> SUFFICES ASSUME ~shared PROVE OwnMessage'
    BY <1>1 DEF OwnMessage
  <2>1. \A o \in Rounds :
           /\ o # round => reader[o].pc \in Gone \cup {"none"} \/ reader[o].stop
           /\ reader[o].ok /\ reader[o].mine # 0 => Given(reader[o].mine)
           /\ o = round =>
                 /\ reader[o].pc = "prepare" => reader[o].mine = msg
                 /\ reader[o].pc = "offer" => reader[o].mine = reader[o].value
                 /\ reader[o].pc = "await" => /\ reader[o].mine = taken
                                              /\ main \in {"refuse", "work", "result"}
    BY DEF IInv, OwnMessage
  <2>2. ASSUME NEW o \in Rounds, o # round
        PROVE  reader'[o].pc \in Gone \cup {"none"} \/ reader'[o].stop
    BY <2>1, <2>2
  <2>3. ASSUME NEW o \in Rounds, reader'[o].ok, reader'[o].mine # 0 PROVE Given(reader[o].mine)'
    <3>1. Given(reader[o].mine) /\ reader'[o].mine = reader[o].mine
      BY <2>1, <2>3
    <3> QED
      BY <1>1, <3>1 DEF Given
  <2>4. ASSUME NEW o \in Rounds, o = round
        PROVE  /\ reader'[o].pc = "prepare" => reader'[o].mine = msg'
               /\ reader'[o].pc = "offer" => reader'[o].mine = reader'[o].value
               /\ reader'[o].pc = "await" => /\ reader'[o].mine = taken'
                                             /\ main' \in {"refuse", "work", "result"}
    <3>1. CASE o = r
      BY <3>1
    <3>2. CASE o # r
      <4>1. reader'[o] = reader[o] /\ msg' = msg
        BY <2>4, <3>2
      <4>2. main \in {"refuse", "work", "result"} => main' = main /\ taken' = taken
        BY <2>4, <3>2
      <4> QED
        BY <2>1, <2>4, <4>1, <4>2
    <3> QED
      BY <3>1, <3>2
  <2>5. \A i \in 1..Len(responses') : responses'[i].ok => Given(responses[i].msg)'
    BY <1>1 DEF IInv, OwnMessage, Given
  <2>6. main' = "result" /\ result' => Given(taken)'
    BY <1>1 DEF IInv, OwnMessage, Given
  <2> QED
    BY <1>1, <2>2, <2>3, <2>4, <2>5, <2>6 DEF OwnMessage
<1> QED
  BY <1>2, <1>3, <1>4 DEF IInv
-----------------------------------------------------------------------------
(* The steps that give a reader its response.                              *)

\* The error of the provider ends the reader of the round.
LEMMA ReportInv == ASSUME IInv, Report PROVE IInv'
<1> USE PublishAssumption
<1>1. /\ main = "report" /\ main' = "check" /\ Current.pc = "offer" /\ Answer(round, FALSE, TRUE)
      /\ UNCHANGED <<round, stopPublish, taken, result, msg, received, ended, known, up, open,
                     notice, published, responses, shared>>
  BY DEF Report, streamVars, brokerVars
<1>2. TypeOK /\ round \in Rounds /\ msg \in {0, received}
  BY <1>1 DEF IInv, Points
<1>3. /\ reader' \in [Rounds -> ReaderRecords]
      /\ \A o \in Rounds : o # round => reader'[o] = reader[o]
      /\ reader'[round].pc = "send" /\ reader'[round].ok = FALSE /\ reader'[round].stop = TRUE
  BY <1>1, <1>2, AnswerFacts
<1>4. TypeOK'
  BY <1>1, <1>2, <1>3 DEF TypeOK, ReaderRecords
<1>5. reader[round].pc # "none"
  BY <1>1 DEF Current
<1> QED
  BY <1>1, <1>2, <1>3, <1>4, <1>5, ReaderMove

\* The refusal of Confirm goes to the reader of the message.
LEMMA RefuseInv == ASSUME IInv, PublishRefuse PROVE IInv'
<1> USE PublishAssumption
<1>1. /\ main = "refuse" /\ main' = "work" /\ Current.pc = "await" /\ Answer(round, FALSE, FALSE)
      /\ UNCHANGED <<round, stopPublish, taken, result, msg, received, ended, known, up, open,
                     notice, published, responses, shared>>
  BY DEF PublishRefuse, streamVars, brokerVars
<1>2. TypeOK /\ round \in Rounds /\ msg \in {0, received}
  BY <1>1 DEF IInv, Points
<1>3. /\ reader' \in [Rounds -> ReaderRecords]
      /\ \A o \in Rounds : o # round => reader'[o] = reader[o]
      /\ reader'[round].pc = "send" /\ reader'[round].ok = FALSE /\ reader'[round].stop = FALSE
  BY <1>1, <1>2, AnswerFacts
<1>4. TypeOK'
  BY <1>1, <1>2, <1>3 DEF TypeOK, ReaderRecords, InPublish
<1>5. reader[round].pc # "none"
  BY <1>1 DEF Current
<1> QED
  BY <1>1, <1>2, <1>3, <1>4, <1>5, ReaderMove

\* The result goes to the reader that waits for it, whose message it is about, or is
\* taken for a failure.
LEMMA ResultInv == ASSUME IInv, PublishResult PROVE IInv'
<1> USE PublishAssumption
<1>1. /\ main = "result" /\ main' = "select" /\ taken' = 0
      /\ UNCHANGED <<round, stopPublish, result, msg, received, ended, known, up, open,
                     notice, published, responses, shared>>
  BY DEF PublishResult, streamVars, brokerVars
<1>2. TypeOK /\ round \in Rounds /\ msg \in {0, received} /\ result \in BOOLEAN
  BY <1>1 DEF IInv, Points, TypeOK
<1>3. ASSUME reader' \in [Rounds -> ReaderRecords] PROVE TypeOK'
  <2>1. 0 \in 0..MaxMessages
    OBVIOUS
  <2> QED
    BY <1>1, <1>2, <1>3, <2>1 DEF TypeOK, ReaderRecords, InPublish
<1>4. CASE Current.pc = "await" /\ Answer(round, result, FALSE)
  <2>1. /\ reader' \in [Rounds -> ReaderRecords]
        /\ \A o \in Rounds : o # round => reader'[o] = reader[o]
        /\ reader'[round].pc = "send" /\ reader'[round].ok = result
        /\ reader'[round].stop = FALSE /\ reader'[round].mine = reader[round].mine
    <3>1. FALSE \in BOOLEAN
      OBVIOUS
    <3> QED
      BY <1>2, <1>4, <3>1, AnswerFacts
  <2>2. reader[round].pc = "await"
    BY <1>4 DEF Current
  <2>3. ~shared /\ result => Given(reader[round].mine)
    BY <1>1, <1>2, <2>2 DEF IInv, OwnMessage
  <2> QED
    BY <1>1, <1>2, <1>3, <2>1, <2>2, <2>3, ReaderMove
<1>5. CASE Current.pc = "offer" /\ Answer(round, FALSE, TRUE)
  <2>1. /\ reader' \in [Rounds -> ReaderRecords]
        /\ \A o \in Rounds : o # round => reader'[o] = reader[o]
        /\ reader'[round].pc = "send" /\ reader'[round].ok = FALSE /\ reader'[round].stop = TRUE
    BY <1>2, <1>5, AnswerFacts
  <2>2. reader[round].pc = "offer"
    BY <1>5 DEF Current
  <2> QED
    BY <1>1, <1>2, <1>3, <2>1, <2>2, ReaderMove
<1> QED
  BY <1>4, <1>5 DEF PublishResult

\* A reader whose timer expires keeps its message to itself.
LEMMA TimeoutInv == ASSUME IInv, NEW r \in Rounds, Timeout(r) PROVE IInv'
<1> USE PublishAssumption
<1>1. /\ reader[r].pc = "offer" /\ Answer(r, FALSE, TRUE) /\ main' = main
      /\ UNCHANGED <<round, stopPublish, taken, result, msg, received, ended, known, up, open,
                     notice, published, responses, shared>>
  BY DEF Timeout, streamVars, brokerVars
<1>2. TypeOK /\ msg \in {0, received}
  BY <1>1 DEF IInv, Points
<1>3. /\ reader' \in [Rounds -> ReaderRecords]
      /\ \A o \in Rounds : o # r => reader'[o] = reader[o]
      /\ reader'[r].pc = "send" /\ reader'[r].ok = FALSE /\ reader'[r].stop = TRUE
  BY <1>1, <1>2, AnswerFacts
<1>4. TypeOK'
  BY <1>1, <1>2, <1>3 DEF TypeOK, ReaderRecords
<1> QED
  BY <1>1, <1>2, <1>3, <1>4, ReaderMove

\* The end of the stream sets msg to nil: only the reader of the current round can be
\* there while msg has one reader.
LEMMA RecvEndInv == ASSUME IInv, NEW r \in Rounds, RecvEnd(r) PROVE IInv'
<1> USE PublishAssumption
<1>1. /\ reader[r].pc = "recv" /\ msg' = 0 /\ main' = main
      /\ UNCHANGED <<round, taken, result, received, ended, known, up, open, notice,
                     published, responses, shared>>
      /\ TypeOK
  BY DEF RecvEnd, brokerVars, IInv
<1>2. 0 \in 0..MaxMessages /\ stopPublish' \in BOOLEAN
  <2>1. stopPublish \in BOOLEAN /\ (stopPublish' = TRUE \/ stopPublish' = stopPublish)
    BY <1>1 DEF RecvEnd, TypeOK
  <2>2. stopPublish' \in BOOLEAN
    BY <2>1, Zenon
  <2>3. 0 \in 0..MaxMessages
    OBVIOUS
  <2> QED
    BY <2>2, <2>3
<1>3. ~shared => r = round
  BY <1>1 DEF IInv, OwnMessage, Points, Gone
<1>4. PICK q \in ReaderRecords : /\ reader' = [reader EXCEPT ![r] = q]
                                 /\ q.pc \in {"over", "send"} /\ ~q.ok /\ ~q.stop
  <2>1. CASE reader' = [reader EXCEPT ![r].pc = "over"]
    <3> DEFINE q == [reader[r] EXCEPT !.pc = "over"]
    <3>1. reader[r] \in ReaderRecords /\ ~reader[r].ok /\ ~reader[r].stop
      BY <1>1 DEF TypeOK, ReaderRecords, IInv, Points
    <3>2. q \in ReaderRecords /\ q.pc = "over" /\ ~q.ok /\ ~q.stop
      BY <3>1 DEF ReaderRecords, Gone
    <3> QED
      BY <2>1, <3>2
  <2>2. CASE reader' = [reader EXCEPT ![r] = [NoReader EXCEPT !.pc = "send"]]
    <3> DEFINE q == [NoReader EXCEPT !.pc = "send"]
    <3>1. q \in ReaderRecords /\ q.pc = "send" /\ ~q.ok /\ ~q.stop
      BY <1>2 DEF ReaderRecords, NoReader
    <3> QED
      BY <2>2, <3>1
  <2> QED
    BY <2>1, <2>2 DEF RecvEnd
<1>5. /\ reader' \in [Rounds -> ReaderRecords] /\ reader'[r] = q
      /\ \A o \in Rounds : o # r => reader'[o] = reader[o]
  BY <1>1, <1>4 DEF TypeOK, ReaderRecords
<1>6. TypeOK'
  BY <1>1, <1>2, <1>5 DEF TypeOK, ReaderRecords
<1> QED
  BY <1>1, <1>3, <1>4, <1>5, <1>6, ReaderMove

\* A reader that returns with its message hands nothing over.
LEMMA RecvMistakenInv == ASSUME IInv, NEW r \in Rounds, RecvMistaken(r) PROVE IInv'
<1> USE PublishAssumption
<1> DEFINE q == [NoReader EXCEPT !.pc = "done"]
<1>1. /\ reader[r].pc = "prepare" /\ main' = main /\ stopPublish' = TRUE
      /\ reader' = [reader EXCEPT ![r] = q]
      /\ UNCHANGED <<round, taken, result, msg, received, ended, known, up, open, notice,
                     published, responses, shared>>
      /\ TypeOK /\ msg \in {0, received}
  BY DEF RecvMistaken, streamVars, brokerVars, IInv, Points
<1>2. 0 \in 0..MaxMessages
  OBVIOUS
<1>3. q \in ReaderRecords /\ q.pc = "done" /\ ~q.ok /\ ~q.stop
  BY <1>2 DEF ReaderRecords, NoReader, Gone
<1> HIDE DEF q
<1>4. /\ reader' \in [Rounds -> ReaderRecords] /\ reader'[r] = q
      /\ \A o \in Rounds : o # r => reader'[o] = reader[o]
  BY <1>1, <1>3, ReaderTyped
<1>5. TypeOK'
  BY <1>1, <1>4 DEF TypeOK, ReaderRecords
<1>6. q.pc \in Gone
  BY <1>3 DEF Gone
<1> QED
  BY <1>1, <1>3, <1>4, <1>5, <1>6, ReaderMove
-----------------------------------------------------------------------------
(* The steps that move messages.                                           *)

\* A new round: the reader of the last one is finished with, or msg is shared from now
\* on.
LEMMA RoundBeginInv == ASSUME IInv, RoundBegin PROVE IInv'
<1> USE PublishAssumption
<1>1. /\ main = "top"
      /\ UNCHANGED <<stopPublish, taken, result, msg, received, ended, known, up, open, notice,
                     published, responses>>
      /\ TypeOK
  BY DEF RoundBegin, streamVars, brokerVars, IInv
<1>2. CASE known
  <2> DEFINE q == [NoReader EXCEPT !.pc = "recv"]
             n == round + 1
  <2>1. /\ round < MaxRounds /\ round' = n /\ main' = "enter"
        /\ reader' = [reader EXCEPT ![n] = q]
        /\ shared' = (shared \/ \E r \in Rounds : Receives(r))
    BY <1>2 DEF RoundBegin
  <2>2. 0 \in 0..MaxMessages /\ round \in Nat /\ n \in Rounds /\ n \in 0..MaxRounds /\ n > round
    BY <1>1, <2>1 DEF TypeOK, Rounds
  <2>3. q \in ReaderRecords /\ q.pc = "recv" /\ ~q.ok /\ ~q.stop
    BY <2>2 DEF ReaderRecords, NoReader
  <2> HIDE DEF q, n
  <2>4. /\ reader' \in [Rounds -> ReaderRecords] /\ reader'[n] = q
        /\ \A o \in Rounds : o # n => reader'[o] = reader[o]
    BY <1>1, <2>1, <2>2, <2>3, ReaderTyped
  <2>5. TypeOK'
    <3>1. shared' \in BOOLEAN
      BY <2>1
    <3> QED
      BY <1>1, <2>1, <2>2, <2>4, <3>1 DEF TypeOK, ReaderRecords
  <2>6. Points'
    <3>1. ASSUME NEW o \in Rounds, o > n PROVE reader'[o].pc = "none"
      <4>1. o # n /\ o > round
        BY <2>2, <3>1 DEF n, Rounds
      <4> QED
        BY <2>4, <4>1 DEF IInv, Points
    <3>2. ASSUME NEW o \in Rounds
          PROVE  /\ reader'[o].pc = "offer" => reader'[o].value # 0
                 /\ reader'[o].ok \/ reader'[o].stop => reader'[o].pc = "send"
      BY <2>3, <2>4 DEF IInv, Points
    <3> QED
      BY <1>1, <2>1, <2>2, <3>1, <3>2 DEF IInv, Points
  <2>7. InOrder'
    <3>1. received' \in Nat /\ received <= received'
      BY <1>1 DEF TypeOK
    <3> QED
      BY <1>1, <2>1, <2>3, <2>4, <3>1, OrderKept DEF IInv
  <2>8. OwnMessage'
    <3>1. ASSUME ~shared'
          PROVE  /\ ~shared
                 /\ \A o \in Rounds : o # n =>
                       reader'[o].pc \in Gone \cup {"none"} \/ reader'[o].stop
                 /\ \A o \in Rounds :
                       reader'[o].ok => reader[o].ok /\ reader'[o].mine = reader[o].mine
      BY <2>1, <2>3, <2>4, <3>1 DEF Receives
    <3> QED
      BY <1>1, <2>1, <2>3, <2>4, <3>1, OwnKept DEF IInv
  <2> QED
    BY <2>5, <2>6, <2>7, <2>8 DEF IInv
<1>3. CASE ~known
  <2>1. main' = "finish" /\ UNCHANGED <<round, reader, shared>>
    BY <1>3 DEF RoundBegin
  <2>2. TypeOK'
    BY <1>1, <2>1 DEF TypeOK
  <2> QED
    BY <1>1, <2>1, <2>2, QuietMove
<1> QED
  BY <1>2, <1>3

\* prov.Publish takes the message of the current reader.
LEMMA TakeInv == ASSUME IInv, PublishTake PROVE IInv'
<1> USE PublishAssumption
<1> DEFINE q == [reader[round] EXCEPT !.pc = "await"]
           v == reader[round].value
<1>1. /\ main = "select" /\ reader[round].pc = "offer" /\ taken' = v
      /\ reader' = [reader EXCEPT ![round] = q] /\ main' \in {"refuse", "work"}
      /\ UNCHANGED <<round, stopPublish, result, msg, received, ended, known, up, open, notice,
                     published, responses, shared>>
  BY DEF PublishTake, streamVars, brokerVars, Current
<1>2. TypeOK /\ round \in Rounds
  BY <1>1 DEF IInv, Points
<1>3. /\ reader[round] \in ReaderRecords /\ v \in 0..MaxMessages /\ v # 0
      /\ ~reader[round].ok /\ ~reader[round].stop
  BY <1>1, <1>2 DEF IInv, Points, TypeOK, ReaderRecords
<1>4. /\ q \in ReaderRecords /\ q.pc = "await" /\ q.mine = reader[round].mine
      /\ ~q.ok /\ ~q.stop
  BY <1>3 DEF ReaderRecords
<1> HIDE DEF q
<1>5. /\ reader' \in [Rounds -> ReaderRecords] /\ reader'[round] = q
      /\ \A o \in Rounds : o # round => reader'[o] = reader[o]
  BY <1>1, <1>2, <1>4, ReaderTyped
<1>6. Later(v) /\ v <= received
  BY <1>1, <1>2 DEF IInv, InOrder
<1> HIDE DEF v
<1>7. TypeOK'
  BY <1>1, <1>2, <1>3, <1>5 DEF TypeOK, ReaderRecords, InPublish
<1>8. Points'
  <2>1. \A o \in Rounds : /\ reader'[o].pc = "offer" => reader'[o].value # 0
                          /\ reader'[o].ok \/ reader'[o].stop => reader'[o].pc = "send"
                          /\ o > round => reader'[o].pc = "none"
    <3>1. ~(round > round)
      BY <1>2 DEF Rounds
    <3> QED
      BY <1>4, <1>5, <3>1 DEF IInv, Points
  <2> QED
    BY <1>1, <1>2, <2>1 DEF IInv, Points
<1>9. InOrder'
  <2>1. PublishedInOrder' /\ \A k \in 1..Len(published') : published'[k] <= received'
    BY <1>1 DEF IInv, InOrder, PublishedInOrder
  <2>2. taken' <= received' /\ \A k \in 1..Len(published') : published'[k] < taken'
    BY <1>1, <1>6 DEF Later
  <2> QED
    BY <1>1, <1>4, <1>5, <2>1, <2>2 DEF InOrder
<1>10. OwnMessage'
  <2>1. ~shared => reader[round].mine = v
    BY <1>1, <1>2 DEF IInv, OwnMessage, v
  <2>2. ASSUME ~shared, NEW o \in Rounds
        PROVE  /\ o # round => reader'[o].pc \in Gone \cup {"none"} \/ reader'[o].stop
               /\ reader'[o].ok => reader[o].ok /\ reader'[o].mine = reader[o].mine
    BY <1>4, <1>5, <2>2 DEF IInv, OwnMessage
  <2> QED
    BY <1>1, <1>4, <1>5, <2>1, <2>2, OwnKept DEF IInv
<1> QED
  BY <1>7, <1>8, <1>9, <1>10 DEF IInv

\* prepareAndSend gives the taken message to the broker, or fails.
LEMMA PrepareAndSendInv == ASSUME IInv, PrepareAndSend PROVE IInv'
<1> USE PublishAssumption
<1>1. /\ main = "work" /\ main' = "result" /\ result' = open
      /\ published' = IF open THEN Append(published, taken) ELSE published
      /\ UNCHANGED <<round, stopPublish, taken, reader, msg, received, ended, known, up, open,
                     notice, responses, shared>>
  BY DEF PrepareAndSend, streamVars, brokerVars
<1>2. /\ TypeOK /\ round \in Rounds /\ published \in Seq(Messages) /\ Len(published) \in Nat
      /\ taken \in Messages /\ open \in BOOLEAN /\ received \in Nat
  BY <1>1 DEF IInv, Points, TypeOK, Messages
<1>3. /\ taken <= received /\ \A k \in 1..Len(published) : published[k] < taken
  BY <1>1 DEF IInv, InOrder
<1>4. CASE ~open
  <2>1. published' = published
    BY <1>1, <1>4
  <2>2. TypeOK'
    BY <1>1, <1>2, <2>1 DEF TypeOK, InPublish
  <2>3. Points'
    BY <1>1, <1>2 DEF IInv, Points
  <2>4. InOrder'
    <3>1. received' \in Nat /\ received <= received'
      BY <1>1, <1>2
    <3> QED
      BY <1>1, <1>2, <2>1, <3>1, OrderKept DEF IInv
  <2>5. OwnMessage'
    BY <1>1, <1>4, <2>1, OwnKept DEF IInv, OwnMessage
  <2> QED
    BY <2>2, <2>3, <2>4, <2>5 DEF IInv
<1>5. CASE open
  <2> DEFINE n == Len(published)
  <2>1. /\ published' \in Seq(Messages) /\ Len(published') = n + 1 /\ published'[n + 1] = taken
        /\ \A k \in 1..n : published'[k] = published[k]
    BY <1>1, <1>2, <1>5, AppendFacts
  <2>2. n \in Nat /\ \A k \in 1..n : published[k] \in Nat /\ published[k] < taken
    BY <1>2, <1>3, ElementOf DEF Messages
  <2> HIDE DEF n
  <2>3. TypeOK'
    BY <1>1, <1>2, <2>1 DEF TypeOK, InPublish
  <2>4. Points'
    BY <1>1, <1>2 DEF IInv, Points
  <2>5. \A m : Given(m) => Given(m)'
    <3> SUFFICES ASSUME NEW m, NEW k \in 1..n, published[k] = m PROVE Given(m)'
      BY DEF Given, n
    <3>1. k \in 1..Len(published') /\ published'[k] = m
      BY <2>1, <2>2
    <3> QED
      BY <3>1 DEF Given
  <2>6. Given(taken)'
    <3>1. n + 1 \in 1..Len(published')
      BY <2>1, <2>2
    <3> QED
      BY <1>1, <2>1, <3>1 DEF Given
  <2>7. \A k \in 1..Len(published') : k \in 1..n \/ k = n + 1
    BY <2>1, <2>2
  <2>8. InOrder'
    <3>1. PublishedInOrder'
      <4> SUFFICES ASSUME NEW i \in 1..Len(published'), NEW k \in 1..Len(published'), i < k
                   PROVE  published'[i] < published'[k]
        BY DEF PublishedInOrder
      <4>1. i \in 1..n
        BY <2>1, <2>2
      <4>2. CASE k \in 1..n
        BY <2>1, <4>1, <4>2 DEF IInv, InOrder, PublishedInOrder, n
      <4>3. CASE k = n + 1
        BY <2>1, <2>2, <4>1, <4>3
      <4> QED
        BY <2>7, <4>2, <4>3
    <3>2. \A k \in 1..Len(published') : published'[k] <= received'
      <4> SUFFICES ASSUME NEW k \in 1..Len(published') PROVE published'[k] <= received
        BY <1>1
      <4>1. CASE k \in 1..n
        BY <2>1, <4>1 DEF IInv, InOrder, n
      <4>2. CASE k = n + 1
        BY <1>3, <2>1, <4>2
      <4> QED
        BY <2>7, <4>1, <4>2
    <3>3. ASSUME NEW m \in Nat, Later(m)
          PROVE  \A k \in 1..Len(published') : published'[k] < m
      <4>1. taken < m /\ \A k \in 1..n : published[k] < m
        BY <1>1, <3>3 DEF Later, n
      <4> QED
        BY <2>1, <2>7, <4>1
    <3>4. reader[round].mine \in Nat /\ reader[round].value \in Nat
      BY <1>2 DEF TypeOK
    <3>5. reader[round].pc = "prepare" => /\ Later(reader[round].mine)
                                          /\ reader[round].mine <= received
      BY <1>2 DEF IInv, InOrder
    <3>6. reader[round].pc = "offer" => /\ Later(reader[round].value)
                                        /\ reader[round].value <= received
      BY <1>2 DEF IInv, InOrder
    <3>7. reader[round].pc = "prepare" => Later(reader[round].mine)'
      BY <1>1, <3>3, <3>4, <3>5 DEF Later
    <3>8. reader[round].pc = "offer" => Later(reader[round].value)'
      BY <1>1, <3>3, <3>4, <3>6 DEF Later
    <3> QED
      BY <1>1, <3>1, <3>2, <3>5, <3>6, <3>7, <3>8 DEF InOrder
  <2>9. OwnMessage'
    <3> SUFFICES ASSUME ~shared PROVE OwnMessage'
      BY <1>1 DEF OwnMessage
    <3>1. \A i \in 1..Len(responses') : responses'[i].ok => Given(responses[i].msg)'
      <4> SUFFICES ASSUME NEW i \in 1..Len(responses), responses[i].ok
                   PROVE  Given(responses[i].msg)'
        BY <1>1
      <4>1. Given(responses[i].msg)
        BY DEF IInv, OwnMessage
      <4>2. PICK k \in 1..n : published[k] = responses[i].msg
        BY <4>1 DEF Given, n
      <4>3. k \in 1..Len(published') /\ published'[k] = responses'[i].msg
        BY <1>1, <2>1, <2>2, <4>2
      <4> QED
        BY <4>3 DEF Given
    <3>2. ASSUME NEW r \in Rounds, reader[r].ok, reader[r].mine # 0 PROVE Given(reader[r].mine)'
      <4>1. Given(reader[r].mine)
        BY <3>2 DEF IInv, OwnMessage
      <4>2. PICK k \in 1..n : published[k] = reader[r].mine
        BY <4>1 DEF Given, n
      <4>3. k \in 1..Len(published') /\ published'[k] = reader'[r].mine
        BY <1>1, <2>1, <2>2, <4>2
      <4> QED
        BY <4>3 DEF Given
    <3>3. \A r \in Rounds :
             /\ r # round => reader[r].pc \in Gone \cup {"none"} \/ reader[r].stop
             /\ r = round =>
                   /\ reader[r].pc = "prepare" => reader[r].mine = msg
                   /\ reader[r].pc = "offer" => reader[r].mine = reader[r].value
                   /\ reader[r].pc = "await" => reader[r].mine = taken
      BY DEF IInv, OwnMessage
    <3> QED
      BY <1>1, <2>6, <3>1, <3>2, <3>3 DEF OwnMessage
  <2> QED
    BY <2>3, <2>4, <2>8, <2>9 DEF IInv
<1> QED
  BY <1>4, <1>5

\* A message is received: it is later than everything so far.
LEMMA RecvInv == ASSUME IInv, NEW r \in Rounds, Recv(r) PROVE IInv'
<1> USE PublishAssumption
<1> DEFINE m == received + 1
           q == [reader[r] EXCEPT !.pc = "prepare", !.mine = m]
<1>1. /\ reader[r].pc = "recv" /\ received < MaxMessages /\ received' = m /\ msg' = m
      /\ reader' = [reader EXCEPT ![r] = q]
      /\ UNCHANGED <<main, round, stopPublish, taken, result, ended, known, up, open, notice,
                     published, responses, shared>>
      /\ TypeOK
  BY DEF Recv, brokerVars, IInv
<1>2. received \in Nat /\ m \in 0..MaxMessages /\ m \in Nat /\ received < m
  BY <1>1 DEF TypeOK
<1> HIDE DEF m
<1>3. reader[r] \in ReaderRecords /\ ~reader[r].ok /\ ~reader[r].stop
  BY <1>1 DEF IInv, Points, TypeOK, ReaderRecords
<1>4. q \in ReaderRecords /\ q.pc = "prepare" /\ q.mine = m /\ ~q.ok /\ ~q.stop
  BY <1>2, <1>3 DEF ReaderRecords
<1> HIDE DEF q
<1>5. /\ reader' \in [Rounds -> ReaderRecords] /\ reader'[r] = q
      /\ \A o \in Rounds : o # r => reader'[o] = reader[o]
  BY <1>1, <1>4, ReaderTyped
<1>6. TypeOK'
  BY <1>1, <1>2, <1>5 DEF TypeOK, ReaderRecords
<1>7. Points'
  <2>1. \A o \in Rounds : /\ reader'[o].pc = "offer" => reader'[o].value # 0
                          /\ reader'[o].ok \/ reader'[o].stop => reader'[o].pc = "send"
                          /\ o > round => reader'[o].pc = "none"
    BY <1>1, <1>4, <1>5 DEF IInv, Points
  <2> QED
    BY <1>1, <2>1 DEF IInv, Points
<1>8. InOrder'
  <2>1. \A k \in 1..Len(published) : published[k] \in Nat /\ published[k] <= received
    BY <1>1, ElementOf DEF IInv, InOrder, TypeOK, Messages
  <2>2. taken \in Nat /\ (main \in {"refuse", "work"} => taken <= received)
    BY <1>1 DEF IInv, InOrder, TypeOK
  <2>3. PublishedInOrder' /\ \A k \in 1..Len(published') : published'[k] <= received'
    BY <1>1, <1>2, <2>1 DEF IInv, InOrder, PublishedInOrder
  <2>4. main' \in {"refuse", "work"} =>
           taken' <= received' /\ \A k \in 1..Len(published') : published'[k] < taken'
    BY <1>1, <1>2, <2>2 DEF IInv, InOrder
  <2>5. (\A k \in 1..Len(published) : published[k] < m) /\ (main \in {"refuse", "work"} => taken < m)
    BY <1>2, <2>1, <2>2
  <2>6. ASSUME NEW o \in Rounds, o = round
        PROVE  /\ reader'[o].pc = "prepare" => Later(reader[o].mine)' /\ reader'[o].mine <= received'
               /\ reader'[o].pc = "offer" => Later(reader[o].value)' /\ reader'[o].value <= received'
    <3>1. CASE o = r
      BY <1>1, <1>2, <1>4, <1>5, <2>5, <3>1 DEF Later
    <3>2. CASE o # r
      <4>1. reader'[o] = reader[o] /\ reader[o].mine \in Nat /\ reader[o].value \in Nat
        BY <1>1, <1>5, <3>2 DEF TypeOK
      <4>2. /\ reader[o].pc = "prepare" => Later(reader[o].mine) /\ reader[o].mine <= received
            /\ reader[o].pc = "offer" => Later(reader[o].value) /\ reader[o].value <= received
        BY <2>6 DEF IInv, InOrder
      <4> QED
        BY <1>1, <1>2, <4>1, <4>2 DEF Later
    <3> QED
      BY <3>1, <3>2
  <2> QED
    BY <1>1, <2>3, <2>4, <2>6 DEF InOrder
<1>9. OwnMessage'
  <2>1. ~shared => r = round
    BY <1>1, <1>3 DEF IInv, OwnMessage, Gone
  <2>2. ASSUME ~shared, NEW o \in Rounds
        PROVE  /\ o # round => reader'[o].pc \in Gone \cup {"none"} \/ reader'[o].stop
               /\ reader'[o].ok => reader[o].ok /\ reader'[o].mine = reader[o].mine
    BY <1>4, <1>5, <2>1, <2>2 DEF IInv, OwnMessage
  <2> QED
    BY <1>1, <1>4, <1>5, <2>1, <2>2, OwnKept DEF IInv
<1> QED
  BY <1>6, <1>7, <1>8, <1>9 DEF IInv

\* A reader evaluates msg: a message at least as late as the one it received.
LEMMA PrepareInv == ASSUME IInv, NEW r \in Rounds, Prepare(r) PROVE IInv'
<1> USE PublishAssumption
<1>1. /\ reader[r].pc = "prepare"
      /\ UNCHANGED <<main, round, stopPublish, taken, result, msg, received, ended, known, up,
                     open, notice, published, responses, shared>>
      /\ TypeOK /\ msg \in {0, received}
  BY DEF Prepare, streamVars, brokerVars, IInv, Points
<1>2. ~shared => r = round
  BY <1>1 DEF IInv, OwnMessage, Gone, Points
<1>3. CASE msg \in BadAddress \cup {0}
  <2>1. Answer(r, FALSE, FALSE)
    BY <1>3 DEF Prepare
  <2>2. /\ reader' \in [Rounds -> ReaderRecords]
        /\ \A o \in Rounds : o # r => reader'[o] = reader[o]
        /\ reader'[r].pc = "send" /\ reader'[r].ok = FALSE /\ reader'[r].stop = FALSE
    BY <1>1, <2>1, AnswerFacts
  <2>3. TypeOK'
    BY <1>1, <2>2 DEF TypeOK, ReaderRecords
  <2> QED
    BY <1>1, <1>2, <2>2, <2>3, ReaderMove
<1>4. CASE msg \notin BadAddress \cup {0}
  <2> DEFINE q == [reader[r] EXCEPT !.pc = "offer", !.value = msg]
  <2>1. reader' = [reader EXCEPT ![r] = q] /\ msg = received /\ msg # 0
    BY <1>1, <1>4 DEF Prepare
  <2>2. /\ reader[r] \in ReaderRecords /\ ~reader[r].ok /\ ~reader[r].stop
        /\ msg \in 0..MaxMessages
    BY <1>1 DEF IInv, Points, TypeOK, ReaderRecords
  <2>3. /\ q \in ReaderRecords /\ q.pc = "offer" /\ q.value = msg /\ q.mine = reader[r].mine
        /\ ~q.ok /\ ~q.stop
    BY <2>2 DEF ReaderRecords
  <2> HIDE DEF q
  <2>4. /\ reader' \in [Rounds -> ReaderRecords] /\ reader'[r] = q
        /\ \A o \in Rounds : o # r => reader'[o] = reader[o]
    BY <1>1, <2>1, <2>3, ReaderTyped
  <2>5. TypeOK'
    BY <1>1, <2>4 DEF TypeOK, ReaderRecords
  <2>6. Points'
    <3>1. \A o \in Rounds : /\ reader'[o].pc = "offer" => reader'[o].value # 0
                            /\ reader'[o].ok \/ reader'[o].stop => reader'[o].pc = "send"
                            /\ o > round => reader'[o].pc = "none"
      BY <1>1, <2>1, <2>3, <2>4 DEF IInv, Points
    <3> QED
      BY <1>1, <3>1 DEF IInv, Points
  <2>7. InOrder'
    <3>1. PublishedInOrder' /\ \A k \in 1..Len(published') : published'[k] <= received'
      BY <1>1 DEF IInv, InOrder, PublishedInOrder
    <3>2. main' \in {"refuse", "work"} =>
             taken' <= received' /\ \A k \in 1..Len(published') : published'[k] < taken'
      BY <1>1 DEF IInv, InOrder
    <3>3. ASSUME NEW o \in Rounds, o = round
          PROVE  /\ reader'[o].pc = "prepare" => Later(reader[o].mine)' /\ reader'[o].mine <= received'
                 /\ reader'[o].pc = "offer" => Later(reader[o].value)' /\ reader'[o].value <= received'
      <4>1. CASE o = r
        <5>1. Later(reader[r].mine) /\ reader[r].mine <= received
          BY <1>1, <3>3, <4>1 DEF IInv, InOrder
        <5>2. reader[r].mine \in Nat /\ received \in Nat /\ taken \in Nat
          BY <1>1 DEF TypeOK
        <5>3. \A k \in 1..Len(published) : published[k] \in Nat
          BY <1>1, ElementOf DEF TypeOK, Messages
        <5>4. Later(received)
          BY <5>1, <5>2, <5>3 DEF Later
        <5>5. reader'[o].value = received /\ reader'[o].pc = "offer" /\ received <= received
          BY <2>1, <2>3, <2>4, <4>1, <5>2
        <5> QED
          BY <1>1, <5>4, <5>5 DEF Later
      <4>2. CASE o # r
        <5>1. reader'[o] = reader[o]
          BY <2>4, <4>2
        <5>2. /\ reader[o].pc = "prepare" => Later(reader[o].mine) /\ reader[o].mine <= received
              /\ reader[o].pc = "offer" => Later(reader[o].value) /\ reader[o].value <= received
          BY <3>3 DEF IInv, InOrder
        <5> QED
          BY <1>1, <5>1, <5>2 DEF Later
      <4> QED
        BY <4>1, <4>2
    <3> QED
      BY <1>1, <3>1, <3>2, <3>3 DEF InOrder
  <2>8. OwnMessage'
    <3>1. ~shared => reader[r].mine = msg
      BY <1>1, <1>2 DEF IInv, OwnMessage
    <3>2. ASSUME ~shared, NEW o \in Rounds
          PROVE  /\ o # round => reader'[o].pc \in Gone \cup {"none"} \/ reader'[o].stop
                 /\ reader'[o].ok => reader[o].ok /\ reader'[o].mine = reader[o].mine
      BY <1>2, <2>3, <2>4, <3>2 DEF IInv, OwnMessage
    <3> QED
      BY <1>1, <1>2, <2>3, <2>4, <3>1, <3>2, OwnKept DEF IInv
  <2> QED
    BY <2>5, <2>6, <2>7, <2>8 DEF IInv
<1> QED
  BY <1>3, <1>4

\* A response is sent: success only for a message that was published.
LEMMA SendInv == ASSUME IInv, NEW r \in Rounds, Send(r) PROVE IInv'
<1> USE PublishAssumption
<1>1. /\ reader[r].pc = "send"
      /\ UNCHANGED <<main, round, taken, result, msg, received, ended, known, up, open, notice,
                     published, shared>>
      /\ TypeOK /\ msg \in {0, received}
  BY DEF Send, streamVars, brokerVars, IInv, Points
<1>2. 0 \in 0..MaxMessages
  OBVIOUS
<1>3. \A p \in {"done", "recv"} :
         /\ [NoReader EXCEPT !.pc = p] \in ReaderRecords /\ [NoReader EXCEPT !.pc = p].pc = p
         /\ ~[NoReader EXCEPT !.pc = p].ok /\ ~[NoReader EXCEPT !.pc = p].stop
  BY <1>2 DEF NoReader, ReaderRecords, Gone
<1>4. PICK p \in {"done", "recv"} :
         /\ reader' = [reader EXCEPT ![r] = [NoReader EXCEPT !.pc = p]]
         /\ reader[r].stop => p = "done"
         /\ stopPublish' \in BOOLEAN
  <2>1. CASE Dead
    <3>1. stopPublish' = TRUE /\ reader' = [reader EXCEPT ![r] = [NoReader EXCEPT !.pc = "done"]]
      BY <2>1 DEF Send
    <3> QED
      BY <3>1
  <2>2. CASE ~Dead
    <3> DEFINE p == IF reader[r].stop THEN "done" ELSE "recv"
    <3>1. reader' = [reader EXCEPT ![r] = [NoReader EXCEPT !.pc = p]] /\ stopPublish' = stopPublish
      BY <2>2 DEF Send
    <3>2. p \in {"done", "recv"} /\ (reader[r].stop => p = "done")
      OBVIOUS
    <3> HIDE DEF p
    <3> QED
      BY <1>1, <3>1, <3>2 DEF TypeOK
  <2> QED
    BY <2>1, <2>2
<1> DEFINE q == [NoReader EXCEPT !.pc = p]
           a == [msg |-> reader[r].mine, ok |-> reader[r].ok]
<1>5. q \in ReaderRecords /\ q.pc = p /\ ~q.ok /\ ~q.stop
  BY <1>3
<1>6. reader' = [reader EXCEPT ![r] = q]
  BY <1>4
<1>7. responses' = responses \/ (reader[r].mine # 0 /\ responses' = Append(responses, a))
  BY DEF Send
<1>8. reader[r].mine # 0 => a \in [msg : Messages, ok : BOOLEAN]
  BY <1>1 DEF TypeOK, Messages
<1>9. a.msg = reader[r].mine /\ a.ok = reader[r].ok
  OBVIOUS
<1> HIDE DEF q, a
<1>10. /\ reader' \in [Rounds -> ReaderRecords] /\ reader'[r] = q
       /\ \A o \in Rounds : o # r => reader'[o] = reader[o]
  BY <1>1, <1>5, <1>6 DEF TypeOK, ReaderRecords
<1>11. responses' \in Seq([msg : Messages, ok : BOOLEAN])
  <2> DEFINE S == [msg : Messages, ok : BOOLEAN]
  <2>1. responses \in Seq(S) /\ (reader[r].mine # 0 => a \in S)
    BY <1>1, <1>8 DEF TypeOK
  <2> HIDE DEF S
  <2>2. responses' \in Seq(S)
    BY <1>7, <2>1, AppendFacts
  <2> QED
    BY <2>2 DEF S
<1>12. TypeOK'
  BY <1>1, <1>4, <1>10, <1>11 DEF TypeOK, ReaderRecords
<1>13. Points'
  <2>1. \A o \in Rounds : /\ reader'[o].pc = "offer" => reader'[o].value # 0
                          /\ reader'[o].ok \/ reader'[o].stop => reader'[o].pc = "send"
                          /\ o > round => reader'[o].pc = "none"
    BY <1>1, <1>5, <1>10 DEF IInv, Points
  <2> QED
    BY <1>1, <2>1 DEF IInv, Points
<1>14. InOrder'
  <2>1. received' \in Nat /\ received <= received'
    BY <1>1 DEF TypeOK
  <2> QED
    BY <1>1, <1>5, <1>10, <2>1, OrderKept DEF IInv
<1>15. OwnMessage'
  <2> SUFFICES ASSUME ~shared PROVE OwnMessage'
    BY <1>1 DEF OwnMessage
  <2>1. /\ reader[r].ok /\ reader[r].mine # 0 => Given(reader[r].mine)
        /\ \A i \in 1..Len(responses) : responses[i].ok => Given(responses[i].msg)
        /\ main = "result" /\ result => Given(taken)
        /\ \A o \in Rounds :
              /\ o # round => reader[o].pc \in Gone \cup {"none"} \/ reader[o].stop
              /\ reader[o].ok /\ reader[o].mine # 0 => Given(reader[o].mine)
              /\ o = round =>
                    /\ reader[o].pc = "prepare" => reader[o].mine = msg
                    /\ reader[o].pc = "offer" => reader[o].mine = reader[o].value
                    /\ reader[o].pc = "await" => /\ reader[o].mine = taken
                                                 /\ main \in {"refuse", "work", "result"}
    BY DEF IInv, OwnMessage
  <2>2. ASSUME NEW i \in 1..Len(responses'), responses'[i].ok PROVE Given(responses[i].msg)'
    <3> DEFINE S == [msg : Messages, ok : BOOLEAN]
               n == Len(responses)
    <3>1. CASE responses' = responses
      BY <1>1, <2>1, <2>2, <3>1 DEF Given
    <3>2. CASE reader[r].mine # 0 /\ responses' = Append(responses, a)
      <4>1. responses \in Seq(S) /\ a \in S
        BY <1>1, <1>8, <3>2 DEF TypeOK
      <4> HIDE DEF S
      <4>2. /\ Len(responses') = n + 1 /\ n \in Nat /\ responses'[n + 1] = a
            /\ \A k \in 1..n : responses'[k] = responses[k]
        BY <3>2, <4>1, AppendFacts
      <4> HIDE DEF n
      <4>3. CASE i = n + 1
        <5>1. Given(reader[r].mine) /\ responses'[i].msg = reader[r].mine
          BY <1>9, <2>1, <2>2, <3>2, <4>2, <4>3
        <5> QED
          BY <1>1, <5>1 DEF Given
      <4>4. CASE i \in 1..n
        <5>1. Given(responses[i].msg) /\ responses'[i] = responses[i]
          BY <2>1, <2>2, <4>2, <4>4 DEF n
        <5> QED
          BY <1>1, <5>1 DEF Given
      <4>5. i = n + 1 \/ i \in 1..n
        BY <4>2
      <4> QED
        BY <4>3, <4>4, <4>5
    <3> QED
      BY <1>7, <3>1, <3>2
  <2>3. main' = "result" /\ result' => Given(taken)'
    BY <1>1, <2>1 DEF Given
  <2>4. ASSUME NEW o \in Rounds, reader'[o].ok, reader'[o].mine # 0 PROVE Given(reader[o].mine)'
    <3>1. o # r /\ reader'[o] = reader[o]
      BY <1>5, <1>10, <2>4
    <3> QED
      BY <1>1, <2>1, <2>4, <3>1 DEF Given
  <2>5. \A o \in Rounds : o # round => reader'[o].pc \in Gone \cup {"none"} \/ reader'[o].stop
    <3>1. r # round => p = "done"
      BY <1>1, <1>4, <2>1 DEF Gone
    <3> QED
      BY <1>5, <1>10, <2>1, <3>1 DEF Gone
  <2>6. \A o \in Rounds : o = round =>
           /\ reader'[o].pc = "prepare" => reader'[o].mine = msg'
           /\ reader'[o].pc = "offer" => reader'[o].mine = reader'[o].value
           /\ reader'[o].pc = "await" => /\ reader'[o].mine = taken'
                                         /\ main' \in {"refuse", "work", "result"}
    BY <1>1, <1>5, <1>10, <2>1
  <2> QED
    BY <1>1, <2>2, <2>3, <2>4, <2>5, <2>6 DEF OwnMessage
<1> QED
  BY <1>12, <1>13, <1>14, <1>15 DEF IInv
-----------------------------------------------------------------------------
\* The invariant holds in every reachable state.
LEMMA InvHolds == Spec => []IInv
<1>1. ASSUME IInv, [Next]_vars PROVE IInv'
  <2>1. CASE MainStep
    BY <1>1, <2>1, RoundBeginInv, ReportInv, TakeInv, RefuseInv, PrepareAndSendInv, ResultInv,
       QuietSteps DEF MainStep
  <2>2. ASSUME NEW r \in Rounds, Recv(r) \/ ReaderStep(r) PROVE IInv'
    BY <1>1, <2>2, RecvInv, PrepareInv, TimeoutInv, SendInv, RecvEndInv, RecvMistakenInv
    DEF ReaderStep
  <2> QED
    BY <1>1, <2>1, <2>2, QuietSteps DEF Next
<1> QED
  BY <1>1, InitInv, PTL DEF Spec

\* The messages of a Publish stream reach the broker in the order of the client, none
\* of them twice, for any number of rounds, lost connections and late readers.
THEOREM PublishedInOrderAlways == Spec => []PublishedInOrder
<1>1. IInv => PublishedInOrder
  BY DEF IInv, InOrder
<1> QED
  BY <1>1, InvHolds, PTL

\* A client of Publish is told of success only for a message that was given to the
\* broker, as long as the variable msg has one reader.
THEOREM SuccessAlwaysMeansPublished == Spec => []SuccessMeansPublished
<1>1. IInv => SuccessMeansPublished
  BY DEF IInv, OwnMessage, Given, SuccessMeansPublished
<1> QED
  BY <1>1, InvHolds, PTL
-----------------------------------------------------------------------------
(***************************************************************************)
(* The log of the stream.  A message received belongs to one reader until  *)
(* that reader has answered it, and to none afterwards.                    *)
(***************************************************************************)
OneOwner ==
    /\ \A r \in Rounds : reader[r].mine <= received
    /\ \A r, o \in Rounds : r # o /\ reader[r].mine # 0 => reader[r].mine # reader[o].mine
    /\ \A k \in 1..Len(responses) :
          /\ responses[k].msg <= received
          /\ \A r \in Rounds : responses[k].msg # reader[r].mine

\* Nothing is received or answered, and a reader keeps its message or forgets it.
Keeps ==
    /\ UNCHANGED <<received, responses>>
    /\ \A r \in Rounds : reader'[r].mine \in {reader[r].mine, 0}

\* Only Recv gives a message to a reader, and only Send answers one.
LEMMA OthersKeep ==
    ASSUME IInv, [Next]_vars, \A r \in Rounds : ~Recv(r) /\ ~Send(r)
    PROVE  Keeps
<1> USE PublishAssumption
<1>0. TypeOK /\ reader \in [Rounds -> ReaderRecords]
  BY DEF IInv, TypeOK, ReaderRecords
<1>1. CASE reader' = reader /\ UNCHANGED <<received, responses>>
  BY <1>1 DEF Keeps
<1>2. ASSUME NEW STATE r, r \in Rounds, NEW STATE ok, ok \in BOOLEAN,
             NEW STATE halt, halt \in BOOLEAN,
             Answer(r, ok, halt), UNCHANGED <<received, responses>>
      PROVE  Keeps
  BY <1>0, <1>2, AnswerFacts DEF Keeps
<1>3. ASSUME NEW STATE r, r \in Rounds, NEW STATE pc, reader' = [reader EXCEPT ![r] = [NoReader EXCEPT !.pc = pc]],
             UNCHANGED <<received, responses>>
      PROVE  Keeps
  BY <1>0, <1>3 DEF Keeps, NoReader
<1>4. CASE RoundBegin
  <2>1. UNCHANGED <<received, responses>>
    BY <1>4 DEF RoundBegin, streamVars
  <2>2. CASE known
    <3>1. /\ round + 1 \in Rounds
          /\ reader' = [reader EXCEPT ![round + 1] = [NoReader EXCEPT !.pc = "recv"]]
      BY <1>0, <1>4, <2>2 DEF RoundBegin, TypeOK, Rounds
    <3> QED
      BY <1>3, <2>1, <3>1
  <2>3. CASE ~known
    BY <1>1, <1>4, <2>1, <2>3 DEF RoundBegin
  <2> QED
    BY <2>2, <2>3
<1>5. CASE Report \/ PublishRefuse \/ PublishResult
  <2>1. round \in Rounds
    BY <1>0, <1>5 DEF IInv, Points, Report, PublishRefuse, PublishResult
  <2>2. UNCHANGED <<received, responses>>
    BY <1>5 DEF Report, PublishRefuse, PublishResult, streamVars
  <2>3. \/ Answer(round, FALSE, TRUE) \/ Answer(round, FALSE, FALSE)
        \/ Answer(round, result, FALSE)
    BY <1>5 DEF Report, PublishRefuse, PublishResult
  <2>4. result \in BOOLEAN
    BY <1>0 DEF TypeOK
  <2> QED
    BY <1>2, <2>1, <2>2, <2>3, <2>4
<1>6. CASE PublishTake
  <2>1. /\ reader' = [reader EXCEPT ![round].pc = "await"]
        /\ UNCHANGED <<received, responses>>
    BY <1>6 DEF PublishTake, streamVars
  <2> QED
    BY <1>0, <2>1 DEF Keeps, ReaderRecords
<1>7. CASE \/ CheckClient \/ WaitForConnect \/ RoundEnd \/ Finish \/ PublishEnter
           \/ PublishNotify \/ PublishStops \/ PublishNotified \/ PrepareAndSend
           \/ ClientEnds \/ ConnectionLost \/ ConnectionClosed \/ ClientForgotten
           \/ Reconnected \/ UNCHANGED vars
  <2>1. reader' = reader /\ UNCHANGED <<received, responses>>
    BY <1>7 DEF CheckClient, WaitForConnect, RoundEnd, Finish, PublishEnter, PublishNotify,
                PublishStops, PublishNotified, PrepareAndSend, ClientEnds, ConnectionLost,
                ConnectionClosed, ClientForgotten, Reconnected, streamVars, vars
  <2> QED
    BY <1>1, <2>1
<1>8. ASSUME NEW r \in Rounds, Prepare(r) \/ Timeout(r) PROVE Keeps
  <2>1. UNCHANGED <<received, responses>>
    BY <1>8 DEF Prepare, Timeout, streamVars
  <2>2. CASE Answer(r, FALSE, FALSE) \/ Answer(r, FALSE, TRUE)
    BY <1>2, <2>1, <2>2
  <2>3. CASE reader' = [reader EXCEPT ![r].pc = "offer", ![r].value = msg]
    BY <1>0, <2>1, <2>3 DEF Keeps, ReaderRecords
  <2> QED
    BY <1>8, <2>2, <2>3 DEF Prepare, Timeout
<1>9. ASSUME NEW r \in Rounds, RecvEnd(r) PROVE Keeps
  <2>1. UNCHANGED <<received, responses>>
    BY <1>9 DEF RecvEnd
  <2>2. CASE reader' = [reader EXCEPT ![r].pc = "over"]
    BY <1>0, <2>1, <2>2 DEF Keeps, ReaderRecords
  <2>3. CASE reader' = [reader EXCEPT ![r] = [NoReader EXCEPT !.pc = "send"]]
    BY <1>3, <2>1, <2>3
  <2> QED
    BY <1>9, <2>2, <2>3 DEF RecvEnd
<1>10. ASSUME NEW r \in Rounds, RecvMistaken(r) PROVE Keeps
  <2>1. /\ reader' = [reader EXCEPT ![r] = [NoReader EXCEPT !.pc = "done"]]
        /\ UNCHANGED <<received, responses>>
    BY <1>10 DEF RecvMistaken, streamVars
  <2> QED
    BY <1>3, <2>1
<1> QED
  BY <1>4, <1>5, <1>6, <1>7, <1>8, <1>9, <1>10 DEF Next, MainStep, ReaderStep

\* What Recv does to the log.
LEMMA RecvFacts ==
    ASSUME IInv, NEW r \in Rounds, Recv(r)
    PROVE  /\ received' = received + 1 /\ received \in Nat
           /\ UNCHANGED <<published, responses, shared>>
           /\ reader'[r].mine = received + 1
           /\ \A o \in Rounds : o # r => reader'[o] = reader[o]
<1>1. reader \in [Rounds -> ReaderRecords] /\ received \in Nat
  BY PublishAssumption DEF IInv, TypeOK, ReaderRecords
<1>2. /\ received' = received + 1 /\ UNCHANGED <<published, responses, shared>>
      /\ reader' = [reader EXCEPT ![r].pc = "prepare", ![r].mine = received + 1]
  BY DEF Recv
<1> QED
  BY <1>1, <1>2 DEF ReaderRecords

\* What Send does to it: at most the message of the reader is answered.
LEMMA SendFacts ==
    ASSUME IInv, NEW r \in Rounds, Send(r)
    PROVE  /\ UNCHANGED <<received, published, shared>>
           /\ reader'[r].mine = 0
           /\ \A o \in Rounds : o # r => reader'[o] = reader[o]
           /\ \/ responses' = responses
              \/ /\ reader[r].mine # 0
                 /\ responses' = Append(responses, [msg |-> reader[r].mine,
                                                    ok |-> reader[r].ok])
<1>1. reader \in [Rounds -> ReaderRecords]
  BY DEF IInv, TypeOK, ReaderRecords
<1>2. UNCHANGED <<received, published, shared>>
  BY DEF Send, streamVars
<1>3. \E pc \in {"done", "recv"} : reader' = [reader EXCEPT ![r] = [NoReader EXCEPT !.pc = pc]]
  <2>1. CASE Dead
    BY <2>1 DEF Send
  <2>2. CASE ~Dead
    <3> DEFINE p == IF reader[r].stop THEN "done" ELSE "recv"
    <3>1. reader' = [reader EXCEPT ![r] = [NoReader EXCEPT !.pc = p]]
      BY <2>2 DEF Send
    <3>2. p \in {"done", "recv"}
      OBVIOUS
    <3> HIDE DEF p
    <3> QED
      BY <3>1, <3>2
  <2> QED
    BY <2>1, <2>2
<1>4. /\ reader'[r].mine = 0
      /\ \A o \in Rounds : o # r => reader'[o] = reader[o]
  BY <1>1, <1>3 DEF NoReader
<1>5. \/ responses' = responses
      \/ /\ reader[r].mine # 0
         /\ responses' = Append(responses, [msg |-> reader[r].mine, ok |-> reader[r].ok])
  BY DEF Send
<1> QED
  BY <1>2, <1>4, <1>5

\* A message keeps its one owner until it is answered.
LEMMA OwnerStep == IInv /\ OneOwner /\ [Next]_vars => OneOwner'
<1> SUFFICES ASSUME IInv, OneOwner, [Next]_vars PROVE OneOwner'
  OBVIOUS
<1> USE PublishAssumption
<1> DEFINE R == [msg : Messages, ok : BOOLEAN]
<1>0. /\ received \in Nat /\ \A r \in Rounds : reader[r].mine \in 0..MaxMessages
      /\ responses \in Seq(R)
  BY DEF IInv, TypeOK
<1>1. \A k \in 1..Len(responses) : responses[k] \in R
  <2> HIDE DEF R
  <2> QED
    BY <1>0, ElementOf
<1>2. \A k \in 1..Len(responses) : responses[k].msg \in Nat \ {0}
  BY <1>1 DEF Messages
<1>3. CASE Keeps
  <2>1. received' = received /\ responses' = responses
    BY <1>3 DEF Keeps
  <2>2. \A r \in Rounds : reader'[r].mine \in {reader[r].mine, 0}
    BY <1>3 DEF Keeps
  <2>3. \A r \in Rounds : reader'[r].mine <= received'
    BY <1>0, <2>1, <2>2 DEF OneOwner
  <2>4. \A r, o \in Rounds : r # o /\ reader'[r].mine # 0 => reader'[r].mine # reader'[o].mine
    BY <2>2 DEF OneOwner
  <2>5. ASSUME NEW k \in 1..Len(responses), NEW r \in Rounds
        PROVE  responses[k].msg # reader'[r].mine
    BY <1>2, <2>2 DEF OneOwner
  <2> QED
    BY <2>1, <2>3, <2>4, <2>5 DEF OneOwner
<1>4. ASSUME NEW r \in Rounds, Recv(r) PROVE OneOwner'
  <2>1. /\ received' = received + 1 /\ responses' = responses
        /\ reader'[r].mine = received + 1
        /\ \A o \in Rounds : o # r => reader'[o] = reader[o]
    BY <1>4, RecvFacts
  <2>2. \A o \in Rounds : reader'[o].mine <= received'
    BY <1>0, <2>1 DEF OneOwner
  <2>3. \A o, q \in Rounds : o # q /\ reader'[o].mine # 0 => reader'[o].mine # reader'[q].mine
    <3>1. \A o \in Rounds : o # r => reader'[o].mine # received + 1
      BY <1>0, <2>1 DEF OneOwner
    <3> QED
      BY <2>1, <3>1 DEF OneOwner
  <2>4. ASSUME NEW k \in 1..Len(responses)
        PROVE  /\ responses[k].msg <= received'
               /\ \A o \in Rounds : responses[k].msg # reader'[o].mine
    BY <1>0, <1>2, <2>1 DEF OneOwner
  <2> QED
    BY <2>1, <2>2, <2>3, <2>4 DEF OneOwner
<1>5. ASSUME NEW r \in Rounds, Send(r) PROVE OneOwner'
  <2> DEFINE a == [msg |-> reader[r].mine, ok |-> reader[r].ok]
  <2>1. /\ received' = received /\ reader'[r].mine = 0
        /\ \A o \in Rounds : o # r => reader'[o] = reader[o]
        /\ responses' = responses \/ (reader[r].mine # 0 /\ responses' = Append(responses, a))
    BY <1>5, SendFacts
  <2>2. \A o \in Rounds : reader'[o].mine <= received'
    BY <1>0, <2>1 DEF OneOwner
  <2>3. \A o, q \in Rounds : o # q /\ reader'[o].mine # 0 => reader'[o].mine # reader'[q].mine
    BY <2>1 DEF OneOwner
  <2>4. ASSUME NEW k \in 1..Len(responses)
        PROVE  /\ responses[k].msg <= received'
               /\ \A o \in Rounds : responses[k].msg # reader'[o].mine
    BY <1>0, <1>2, <2>1 DEF OneOwner
  <2>5. CASE responses' = responses
    BY <2>2, <2>3, <2>4, <2>5 DEF OneOwner
  <2>6. CASE reader[r].mine # 0 /\ responses' = Append(responses, a)
    <3>1. a \in R /\ a.msg = reader[r].mine
      <4>1. reader[r].ok \in BOOLEAN
        BY DEF IInv, TypeOK
      <4> QED
        BY <1>0, <2>6, <4>1 DEF Messages
    <3>2. /\ Len(responses') = Len(responses) + 1 /\ Len(responses) \in Nat
          /\ responses'[Len(responses) + 1] = a
          /\ \A k \in 1..Len(responses) : responses'[k] = responses[k]
      <4> HIDE DEF R, a
      <4> QED
        BY <1>0, <2>6, <3>1, AppendFacts
    <3>3. /\ a.msg <= received'
          /\ \A o \in Rounds : a.msg # reader'[o].mine
      BY <2>1, <2>6, <3>1 DEF OneOwner
    <3> HIDE DEF a, R
    <3>4. ASSUME NEW k \in 1..Len(responses')
          PROVE  /\ responses'[k].msg <= received'
                 /\ \A o \in Rounds : responses'[k].msg # reader'[o].mine
      <4>1. k = Len(responses) + 1 \/ k \in 1..Len(responses)
        BY <3>2
      <4> QED
        BY <2>4, <3>2, <3>3, <4>1
    <3> QED
      BY <2>2, <2>3, <3>4 DEF OneOwner
  <2> QED
    BY <2>1, <2>5, <2>6
<1> QED
  BY <1>3, <1>4, <1>5, OthersKeep

\* Every step of the RPC is a step of the log or leaves it alone.
LEMMA LogStep ==
    IInv /\ OneOwner /\ [Next]_vars => [Log!Next]_<<received, published, responses, shared>>
<1> SUFFICES ASSUME IInv, OneOwner, [Next]_vars
             PROVE  [Log!Next]_<<received, published, responses, shared>>
  OBVIOUS
<1> USE PublishAssumption
<1> DEFINE Same == UNCHANGED <<received, published, responses, shared>>
<1>1. ASSUME NEW r \in Rounds, Recv(r) PROVE Log!Receive
  BY <1>1, RecvFacts DEF Log!Receive
<1>2. ASSUME NEW r \in Rounds, Send(r) PROVE Log!Respond \/ Same
  <2>1. UNCHANGED <<received, published, shared>>
    BY <1>2, SendFacts
  <2>2. CASE responses' = responses
    BY <2>1, <2>2
  <2>3. CASE responses' # responses
    <3>1. /\ reader[r].mine # 0
          /\ responses' = Append(responses, [msg |-> reader[r].mine, ok |-> reader[r].ok])
      BY <1>2, <2>3, SendFacts
    <3>2. reader[r].mine \in 1..received /\ reader[r].ok \in BOOLEAN
      BY <3>1 DEF OneOwner, IInv, TypeOK
    <3>3. ~Log!Answered(reader[r].mine)
      BY DEF Log!Answered, OneOwner
    <3>4. reader[r].ok => Log!Published(reader[r].mine) \/ shared
      BY <3>1 DEF Log!Published, IInv, OwnMessage, Given
    <3>5. Log!Respond
      BY <2>1, <3>1, <3>2, <3>3, <3>4 DEF Log!Respond
    <3> QED
      BY <3>5
  <2> QED
    BY <2>2, <2>3
<1>3. CASE PrepareAndSend
  <2>1. /\ main = "work" /\ UNCHANGED <<received, responses, shared>>
        /\ published' = published \/ published' = Append(published, taken)
    BY <1>3 DEF PrepareAndSend, streamVars
  <2>2. taken \in 1..received /\ \A k \in 1..Len(published) : published[k] < taken
    <3>1. taken \in 0..MaxMessages /\ taken # 0 /\ received \in Nat
      BY <2>1 DEF IInv, TypeOK
    <3>2. taken <= received /\ \A k \in 1..Len(published) : published[k] < taken
      BY <2>1 DEF IInv, InOrder
    <3> QED
      BY <3>1, <3>2
  <2>3. CASE published' = published
    BY <2>1, <2>3
  <2>4. CASE published' = Append(published, taken)
    <3>1. Log!Publish
      BY <2>1, <2>2, <2>4 DEF Log!Publish
    <3> QED
      BY <3>1 DEF Log!Next
  <2> QED
    BY <2>1, <2>3, <2>4
<1>4. CASE RoundBegin
  <2>1. UNCHANGED <<received, published, responses>> /\ (shared' = shared \/ shared' = TRUE)
    BY <1>4 DEF RoundBegin, streamVars, IInv, TypeOK
  <2>2. Same \/ Log!Mix
    BY <2>1 DEF Log!Mix
  <2> QED
    BY <2>2 DEF Log!Next
<1>5. CASE \/ Report \/ CheckClient \/ WaitForConnect \/ RoundEnd \/ Finish \/ PublishEnter
           \/ PublishNotify \/ PublishStops \/ PublishNotified \/ PublishTake \/ PublishRefuse
           \/ PublishResult \/ ClientEnds \/ ConnectionLost \/ ConnectionClosed
           \/ ClientForgotten \/ Reconnected \/ UNCHANGED vars
  <2>1. Same
    BY <1>5 DEF Report, CheckClient, WaitForConnect, RoundEnd, Finish, PublishEnter,
                PublishNotify, PublishStops, PublishNotified, PublishTake, PublishRefuse,
                PublishResult, ClientEnds, ConnectionLost, ConnectionClosed, ClientForgotten,
                Reconnected, streamVars, vars
  <2> QED
    BY <2>1
<1>6. ASSUME NEW r \in Rounds, Prepare(r) \/ Timeout(r) \/ RecvEnd(r) \/ RecvMistaken(r)
      PROVE  Same
  BY <1>6 DEF Prepare, Timeout, RecvEnd, RecvMistaken, streamVars
<1> QED
  BY <1>1, <1>2, <1>3, <1>4, <1>5, <1>6 DEF Next, MainStep, ReaderStep, Log!Next

\* The Publish RPC implements PublishLog, for any number of messages, rounds and
\* readers: messages are published in the order of the client and at most once, none
\* is answered twice, and success is reported for published messages as long as the
\* variable msg has one reader.
THEOREM LogImplemented == Spec => ImplementsLog
<1>1. Init => Log!Init
  BY DEF Init, Log!Init
<1>2. Init => OneOwner
  <2> SUFFICES ASSUME Init PROVE OneOwner
    OBVIOUS
  <2>1. \A r \in Rounds : reader[r].mine = 0
    BY DEF Init, NoReader
  <2>2. received = 0 /\ Len(responses) = 0
    BY DEF Init
  <2> QED
    BY <2>1, <2>2 DEF OneOwner
<1>3. IInv /\ OneOwner /\ [Next]_vars => OneOwner'
  BY OwnerStep
<1>4. IInv /\ OneOwner /\ [Next]_vars
        => [Log!Next]_<<received, published, responses, shared>>
  BY LogStep
<1> QED
  BY InvHolds, <1>1, <1>2, <1>3, <1>4, PTL DEF Spec, ImplementsLog, Log!Spec
=============================================================================
