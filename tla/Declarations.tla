----------------------------- MODULE Declarations -----------------------------
(***************************************************************************)
(* What a session declares at the broker (amqp091.go): declareExchange     *)
(* with its parent address and the cache knownExchanges, declareQueue and  *)
(* declareBinding as queueSubscribe and setupDeadLetter call them          *)
(* (force = true), cleanupBindings through the management interface, and   *)
(* the background goroutine loadExchanges of every new connection.         *)
(*                                                                         *)
(* Several goroutines of one client declare the same address and queue:    *)
(* subscribers, and the set-up of a dead-letter queue that somebody also   *)
(* consumes.  All requests of a session go through one channel, the        *)
(* standby channel.  Exchanges and queues are declared with an answer,     *)
(* which comes after everything sent before; QueueBind asks for none.  Its *)
(* requests are on the wire until the broker comes to them, and the        *)
(* clean-up, which goes over HTTP, may overtake them.  A request the       *)
(* broker refuses closes the channel, and what is behind it is lost.       *)
(*                                                                         *)
(* An exchange that was declared auto-delete goes with the last binding of *)
(* its queues.  The caches of queues and bindings are not consulted under  *)
(* force; they are in QueueDelivery.                                       *)
(***************************************************************************)
EXTENDS Integers, Sequences, FiniteSets

CONSTANTS
    Declarers,      \* goroutines that declare
    DeadLetter,     \* those that are a setupDeadLetter
    AutoDelete,     \* those whose address says auto_delete
    HasParent,      \* those whose address names a parent address
    SubjectsOf,     \* the subjects each of them names
    OldSubjects,    \* subjects the queue is bound with when the client starts
    Address,        \* the exchange of the address
    Parent,         \* the exchange of the parent address
    MaxLosses       \* bound: connections lost

\* setupDeadLetter sets neither auto_delete nor a parent address.
ASSUME DeclarationsAssumption ==
    /\ Declarers # {} /\ DeadLetter \subseteq Declarers
    /\ AutoDelete \subseteq Declarers \ DeadLetter
    /\ HasParent \subseteq Declarers \ DeadLetter
    /\ Address # Parent /\ MaxLosses \in Nat

VARIABLES
    exchanges,       \* broker: exchanges that exist
    autoDelete,      \* broker: the address was first declared auto-delete
    queueExists,     \* broker: the queue exists
    bound,           \* broker: subjects binding the queue to Address
    routed,          \* broker: subjects binding Address to Parent
    bindWire,        \* requests to bind that the broker has not come to
    connected,       \* the session's connection is open
    knownExchanges,  \* bd.knownExchanges
    loader,          \* loadExchanges: program point and the list it got
    decl,            \* a declarer: program point, bindings left, whether all went well
    losses,
    unheard          \* history: declarers of whose binds one was lost or refused

declVars == <<exchanges, autoDelete, queueExists, bound, routed, bindWire, connected,
              knownExchanges, loader, decl, losses, unheard>>
brokerVars == <<exchanges, autoDelete, queueExists, bound, routed>>
wireVars == <<bindWire, unheard>>
sessionVars == <<connected, knownExchanges, loader, losses>>

Subjects == OldSubjects \cup UNION {SubjectsOf[d] : d \in Declarers}

\* The subjects all declarers name.
Agreed == {s \in Subjects : \A d \in Declarers : s \in SubjectsOf[d]}

\* Requests to bind.
Binds == {b \in [by : Declarers, subject : Subjects] : b.subject \in SubjectsOf[b.by]}

DeclPCs == {"exchange", "declare", "remember", "parent", "parentDeclare",
            "parentRemember", "route", "queue", "bind", "list", "clean",
            "done", "failed"}

DeclTypeOK ==
    /\ exchanges \subseteq {Address, Parent} /\ knownExchanges \subseteq {Address, Parent}
    /\ autoDelete \in BOOLEAN /\ queueExists \in BOOLEAN /\ connected \in BOOLEAN
    /\ bound \subseteq Subjects /\ routed \subseteq Subjects
    /\ bindWire \in Seq(Binds) /\ unheard \subseteq Declarers
    /\ loader \in [pc : {"idle", "get", "add"}, list : SUBSET {Address, Parent}]
    /\ decl \in [Declarers -> [pc : DeclPCs, left : SUBSET Subjects, clean : BOOLEAN]]
    /\ losses \in 0..MaxLosses

DeclInit ==
    /\ exchanges = (IF OldSubjects = {} THEN {} ELSE {Address})
    /\ autoDelete \in (IF OldSubjects = {} THEN {FALSE} ELSE BOOLEAN)
    /\ queueExists = (OldSubjects # {})
    /\ bound = OldSubjects /\ routed = {}
    /\ bindWire = <<>> /\ unheard = {}
    /\ connected = TRUE
    /\ knownExchanges = {}
    /\ loader = [pc |-> "get", list |-> {}]
    /\ decl = [d \in Declarers |-> [pc |-> "exchange", left |-> {}, clean |-> TRUE]]
    /\ losses = 0

DeclGoes(d, point) == decl' = [decl EXCEPT ![d].pc = point]

\* The declarer goes on although a step went wrong.
DeclGoesHurt(d, point) == decl' = [decl EXCEPT ![d].pc = point, ![d].clean = FALSE]

\* The channel is closed: nobody hears of the requests to bind that are lost.
ChannelCloses ==
    /\ bindWire' = <<>>
    /\ unheard' = unheard \cup {bindWire[i].by : i \in 1..Len(bindWire)}

\* The broker has come to everything that was sent before the request it answers.
Answered == connected /\ bindWire = <<>>

\* A request fails: the connection is down, or the broker refuses it and closes the
\* channel.
RequestFails(d, point) == DeclGoesHurt(d, point) /\ ChannelCloses
-----------------------------------------------------------------------------
\* declareExchange: the standby channel, and the cache.  Whatever error it
\* returns is ignored by its callers.
ExchangeCheck(d) ==
    /\ decl[d].pc = "exchange"
    /\ \/ /\ connected
          /\ DeclGoes(d, IF Address \in knownExchanges THEN "parent" ELSE "declare")
       \/ DeclGoesHurt(d, "queue")
    /\ UNCHANGED <<brokerVars, wireVars, sessionVars>>

\* ExchangeDeclare.  An error returns, except the one about other arguments of
\* an exchange that exists, which closes the channel all the same.
ExchangeDeclare(d) ==
    /\ decl[d].pc = "declare"
    /\ \/ /\ Answered
          /\ Address \in exchanges => autoDelete = (d \in AutoDelete)
          /\ exchanges' = exchanges \cup {Address} /\ autoDelete' = (d \in AutoDelete)
          /\ DeclGoes(d, "remember") /\ UNCHANGED wireVars
       \/ /\ connected /\ Address \in exchanges /\ autoDelete # (d \in AutoDelete)
          /\ DeclGoes(d, "remember") /\ ChannelCloses
          /\ UNCHANGED <<exchanges, autoDelete>>
       \/ RequestFails(d, "queue") /\ UNCHANGED <<exchanges, autoDelete>>
    /\ UNCHANGED <<queueExists, bound, routed, sessionVars>>

\* bd.knownExchanges.Add, to whichever map the session has by now.
ExchangeRemember(d) ==
    /\ decl[d].pc = "remember"
    /\ knownExchanges' = knownExchanges \cup {Address}
    /\ DeclGoes(d, "parent")
    /\ UNCHANGED <<brokerVars, wireVars, connected, loader, losses>>

\* The parent address, if there is one: the cache.
ParentCheck(d) ==
    /\ decl[d].pc = "parent"
    /\ DeclGoes(d, IF d \notin HasParent THEN "queue"
                   ELSE IF Parent \in knownExchanges THEN "route" ELSE "parentDeclare")
    /\ UNCHANGED <<brokerVars, wireVars, sessionVars>>

\* declareExchange for the parent, which looks into the cache again; its error is
\* only logged.
ParentDeclare(d) ==
    /\ decl[d].pc = "parentDeclare"
    /\ \/ /\ Answered /\ exchanges' = exchanges \cup {Parent}
          /\ DeclGoes(d, "parentRemember") /\ UNCHANGED wireVars
       \/ /\ Parent \in knownExchanges
          /\ DeclGoes(d, "parentRemember") /\ UNCHANGED <<exchanges, wireVars>>
       \/ RequestFails(d, "parentRemember") /\ UNCHANGED exchanges
    /\ UNCHANGED <<autoDelete, queueExists, bound, routed, sessionVars>>

\* The parent is remembered whether it was declared or not.
ParentRemember(d) ==
    /\ decl[d].pc = "parentRemember"
    /\ knownExchanges' = knownExchanges \cup {Parent}
    /\ DeclGoes(d, "route")
    /\ UNCHANGED <<brokerVars, wireVars, connected, loader, losses>>

\* ExchangeBind for every subject; it needs both exchanges.
RouteFromParent(d) ==
    /\ decl[d].pc = "route"
    /\ \/ /\ Answered /\ {Address, Parent} \subseteq exchanges
          /\ routed' = routed \cup SubjectsOf[d]
          /\ DeclGoes(d, "queue") /\ UNCHANGED wireVars
       \/ RequestFails(d, "queue") /\ UNCHANGED routed
    /\ UNCHANGED <<exchanges, autoDelete, queueExists, bound, sessionVars>>
-----------------------------------------------------------------------------
\* declareQueue: without a channel it fails, which ends a subscription but not
\* the set-up of a dead-letter queue; an error of the declaration is logged.
DeclareQueue(d) ==
    /\ decl[d].pc = "queue"
    /\ \/ /\ Answered
          /\ queueExists' = TRUE
          /\ decl' = [decl EXCEPT ![d].pc = "bind", ![d].left = SubjectsOf[d]]
          /\ UNCHANGED wireVars
       \/ /\ ChannelCloses
          /\ \E point \in {"bind"} \cup (IF d \in DeadLetter THEN {} ELSE {"failed"}) :
               decl' = [decl EXCEPT ![d].pc = point, ![d].left = SubjectsOf[d],
                                    ![d].clean = FALSE]
          /\ UNCHANGED queueExists
    /\ UNCHANGED <<exchanges, autoDelete, bound, routed, sessionVars>>

\* declareBinding: a channel, and QueueBind for one subject after the other, which
\* does not wait for the broker; an error of sending is logged.
DeclareBinding(d) ==
    /\ decl[d].pc = "bind"
    /\ \/ \E s \in decl[d].left :
            \/ /\ connected
               /\ bindWire' = Append(bindWire, [by |-> d, subject |-> s])
               /\ decl' = [decl EXCEPT ![d].left = @ \ {s}]
            \/ /\ decl' = [decl EXCEPT ![d].left = @ \ {s}, ![d].clean = FALSE]
               /\ UNCHANGED bindWire
       \/ decl[d].left = {} /\ DeclGoes(d, "list") /\ UNCHANGED bindWire
       \/ DeclGoesHurt(d, "failed") /\ UNCHANGED bindWire
    /\ UNCHANGED <<brokerVars, sessionVars, unheard>>

\* The broker comes to the next request to bind.  It refuses one whose exchange or
\* queue is not there, and closes the channel.
BrokerBinds ==
    /\ bindWire # <<>>
    /\ \/ /\ queueExists /\ Address \in exchanges
          /\ bound' = bound \cup {Head(bindWire).subject}
          /\ bindWire' = Tail(bindWire) /\ UNCHANGED unheard
       \/ ~(queueExists /\ Address \in exchanges) /\ ChannelCloses /\ UNCHANGED bound
    /\ UNCHANGED <<exchanges, autoDelete, queueExists, routed, sessionVars, decl>>

\* Slip: only the first subject is compared.
ListAllButOne(d) ==
    /\ decl[d].pc = "list"
    /\ \E s \in SubjectsOf[d] :
        decl' = [decl EXCEPT ![d].left = bound \ {s}, ![d].pc = "clean"]
    /\ UNCHANGED <<brokerVars, wireVars, sessionVars>>

\* getBindingKeysForSource: the bindings now, of which the unexpected ones are
\* to go; a request that fails leaves nothing to delete.
ListBindings(d) ==
    /\ decl[d].pc = "list"
    /\ \/ decl' = [decl EXCEPT ![d].left = bound \ SubjectsOf[d], ![d].pc = "clean"]
       \/ DeclGoesHurt(d, "clean")
    /\ UNCHANGED <<brokerVars, wireVars, sessionVars>>

\* deleteBindingByKeyFromSource for each of them.  With the last binding the broker
\* drops an auto-delete exchange, and what was bound to it from the parent.  Then
\* the binding is remembered.
CleanupBindings(d) ==
    /\ decl[d].pc = "clean"
    /\ \/ \E s \in decl[d].left :
            \/ /\ bound' = bound \ {s}
               /\ IF autoDelete /\ bound = {s}
                  THEN exchanges' = exchanges \ {Address} /\ routed' = {}
                  ELSE UNCHANGED <<exchanges, routed>>
               /\ decl' = [decl EXCEPT ![d].left = @ \ {s}]
            \/ /\ decl' = [decl EXCEPT ![d].left = @ \ {s}, ![d].clean = FALSE]
               /\ UNCHANGED <<bound, exchanges, routed>>
       \/ decl[d].left = {} /\ DeclGoes(d, "done") /\ UNCHANGED <<bound, exchanges, routed>>
    /\ UNCHANGED <<autoDelete, queueExists, wireVars, sessionVars>>
-----------------------------------------------------------------------------
ConnectionLoss ==
    /\ connected /\ losses < MaxLosses
    /\ connected' = FALSE /\ losses' = losses + 1
    /\ ChannelCloses
    /\ UNCHANGED <<brokerVars, knownExchanges, loader, decl>>

\* connect: new caches, a new connection, and loadExchanges in the background.
\* Only one of the loaders is followed when two are under way.
Reconnect ==
    /\ ~connected
    /\ connected' = TRUE
    /\ knownExchanges' = {}
    /\ loader' = [loader EXCEPT !.pc = IF @ = "add" THEN "add" ELSE "get"]
    /\ UNCHANGED <<brokerVars, wireVars, decl, losses>>

\* loadExchanges: the list of the management interface, or an error ...
LoadGet ==
    /\ loader.pc = "get"
    /\ \/ loader' = [pc |-> "add", list |-> exchanges]
       \/ loader' = [pc |-> "idle", list |-> {}]
    /\ UNCHANGED <<brokerVars, wireVars, connected, knownExchanges, decl, losses>>

\* ... and its names, added to whichever map the session has by now.
LoadAdd ==
    /\ loader.pc = "add"
    /\ knownExchanges' = knownExchanges \cup loader.list
    /\ loader' = [pc |-> "idle", list |-> {}]
    /\ UNCHANGED <<brokerVars, wireVars, connected, decl, losses>>

DeclareStep(d) ==
    \/ ExchangeCheck(d) \/ ExchangeDeclare(d) \/ ExchangeRemember(d)
    \/ ParentCheck(d) \/ ParentDeclare(d) \/ ParentRemember(d) \/ RouteFromParent(d)
    \/ DeclareQueue(d) \/ DeclareBinding(d) \/ ListBindings(d) \/ CleanupBindings(d)

DeclNext ==
    \/ \E d \in Declarers : DeclareStep(d)
    \/ BrokerBinds
    \/ ConnectionLoss \/ Reconnect \/ LoadGet \/ LoadAdd
-----------------------------------------------------------------------------
AllWell == \A d \in Declarers : decl[d].pc = "done" /\ decl[d].clean

\* Nothing is on the wire, and the broker has come to every bind that was sent.
AllHeard == bindWire = <<>> /\ unheard = {}

\* As long as nothing failed, no bind is under way and the declarers have a subject
\* in common, the cache never names an address the broker does not have, although
\* several goroutines clean up each other's bindings and an auto-delete exchange goes
\* with the last of them: a publish that skips the declaration finds its exchange.
KnownAddressExists ==
    (Agreed # {} /\ AllHeard /\ \A d \in Declarers : decl[d].clean)
        => (Address \in knownExchanges => Address \in exchanges)

\* When everybody is through without an error and the broker has come to their
\* binds, the queue is bound with every subject they all name: no clean-up removed
\* what another one had just made.
SharedSubjectsBound == AllWell /\ AllHeard => Agreed \subseteq bound

\* And subjects nobody names any more are gone, whatever became of the binds.
OldSubjectsGone ==
    AllWell => \A s \in bound : \E d \in Declarers : s \in SubjectsOf[d]

\* After declarations of one queue that overlapped without an error its bindings are
\* those the declarers agree on, and none that nobody names (declareBinding,
\* cleanupBindings).
BindingsSettled == DeclTypeOK /\ SharedSubjectsBound /\ OldSubjectsGone
=============================================================================
