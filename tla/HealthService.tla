---------------------------- MODULE HealthService ----------------------------
(***************************************************************************)
(* The health stream: MonitorHPA (internal/util/k8s.go) watches the        *)
(* replica count and posts GOAWAY on healthChan; MonitorHealthChan passes  *)
(* it to the channel of every registered Check; Check                      *)
(* (internal/server/server.go) registers its channel under the client's    *)
(* address and forwards what it is given.  Its receiving goroutine answers  *)
(* each check of the client and keeps no state; it is left out.            *)
(*                                                                         *)
(* All channels are unbuffered: a send and its receive are one step.       *)
(* MonitorHealthChan lists the addresses, looks each one up and then       *)
(* sends, while Checks come, replace each other and leave.  A send on a    *)
(* closed channel panics, and nothing in MonitorHealthChan recovers.       *)
(***************************************************************************)
EXTENDS Integers, FiniteSets

CONSTANTS
    Checks,       \* Check calls, each with a channel of its own
    Addrs,        \* client addresses
    AddrOf,       \* the address each Check comes from
    MaxReplicas,  \* largest replica count
    MaxEvents,    \* bound: Modified events of the watched autoscaler
    NoCheck       \* an address without a registration

ASSUME HealthAssumption ==
    /\ NoCheck \notin Checks /\ AddrOf \in [Checks -> Addrs]
    /\ MaxReplicas \in Nat \ {0} /\ MaxEvents \in Nat

VARIABLES
    notifiers,  \* healthNotifiers
    check,      \* a Check: program point, and whether its context is done
    closed,     \* Checks that have closed their channel
    monitor,    \* MonitorHealthChan: program point, addresses left, target
    hpa,        \* MonitorHPA: program point, currentReplicaCount, the new one
    events,     \* events seen
    newest,     \* history: the last Check registered for an address
    crashed     \* MonitorHealthChan has panicked: the process is gone

healthVars == <<notifiers, check, closed, monitor, hpa, events, newest, crashed>>

Running == {"initial", "loop", "notify"}

HealthTypeOK ==
    /\ notifiers \in [Addrs -> Checks \cup {NoCheck}]
    /\ check \in [Checks -> [pc : Running \cup {"none", "leave", "close", "returned"},
                             done : BOOLEAN]]
    /\ closed \subseteq Checks
    /\ monitor \in [pc : {"range", "next", "send"}, left : SUBSET Addrs,
                    to : Checks \cup {NoCheck}]
    /\ hpa \in [pc : {"watch", "post", "returned"}, current : -1..MaxReplicas,
                new : -1..MaxReplicas]
    /\ events \in 0..MaxEvents
    /\ newest \in [Addrs -> Checks \cup {NoCheck}]
    /\ crashed \in BOOLEAN

HealthInit ==
    /\ notifiers = [a \in Addrs |-> NoCheck]
    /\ check = [k \in Checks |-> [pc |-> "none", done |-> FALSE]]
    /\ closed = {}
    /\ monitor = [pc |-> "range", left |-> {}, to |-> NoCheck]
    /\ hpa = [pc |-> "watch", current |-> -1, new |-> -1]
    /\ events = 0
    /\ newest = [a \in Addrs |-> NoCheck]
    /\ crashed = FALSE

CheckGoes(k, point) == check' = [check EXCEPT ![k].pc = point]
-----------------------------------------------------------------------------
\* Check begins; notifyHealth replaces the registration of an older Check.
RegisterCheck(k) ==
    LET a == AddrOf[k]
    IN  /\ check[k].pc = "none"
        /\ notifiers' = [notifiers EXCEPT ![a] = k]
        /\ newest' = [newest EXCEPT ![a] = k]
        /\ CheckGoes(k, "initial")
        /\ UNCHANGED <<closed, monitor, hpa, events, crashed>>

\* The initial status is sent, and the receiving goroutine started; a send that
\* fails ends the Check.
SendInitial(k) ==
    /\ check[k].pc = "initial"
    /\ CheckGoes(k, "loop") \/ CheckGoes(k, "leave")
    /\ UNCHANGED <<notifiers, closed, monitor, hpa, events, newest, crashed>>

\* The status made from the code (MakeInternalHealthMsg) is sent; a failed send
\* is ignored.
SendNotification(k) ==
    /\ check[k].pc = "notify"
    /\ CheckGoes(k, "loop")
    /\ UNCHANGED <<notifiers, closed, monitor, hpa, events, newest, crashed>>

\* The client goes away.
ContextDone(k) ==
    /\ check[k].pc \in Running /\ ~check[k].done
    /\ check' = [check EXCEPT ![k].done = TRUE]
    /\ UNCHANGED <<notifiers, closed, monitor, hpa, events, newest, crashed>>

\* The select takes ctx.Done.
LeaveLoop(k) ==
    /\ check[k].pc = "loop" /\ check[k].done
    /\ CheckGoes(k, "leave")
    /\ UNCHANGED <<notifiers, closed, monitor, hpa, events, newest, crashed>>

\* Slip: the registration is deleted whoever it belongs to.
DeleteAnyway(k) ==
    /\ check[k].pc = "leave"
    /\ notifiers' = [notifiers EXCEPT ![AddrOf[k]] = NoCheck]
    /\ CheckGoes(k, "close")
    /\ UNCHANGED <<closed, monitor, hpa, events, newest, crashed>>

\* The deferred function: healthNotifiers.DeleteIfEqual.
DeleteIfEqual(k) ==
    /\ check[k].pc = "leave"
    /\ notifiers' = [a \in Addrs |-> IF a = AddrOf[k] /\ notifiers[a] = k
                                     THEN NoCheck ELSE notifiers[a]]
    /\ CheckGoes(k, "close")
    /\ UNCHANGED <<closed, monitor, hpa, events, newest, crashed>>

\* The deferred function: close(notifyHealthChan).  A sender that waits on the
\* channel panics.
CloseChannel(k) ==
    /\ check[k].pc = "close"
    /\ closed' = closed \cup {k}
    /\ crashed' = (crashed \/ (monitor.pc = "send" /\ monitor.to = k))
    /\ CheckGoes(k, "returned")
    /\ UNCHANGED <<notifiers, monitor, hpa, events, newest>>
-----------------------------------------------------------------------------
\* MonitorHealthChan receives a code and lists the addresses.
MonitorReceive ==
    /\ monitor.pc = "range" /\ hpa.pc = "post"
    /\ monitor' = [pc |-> "next", left |-> {a \in Addrs : notifiers[a] # NoCheck},
                   to |-> NoCheck]
    /\ hpa' = [pc |-> "watch", current |-> hpa.new, new |-> -1]
    /\ UNCHANGED <<notifiers, check, closed, events, newest, crashed>>

\* Slip: a client that has gone ends the round.
MonitorNextOrBreak ==
    /\ monitor.pc = "next"
    /\ \/ /\ monitor.left = {}
          /\ monitor' = [monitor EXCEPT !.pc = "range"]
       \/ \E a \in monitor.left :
            monitor' = IF notifiers[a] = NoCheck
                       THEN [pc |-> "range", left |-> {}, to |-> NoCheck]
                       ELSE [pc |-> "send", left |-> monitor.left \ {a}, to |-> notifiers[a]]
    /\ UNCHANGED <<notifiers, check, closed, hpa, events, newest, crashed>>

\* The next address: its channel, if it is still registered.
MonitorNext ==
    /\ monitor.pc = "next"
    /\ \/ /\ monitor.left = {}
          /\ monitor' = [monitor EXCEPT !.pc = "range"]
       \/ \E a \in monitor.left :
            monitor' = [pc |-> IF notifiers[a] = NoCheck THEN "next" ELSE "send",
                        left |-> monitor.left \ {a}, to |-> notifiers[a]]
    /\ UNCHANGED <<notifiers, check, closed, hpa, events, newest, crashed>>

\* notifier <- code: the Check receives it, or its channel is closed.
MonitorSend ==
    LET k == monitor.to
    IN  /\ monitor.pc = "send"
        /\ \/ /\ check[k].pc = "loop"
              /\ CheckGoes(k, "notify")
              /\ monitor' = [monitor EXCEPT !.pc = "next", !.to = NoCheck]
              /\ UNCHANGED crashed
           \/ /\ k \in closed
              /\ crashed' = TRUE
              /\ UNCHANGED <<check, monitor>>
        /\ UNCHANGED <<notifiers, closed, hpa, events, newest>>
-----------------------------------------------------------------------------
\* MonitorHPA: a Modified event of the own autoscaler.  A larger count is posted
\* before it is remembered; events of other kinds and names are passed over.
Modified(n) ==
    /\ hpa.pc = "watch" /\ events < MaxEvents
    /\ events' = events + 1
    /\ hpa' = IF hpa.current > 0 /\ n > hpa.current
              THEN [hpa EXCEPT !.pc = "post", !.new = n]
              ELSE [hpa EXCEPT !.current = n]
    /\ UNCHANGED <<notifiers, check, closed, monitor, newest, crashed>>

\* MonitorHPA returns: no namespace, no configuration, or no watcher.
WatchEnds ==
    /\ hpa.pc = "watch"
    /\ hpa' = [pc |-> "returned", current |-> -1, new |-> -1]
    /\ UNCHANGED <<notifiers, check, closed, monitor, events, newest, crashed>>

CheckStep(k) ==
    \/ SendInitial(k) \/ SendNotification(k) \/ LeaveLoop(k)
    \/ DeleteIfEqual(k) \/ CloseChannel(k)

MonitorStep == MonitorReceive \/ MonitorNext \/ MonitorSend

HealthNext ==
    /\ ~crashed
    /\ \/ \E k \in Checks : \/ RegisterCheck(k) \/ CheckStep(k) \/ ContextDone(k)
       \/ MonitorStep
       \/ \E n \in 0..MaxReplicas : Modified(n)
       \/ WatchEnds
-----------------------------------------------------------------------------
\* The newest Check of an address is registered as long as it runs: an older
\* one that leaves late never takes the registration with it (notifyHealth and
\* the deferred function of Check).
NewestReachable ==
    \A a \in Addrs : newest[a] # NoCheck /\ check[newest[a]].pc \in Running
                        => notifiers[a] = newest[a]

\* A registered channel is open, whatever the order in which Checks of one
\* address begin and end: who looks a channel up afresh can send on it.
RegisteredIsOpen == \A a \in Addrs : notifiers[a] \notin closed

\* A scale-up reaches every Check that is registered and stays: it is handed
\* GOAWAY, unless it leaves, is replaced or the process has crashed
\* (MonitorHPA, MonitorHealthChan).
GoAwayDelivered ==
    \A k \in Checks :
        (hpa.pc = "post" /\ check[k].pc = "loop" /\ notifiers[AddrOf[k]] = k)
            ~> (check[k].pc # "loop" \/ notifiers[AddrOf[k]] # k \/ crashed)

\* The table of Checks can be relied on: it has the newest Check of every address,
\* and channels that are open (Check, notifyHealth).
RegistrationSound == HealthTypeOK /\ NewestReachable /\ RegisteredIsOpen
=============================================================================
