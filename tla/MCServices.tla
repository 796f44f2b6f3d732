----------------------------- MODULE MCServices -----------------------------
(***************************************************************************)
(* The parts of the server around its sessions and streams: rate limiter,  *)
(* provider registry, health stream, process statistics, start and stop,   *)
(* bodies of stream messages, source statistics, the declarations of a     *)
(* session and the end of a subscription.  They share no state,            *)
(* so every behaviour of all of them is an interleaving of one behaviour   *)
(* of each, and a property of one part is decided by that part alone: a    *)
(* behaviour of this module runs one of the parts and leaves the others in *)
(* their initial state.                                                    *)
(***************************************************************************)
EXTENDS RateLimiter, ProviderRegistry, HealthService, ProcessStats,
        ServerLifecycle, StreamBody, SourceStats, Declarations, Subscription

CONSTANTS
    Parts,        \* the parts that an instance runs
    r1, r2, k1, k2, k3, a1, a2, d1, d2

VARIABLE part

vars == <<part, limiterVars, registryVars, healthVars, statsVars, lifecycleVars,
          bodyVars, sourceVars, declVars, subscriptionVars>>

\* One goroutine serves the first client, the other both.
FirstOrBoth ==
    [r \in {r1, r2} |-> {<<"c1", "Connect">>} \cup
        IF r = r1 THEN {} ELSE {<<"c2", "Connect">>, <<"c1", "PublishOne">>}]

\* Two Checks of one client and one of another.
TwoOfOne == [k \in {k1, k2, k3} |-> IF k = k3 THEN a2 ELSE a1]

\* Of a subscriber and the set-up of a dead-letter queue on the same address: the
\* subscriber has two subjects, the set-up one of them.
OneShared == [d \in {d1, d2} |-> IF d = d1 THEN {"created", "changed"} ELSE {"changed"}]

Init ==
    /\ part \in Parts
    /\ RateLimiterInit /\ RegistryInit /\ HealthInit /\ StatsInit /\ LifecycleInit
    /\ BodyInit /\ SourceInit /\ DeclInit /\ SubscriptionInit
    /\ part # "limiter" => limited /\ enforced
    /\ part # "declarations" => autoDelete

\* A step of the part p, the only one that changes its variables.
StepOf(p, step) ==
    /\ part = p /\ step /\ UNCHANGED part
    /\ IF p = "limiter" THEN TRUE ELSE UNCHANGED limiterVars
    /\ IF p = "registry" THEN TRUE ELSE UNCHANGED registryVars
    /\ IF p = "health" THEN TRUE ELSE UNCHANGED healthVars
    /\ IF p = "stats" THEN TRUE ELSE UNCHANGED statsVars
    /\ IF p = "lifecycle" THEN TRUE ELSE UNCHANGED lifecycleVars
    /\ IF p = "body" THEN TRUE ELSE UNCHANGED bodyVars
    /\ IF p = "sources" THEN TRUE ELSE UNCHANGED sourceVars
    /\ IF p = "declarations" THEN TRUE ELSE UNCHANGED declVars
    /\ IF p = "subscription" THEN TRUE ELSE UNCHANGED subscriptionVars

Next ==
    \/ StepOf("limiter", RateLimiterNext)
    \/ StepOf("registry", RegistryNext)
    \/ StepOf("health", HealthNext)
    \/ StepOf("stats", StatsNext)
    \/ StepOf("lifecycle", LifecycleNext)
    \/ StepOf("body", BodyNext)
    \/ StepOf("sources", SourceNext)
    \/ StepOf("declarations", DeclNext)
    \/ StepOf("subscription", SubscriptionNext)

Spec == Init /\ [][Next]_vars

(***************************************************************************)
(* The goroutines of the health stream run; Serve, its signal goroutine    *)
(* and the multiplexer run once they can.  No client, event or signal is   *)
(* obliged to come, and the multiplexer need not fail.  The goroutines of  *)
(* a subscription run when they can.  Its select does not take messages    *)
(* for ever while another of its cases is ready, because Go chooses among  *)
(* them at random; and Consume closes messageChannel after its context is  *)
(* done.  No client is obliged to take its messages.                       *)
(***************************************************************************)
FairSpec ==
    /\ Spec
    /\ WF_healthVars(part = "health" /\ ~crashed /\ MonitorStep)
    /\ \A k \in Checks : WF_healthVars(part = "health" /\ ~crashed /\ CheckStep(k))
    /\ WF_lifecycleVars(part = "lifecycle" /\ (Listen \/ StopOnSignal \/ Select \/ Exit))
    /\ WF_lifecycleVars(part = "lifecycle" /\ listener = "closed" /\ MuxReturns)
    /\ WF_subscriptionVars(part = "subscription" /\ SubscriberStep)
    /\ SF_subscriptionVars(part = "subscription" /\ (ContextEnded \/ ChannelNotice \/ ConnectionNotice))
    /\ WF_subscriptionVars(part = "subscription" /\ ConnectionNotifies)
    /\ WF_subscriptionVars(part = "subscription" /\ ChannelNotifies)
    /\ WF_subscriptionVars(part = "subscription" /\ TimerNotifies)
    /\ WF_subscriptionVars(part = "subscription" /\ MailboxCloses)
=============================================================================
