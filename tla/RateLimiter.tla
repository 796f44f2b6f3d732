----------------------------- MODULE RateLimiter -----------------------------
(***************************************************************************)
(* The rate limiter (internal/server/ratelimiter/ratelimiter.go), the      *)
(* gRPC interceptor that calls it (pkg/arke/arke.go) and the table of      *)
(* client identifiers (internal/util/util.go).                             *)
(*                                                                         *)
(* Limit looks a limiter up, creates it, adds it, stamps it and takes a    *)
(* token in separate steps, while other requests of the same client do the *)
(* same and the culling goroutine removes limiters it found stale.  Time   *)
(* advances in ticks, and every tick puts a token back in every bucket.    *)
(* Of the handlers behind the interceptor only brokerConnect matters here: *)
(* it gives the client its identifier.                                     *)
(***************************************************************************)
EXTENDS Integers, Sequences, FiniteSets

CONSTANTS
    Requests,     \* request goroutines of the gRPC server
    Clients,      \* client addresses
    CallsOf,      \* the requests a goroutine serves: client and method
    Anonymous,    \* the empty identifier, key of a client that has none
    BucketSize,   \* clm.bucketSize
    MaxAge,       \* clm.maxAgeStaleClients in ticks; 0: a tick is longer
    MaxCalls,     \* bound: requests that arrive
    MaxTicks      \* bound: ticks of the clock

\* Methods of the gRPC services: one that is limited, one that is not.
Methods == {"Connect", "PublishOne"}

ASSUME RateLimiterAssumption ==
    /\ Clients # {} /\ Anonymous \notin Clients
    /\ CallsOf \in [Requests -> SUBSET (Clients \X Methods)]
    /\ BucketSize \in Nat \ {0} /\ MaxAge \in Nat
    /\ MaxCalls \in Nat \ {0} /\ MaxTicks \in Nat

VARIABLES
    limited,     \* a.ratelimiter is set: the interceptor is in the chain
    enforced,    \* clm.enforced
    identified,  \* clientMap: the clients that have an identifier
    clients,     \* clm.clients: key to limiter, 0 when there is none
    tokens,      \* tokens left in each limiter
    age,         \* ticks since lastConnectionTime of each limiter
    request,     \* a request: program point, client, key, limiter, method
    cull,        \* the culling goroutine: program point, keys left, key
    ticks,       \* ticks that have passed
    calls,       \* requests that have arrived
    passed,      \* history: tokens taken by the requests of each client
    renewed      \* history: keys whose limiter was replaced or removed

limiterVars == <<limited, enforced, identified, clients, tokens, age, request,
                 cull, ticks, calls, passed, renewed>>

Keys == Clients \cup {Anonymous}
Limiters == 1..MaxCalls

\* The methods the interceptors limit; PublishOne is not among them.
LimitMethods == {"Connect", "Publish", "Consume"}

RequestPCs == {"idle", "lookup", "add", "stamp", "allow",
               "admitted", "refused"}

RateLimiterTypeOK ==
    /\ limited \in BOOLEAN /\ enforced \in BOOLEAN
    /\ identified \subseteq Clients
    /\ clients \in [Keys -> Limiters \cup {0}]
    /\ DOMAIN tokens \subseteq Limiters /\ DOMAIN age = DOMAIN tokens
    /\ \A l \in DOMAIN tokens : tokens[l] \in 0..BucketSize /\ age[l] \in 0..(MaxAge + 1)
    /\ request \in [Requests -> [pc : RequestPCs, client : Clients, key : Keys,
                                 lim : Limiters \cup {0}, method : Methods]]
    /\ cull \in [pc : {"wait", "next", "delete"}, left : SUBSET Keys, key : Keys,
                waited : 0..MaxAge]
    /\ ticks \in 0..MaxTicks /\ calls \in 0..MaxCalls
    /\ passed \in [Clients -> 0..MaxCalls]
    /\ renewed \subseteq Keys

\* What an environment variable can hold: not a number, zero, or a number.
Settings == [bucketSize : {"text", "zero", "number"},
             refill : {"text", "zero", "number"},
             maxAge : {"text", "zero", "number"}]

\* GetRateLimitParameters: every value must parse.
GetRateLimitParameters(s) == \A f \in DOMAIN s : s[f] # "text"

\* WithRateLimit and NewClientLimitManager: no limiter without parameters, and
\* none when one of them is not positive; arke then serves without a limit.
WithRateLimit(s) == GetRateLimitParameters(s) /\ \A f \in DOMAIN s : s[f] # "zero"

\* A goroutine between two requests.
NoRequest == [pc |-> "idle", client |-> CHOOSE c \in Clients : TRUE,
              key |-> Anonymous, lim |-> 0, method |-> "Connect"]

RateLimiterInit ==
    /\ limited \in {WithRateLimit(s) : s \in Settings}
    /\ enforced \in BOOLEAN
    /\ identified = {}
    /\ clients = [k \in Keys |-> 0]
    /\ tokens = << >> /\ age = << >>
    /\ request = [r \in Requests |-> NoRequest]
    /\ cull = [pc |-> "wait", left |-> {}, key |-> Anonymous, waited |-> 0]
    /\ ticks = 0 /\ calls = 0
    /\ passed = [c \in Clients |-> 0]
    /\ renewed = {}

RequestGoes(r, point) == request' = [request EXCEPT ![r].pc = point]
-----------------------------------------------------------------------------
\* Where a request of client c goes.  The selector passes only limited methods
\* to Limit.  Without an identifier an enforcing limiter lets the request
\* through; one that only warns counts it under the empty key.
Entry(c, m) ==
    IF limited /\ m \in LimitMethods /\ (c \in identified \/ ~enforced)
    THEN "lookup" ELSE "admitted"

\* A request arrives, and GetClientIdentifier looks its client up.
Arrive(r) ==
    /\ request[r].pc = "idle" /\ calls < MaxCalls
    /\ calls' = calls + 1
    /\ \E c \in Clients, m \in Methods :
        /\ <<c, m>> \in CallsOf[r]
        /\ request' = [request EXCEPT ![r] =
                [pc |-> Entry(c, m), client |-> c,
                 key |-> IF c \in identified THEN c ELSE Anonymous,
                 lim |-> 0, method |-> m]]
    /\ UNCHANGED <<limited, enforced, identified, clients, tokens, age, cull,
                   ticks, passed, renewed>>

\* clm.clients.Get, and a new limiter with a full bucket when there is none.
LookupLimiter(r) ==
    LET l == clients[request[r].key]
        fresh == Cardinality(DOMAIN tokens) + 1
    IN  /\ request[r].pc = "lookup"
        /\ IF l # 0
           THEN /\ request' = [request EXCEPT ![r].lim = l, ![r].pc = "stamp"]
                /\ UNCHANGED <<tokens, age>>
           ELSE /\ request' = [request EXCEPT ![r].lim = fresh, ![r].pc = "add"]
                /\ tokens' = Append(tokens, BucketSize)
                /\ age' = Append(age, MaxAge + 1)    \* the zero time
        /\ UNCHANGED <<limited, enforced, identified, clients, cull, ticks,
                       calls, passed, renewed>>

\* Slip: the new limiter is not stored.
AddForgotten(r) ==
    /\ request[r].pc = "add"
    /\ RequestGoes(r, "stamp")
    /\ UNCHANGED <<limited, enforced, identified, clients, tokens, age, cull,
                   ticks, calls, passed, renewed>>

\* clm.clients.Add replaces what another request of the client added meanwhile.
AddLimiter(r) ==
    /\ request[r].pc = "add"
    /\ clients' = [clients EXCEPT ![request[r].key] = request[r].lim]
    /\ renewed' = IF clients[request[r].key] # 0
                  THEN renewed \cup {request[r].key} ELSE renewed
    /\ RequestGoes(r, "stamp")
    /\ UNCHANGED <<limited, enforced, identified, tokens, age, cull, ticks,
                   calls, passed>>

\* c.lastConnectionTime = time.Now()
StampLimiter(r) ==
    /\ request[r].pc = "stamp"
    /\ age' = [age EXCEPT ![request[r].lim] = 0]
    /\ RequestGoes(r, "allow")
    /\ UNCHANGED <<limited, enforced, identified, clients, tokens, cull,
                   ticks, calls, passed, renewed>>

\* c.limiter.Allow(): a token is taken, or the request is refused if the limit
\* is enforced and passes with a warning if it is not.
Allow(r) ==
    LET l == request[r].lim
    IN  /\ request[r].pc = "allow"
        /\ IF tokens[l] > 0
           THEN /\ tokens' = [tokens EXCEPT ![l] = @ - 1]
                /\ passed' = [passed EXCEPT ![request[r].client] = @ + 1]
                /\ RequestGoes(r, "admitted")
           ELSE /\ RequestGoes(r, IF enforced THEN "refused" ELSE "admitted")
                /\ UNCHANGED <<tokens, passed>>
        /\ UNCHANGED <<limited, enforced, identified, clients, age, cull,
                       ticks, calls, renewed>>

\* The handler runs, brokerConnect with SetClientIdentifier, or the interceptor
\* has answered ErrTooManyRequests; the goroutine takes the next request.
RequestDone(r) ==
    /\ request[r].pc \in {"admitted", "refused"}
    /\ identified' = IF request[r].pc = "admitted" /\ request[r].method = "Connect"
                     THEN identified \cup {request[r].client} ELSE identified
    /\ request' = [request EXCEPT ![r] = NoRequest]
    /\ UNCHANGED <<limited, enforced, clients, tokens, age, cull, ticks, calls,
                   passed, renewed>>
-----------------------------------------------------------------------------
\* StartClientCull: maxAgeStaleClients has passed since the last round; the keys
\* are listed.  The last tick of the model stands for all later ones.
CullBegin ==
    /\ limited /\ cull.pc = "wait"
    /\ cull.waited >= MaxAge \/ ticks = MaxTicks
    /\ cull' = [cull EXCEPT !.left = {k \in Keys : clients[k] # 0}, !.pc = "next",
                              !.waited = 0]
    /\ UNCHANGED <<limited, enforced, identified, clients, tokens, age, request,
                   ticks, calls, passed, renewed>>

\* The limiter of the next key, if it is still there, and its age
\* (whole seconds in the code); or the end of the list.
CullGet ==
    /\ cull.pc = "next"
    /\ \/ cull.left = {} /\ cull' = [cull EXCEPT !.pc = "wait"]
       \/ \E k \in cull.left :
            cull' = IF clients[k] # 0 /\ age[clients[k]] > MaxAge
                    THEN [cull EXCEPT !.pc = "delete", !.left = @ \ {k}, !.key = k]
                    ELSE [cull EXCEPT !.left = @ \ {k}]
    /\ UNCHANGED <<limited, enforced, identified, clients, tokens, age, request,
                   ticks, calls, passed, renewed>>

\* clm.clients.Delete removes whatever the key has by now.
CullDelete ==
    /\ cull.pc = "delete"
    /\ clients' = [clients EXCEPT ![cull.key] = 0]
    /\ renewed' = renewed \cup {cull.key}
    /\ cull' = [cull EXCEPT !.pc = "next", !.key = Anonymous]
    /\ UNCHANGED <<limited, enforced, identified, tokens, age, request, ticks,
                   calls, passed>>

\* A tick passes: limiters age and get a token back (golang.org/x/time/rate).
TickPasses ==
    /\ ticks < MaxTicks
    /\ ticks' = ticks + 1
    /\ age' = [l \in DOMAIN age |-> IF age[l] > MaxAge THEN age[l] ELSE age[l] + 1]
    /\ tokens' = [l \in DOMAIN tokens |->
                     IF tokens[l] < BucketSize THEN tokens[l] + 1 ELSE tokens[l]]
    /\ cull' = [cull EXCEPT !.waited = IF cull.pc = "wait" /\ @ < MaxAge THEN @ + 1 ELSE @]
    /\ UNCHANGED <<limited, enforced, identified, clients, request, calls, passed,
                   renewed>>

LimitStep(r) ==
    \/ LookupLimiter(r) \/ AddLimiter(r) \/ StampLimiter(r) \/ Allow(r)
    \/ RequestDone(r)

CullStep == CullBegin \/ CullGet \/ CullDelete

RateLimiterNext ==
    \/ \E r \in Requests : Arrive(r) \/ LimitStep(r)
    \/ CullStep
    \/ TickPasses
-----------------------------------------------------------------------------
\* A request is refused only when its own client has used up a bucket: requests
\* of other clients, with or without an identifier, never count against it
\* (Limit).
RefusedHadItsShare ==
    \A r \in Requests :
        request[r].pc = "refused" => passed[request[r].client] >= BucketSize

\* A client has one bucket: unless its first requests overlapped or its limiter
\* was culled, the tokens it has been given are its bucket and what the ticks
\* since put back, however many goroutines serve it (Limit, cullStaleClients).
OneBucket ==
    \A c \in Clients :
        enforced /\ c \notin renewed => passed[c] <= BucketSize + ticks

\* Every client has a bucket of its own: nobody is refused for what others did, and
\* nobody gets more than its bucket holds (Limit, cullStaleClients).
OwnBucket == RateLimiterTypeOK /\ RefusedHadItsShare /\ OneBucket
=============================================================================
