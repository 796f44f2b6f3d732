-------------------------- MODULE ProviderRegistry --------------------------
(***************************************************************************)
(* The registry of providers (internal/provider/provider.go): factories    *)
(* registered by name when the process starts, and the provider of a name, *)
(* created by the first GetProvider that does not find it.                 *)
(*                                                                         *)
(* GetProvider looks up, creates, adds and looks up again without a lock   *)
(* around the four; the providerOnce of NewProvider is a local of the      *)
(* call, so it excludes nobody.  A provider is a number; the session of a  *)
(* client lives in the provider its Connect was given (brokerConnect), and *)
(* its later requests ask the registry again, for the name that            *)
(* connectionMap has for the client (findProvider).                        *)
(***************************************************************************)
EXTENDS Integers, FiniteSets

CONSTANTS
    Calls,         \* clients, each with one request at a time
    Names,         \* provider names a configuration may carry
    Linked,        \* the names whose connector is linked into the program
    MaxProviders   \* bound: providers created

ASSUME RegistryAssumption ==
    Names # {} /\ Linked \subseteq Names /\ MaxProviders \in Nat \ {0}

VARIABLES
    factories,   \* registeredProviderTypes
    registered,  \* registeredProviders: name to provider, 0 when there is none
    created,     \* how many providers exist
    call,        \* a call of GetProvider: program point, name, provider
    home,        \* a client's session: the name it connected with, its provider or 0
    overlapped,  \* history: names created by two calls at the same time
    missed       \* history: clients whose request met another provider than home

registryVars == <<factories, registered, created, call, home, overlapped, missed>>

CallPCs == {"idle", "new", "add", "fetch", "found", "error", "panic"}

RegistryTypeOK ==
    /\ factories \subseteq Linked
    /\ registered \in [Names -> 0..MaxProviders]
    /\ created \in 0..MaxProviders
    /\ call \in [Calls -> [pc : CallPCs, name : Names, prov : 0..MaxProviders]]
    /\ home \in [Calls -> [name : Names, prov : 0..MaxProviders]]
    /\ overlapped \subseteq Names /\ missed \subseteq Calls

AnyName == CHOOSE n \in Names : TRUE

\* A goroutine outside GetProvider, and a client without a session.
NoCall == [pc |-> "idle", name |-> AnyName, prov |-> 0]
NoSession == [name |-> AnyName, prov |-> 0]

RegistryInit ==
    /\ factories = {}
    /\ registered = [n \in Names |-> 0]
    /\ created = 0
    /\ call = [g \in Calls |-> NoCall]
    /\ home = [g \in Calls |-> NoSession]
    /\ overlapped = {} /\ missed = {}
-----------------------------------------------------------------------------
\* Register, from the init function of a connector, before anything is served.
\* A second factory of a name is ignored.
Register(n) ==
    /\ n \in Linked \ factories
    /\ factories' = factories \cup {n}
    /\ UNCHANGED <<registered, created, call, home, overlapped, missed>>

\* Slip: the registry is not consulted first.
GetAlwaysCreates(g, n) ==
    /\ factories = Linked /\ call[g].pc = "idle" /\ (home[g].prov # 0 => n = home[g].name)
    /\ call' = [call EXCEPT ![g] = [pc |-> "new", name |-> n, prov |-> 0]]
    /\ UNCHANGED <<factories, registered, created, home, overlapped, missed>>

\* GetProvider for brokerConnect, or for findProvider when the client has a
\* session (then with the name it connected with): the first lookup.
GetProvider(g, n) ==
    LET creating == {h \in Calls : call[h].name = n /\ call[h].pc \in {"new", "add"}}
    IN  /\ factories = Linked /\ call[g].pc = "idle" /\ (home[g].prov # 0 => n = home[g].name)
        /\ IF registered[n] # 0
           THEN /\ call' = [call EXCEPT ![g] = [pc |-> "fetch", name |-> n, prov |-> 0]]
                /\ UNCHANGED overlapped
           ELSE /\ call' = [call EXCEPT ![g] = [pc |-> "new", name |-> n, prov |-> 0]]
                /\ overlapped' = IF creating = {} THEN overlapped ELSE overlapped \cup {n}
        /\ UNCHANGED <<factories, registered, created, home, missed>>

\* NewProvider: an unknown name is an error, a known one gives a new provider.
NewProvider(g) ==
    /\ call[g].pc = "new"
    /\ IF call[g].name \notin factories
       THEN call' = [call EXCEPT ![g].pc = "error"] /\ UNCHANGED created
       ELSE /\ created < MaxProviders
            /\ created' = created + 1
            /\ call' = [call EXCEPT ![g].prov = created + 1, ![g].pc = "add"]
    /\ UNCHANGED <<factories, registered, home, overlapped, missed>>

\* registeredProviders.Add replaces what another call added meanwhile.
AddProvider(g) ==
    /\ call[g].pc = "add"
    /\ registered' = [registered EXCEPT ![call[g].name] = call[g].prov]
    /\ call' = [call EXCEPT ![g].pc = "fetch"]
    /\ UNCHANGED <<factories, created, home, overlapped, missed>>

\* The second Get; the type assertion on a missing entry panics.
FetchProvider(g) ==
    LET p == registered[call[g].name]
    IN  /\ call[g].pc = "fetch"
        /\ call' = [call EXCEPT ![g].prov = p,
                                ![g].pc = IF p = 0 THEN "panic" ELSE "found"]
        /\ UNCHANGED <<factories, registered, created, home, overlapped, missed>>

\* The caller goes on: an unknown provider is reported; the first Connect opens
\* the session in the provider it got; a later request looks for the session
\* there.
UseProvider(g) ==
    /\ call[g].pc \in {"found", "error"}
    /\ call' = [call EXCEPT ![g] = NoCall]
    /\ IF call[g].pc = "error" THEN UNCHANGED <<home, missed>>
       ELSE /\ home' = [home EXCEPT ![g] =
                           IF @.prov = 0 THEN [name |-> call[g].name, prov |-> call[g].prov]
                           ELSE @]
            /\ missed' = IF home[g].prov \in {0, call[g].prov} THEN missed
                         ELSE missed \cup {g}
    /\ UNCHANGED <<factories, registered, created, overlapped>>

RegistryNext ==
    \/ \E n \in Names : Register(n)
    \/ \E g \in Calls : \/ \E n \in Names : GetProvider(g, n)
                         \/ NewProvider(g) \/ AddProvider(g) \/ FetchProvider(g)
                         \/ UseProvider(g)
-----------------------------------------------------------------------------
\* GetProvider never reaches its type assertion without a provider, in whatever
\* order first calls overlap: the loser of the race still finds the winner's.
ProviderNeverNil == \A g \in Calls : call[g].pc # "panic"

\* A session can be used: unless two first Connects created the provider at the
\* same time, every later request of a client is served by the provider that
\* holds its session (GetProvider, findProvider).
SessionReachable == overlapped = {} => missed = {}

\* What GetProvider returns can be used: a provider, and the one with the client's
\* session (GetProvider, NewProvider, findProvider).
ProviderUsable == RegistryTypeOK /\ ProviderNeverNil /\ SessionReachable
=============================================================================
