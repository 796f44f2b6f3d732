--------------------------- MODULE ServerLifecycle ---------------------------
(***************************************************************************)
(* The start and the end of the process: Serve (pkg/arke/arke.go) with its *)
(* signal goroutine, the goroutine that runs the connection multiplexer,   *)
(* and run and checkErr (cmd/serve.go), which turn the result into the     *)
(* exit of the process.                                                    *)
(*                                                                         *)
(* serveErrChan is unbuffered and Serve receives from it at most once, so  *)
(* what the multiplexer's goroutine sends later has no receiver.           *)
(***************************************************************************)
EXTENDS Naturals

VARIABLES
    serve,      \* Serve and its caller: program point
    result,     \* what Serve returns: "none" yet, "nil", a *net.OpError, another error
    mux,        \* the goroutine of a.mux.Serve: program point
    listener,   \* the root listener: "none", "tls", "plain", "closed"
    muxClosed,  \* a.mux.Close was called
    ctxDone,    \* the context given to Serve is done
    signalled   \* an interrupt is in the signal channel

lifecycleVars == <<serve, result, mux, listener, muxClosed, ctxDone, signalled>>

Results == {"none", "nil", "OpError", "error"}

LifecycleTypeOK ==
    /\ serve \in {"listen", "select", "returned", "exit", "fatal"}
    /\ result \in Results
    /\ mux \in {"none", "accept", "sendNil", "sendError", "done"}
    /\ listener \in {"none", "tls", "plain", "closed"}
    /\ muxClosed \in BOOLEAN /\ ctxDone \in BOOLEAN /\ signalled \in BOOLEAN

LifecycleInit ==
    /\ serve = "listen" /\ result = "none" /\ mux = "none"
    /\ listener = "none" /\ muxClosed = FALSE
    /\ ctxDone = FALSE /\ signalled = FALSE
-----------------------------------------------------------------------------
\* listener and tlsConfig: the port, then the certificate if one is set.  When it
\* cannot be loaded the plain listener is used.
Listen ==
    /\ serve = "listen"
    /\ \/ /\ listener' \in {"tls", "plain"}
          /\ serve' = "select" /\ mux' = "accept"
          /\ UNCHANGED result
       \/ /\ result' \in {"OpError", "error"}
          /\ serve' = "returned"
          /\ UNCHANGED <<listener, mux>>
    /\ UNCHANGED <<muxClosed, ctxDone, signalled>>

\* The context of the caller ends, or an interrupt arrives.
ContextEnds ==
    /\ ~ctxDone
    /\ ctxDone' = TRUE
    /\ UNCHANGED <<serve, result, mux, listener, muxClosed, signalled>>

Interrupt ==
    /\ ~signalled
    /\ signalled' = TRUE
    /\ UNCHANGED <<serve, result, mux, listener, muxClosed, ctxDone>>

\* The signal goroutine: a.server.Stop closes the gRPC server's listener, which
\* is the root listener of the multiplexer.
StopOnSignal ==
    /\ signalled /\ listener \in {"tls", "plain"}
    /\ listener' = "closed"
    /\ UNCHANGED <<serve, result, mux, muxClosed, ctxDone, signalled>>

\* a.mux.Serve returns: a *net.OpError from a closed listener becomes nil, an
\* error of the multiplexer itself is passed on.
MuxReturns ==
    /\ mux = "accept"
    /\ mux' = IF listener = "closed" THEN "sendNil" ELSE "sendError"
    /\ UNCHANGED <<serve, result, listener, muxClosed, ctxDone, signalled>>

\* Slip: the context is only looked at before the select.
SelectErrorOnly ==
    /\ serve = "select" /\ mux \in {"sendNil", "sendError"}
    /\ result' = IF mux = "sendError" THEN "error" ELSE "nil"
    /\ mux' = IF mux = "sendError" THEN "sendNil" ELSE "done"
    /\ serve' = "returned"
    /\ UNCHANGED <<listener, muxClosed, ctxDone, signalled>>

\* The select of Serve: the context, or the multiplexer's result.  After an
\* error the goroutine sends a second time, and nobody receives.
Select ==
    /\ serve = "select"
    /\ \/ /\ ctxDone
          /\ muxClosed' = TRUE
          /\ result' = "nil"
          /\ UNCHANGED mux
       \/ /\ mux \in {"sendNil", "sendError"}
          /\ result' = IF mux = "sendError" THEN "error" ELSE "nil"
          /\ mux' = IF mux = "sendError" THEN "sendNil" ELSE "done"
          /\ UNCHANGED muxClosed
    /\ serve' = "returned"
    /\ UNCHANGED <<listener, ctxDone, signalled>>

\* run and checkErr: everything but nil and a *net.OpError is fatal.
Exit ==
    /\ serve = "returned"
    /\ serve' = IF result = "error" THEN "fatal" ELSE "exit"
    /\ UNCHANGED <<result, mux, listener, muxClosed, ctxDone, signalled>>

LifecycleNext ==
    \/ Listen \/ ContextEnds \/ Interrupt \/ StopOnSignal \/ MuxReturns
    \/ Select \/ Exit
-----------------------------------------------------------------------------
\* Serve ends: after an interrupt or the end of the context the process exits.
ServeEnds == (ctxDone \/ signalled) ~> (serve \in {"exit", "fatal"})
=============================================================================
