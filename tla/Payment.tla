------------------------------ MODULE Payment ------------------------------
(***************************************************************************)
(* src/payment/mod.rs: the PaymentInterceptor.  Handlers are registered, a *)
(* response is parsed, and handle_payment asks the handlers in order.  A   *)
(* handler's pay awaits, so asking and its answer are steps of their own.  *)
(***************************************************************************)
EXTENDS Naturals, Sequences

CONSTANTS
    Networks,       \* values of X-Payment-Network, "x402" and "l402" too
    Amounts,        \* values of X-Payment-Amount
    Currencies,     \* values of X-Payment-Currency
    Addresses,      \* values of X-Payment-Address
    MaxHeaders,     \* bound on the headers of a response
    MaxHandlers     \* bound on the registered handlers

None == "none"      \* Option::None; a header's value is Some

ASSUME PaymentAssumption ==
    /\ MaxHeaders \in Nat
    /\ None \notin Networks

VARIABLES
    handlers,       \* registered handlers, in order
    request,        \* the PaymentRequest, None before and for a status not 402
    paying,         \* progress of handle_payment
    at,             \* the handler its loop is at
    asked,          \* history: handlers whose pay was called
    outcome         \* what handle_payment returned

paymentVars == <<handlers, request, paying, at, asked, outcome>>

\* The repository's two handlers; "plugin" is some other implementation of
\* the trait, here one for l402, whose pay succeeds or fails.
Handlers == {"dummy", "x402", "plugin"}

\* A header by what parse_402 looks at: its name, lowered, and its value.
\* "x-402" is any name with that prefix.
Header ==
    [name : {"network"}, value : Networks] \cup
    [name : {"amount"}, value : Amounts] \cup
    [name : {"currency"}, value : Currencies] \cup
    [name : {"address"}, value : Addresses] \cup
    [name : {"x-402"}, value : {"other"}] \cup
    [name : {"www-authenticate"}, value : {"l402", "other"}]

Headers == UNION {[1..n -> Header] : n \in 0..MaxHeaders}

NoRequest ==
    [amount |-> None, currency |-> None, pay_to |-> None, network |-> None,
     headers |-> <<>>]

PaymentRequest ==
    [amount : Amounts \cup {None}, currency : Currencies \cup {None},
     pay_to : Addresses \cup {None},
     network : Networks \cup {"x402", "l402", None}, headers : Seq(Header)]

\* Types; no field of a request is filled from another field's header.
PaymentTypeOK ==
    /\ handlers \in Seq(Handlers)
    /\ request \in PaymentRequest
    /\ paying \in {"no", "loop", "pay", "done"}
    /\ at \in 1..(Len(handlers) + 1)
    /\ asked \in Seq(Handlers)
    /\ outcome \in {None, "proof", "failed", "unavailable"}

PaymentInit ==
    /\ handlers = <<>>
    /\ request = NoRequest
    /\ paying = "no"
    /\ at = 1
    /\ asked = <<>>
    /\ outcome = None

AddHandler(h) ==
    /\ paying = "no"
    /\ Len(handlers) < MaxHandlers
    /\ handlers' = Append(handlers, h)
    /\ UNCHANGED <<request, paying, at, asked, outcome>>

---------------------------------------------------------------------------

\* A mutation: a detected protocol replaces the network named before it.
DetectedAnyway(r, h) ==
    CASE h.name = "x-402" -> "x402"
      [] h.name = "www-authenticate" /\ h.value = "l402" -> "l402"
      [] OTHER -> r.network

\* The protocol seen in a header counts only while no network is known.
Detected(r, h) ==
    CASE r.network = None /\ h.name = "x-402" -> "x402"
      [] r.network = None /\ h.name = "www-authenticate" /\ h.value = "l402" -> "l402"
      [] OTHER -> r.network

\* The match of the loop: a later header replaces an earlier one.
Named(r, h) ==
    CASE h.name = "amount"   -> [r EXCEPT !.amount = h.value]
      [] h.name = "currency" -> [r EXCEPT !.currency = h.value]
      [] h.name = "address"  -> [r EXCEPT !.pay_to = h.value]
      [] h.name = "network"  -> [r EXCEPT !.network = h.value]
      [] OTHER -> r

\* One turn of the loop over the headers.
ReadHeader(r, h) ==
    LET n == Named(r, h) IN [n EXCEPT !.network = Detected(n, h)]

\* The request after n turns of the loop.
Parsed(hs) ==
    LET read[n \in 0..Len(hs)] ==
            IF n = 0 THEN [NoRequest EXCEPT !.headers = hs]
                     ELSE ReadHeader(read[n - 1], hs[n])
    IN  read[Len(hs)]

\* parse_402 of a response with status 402; of any other it returns None and
\* nothing follows.  The caller then calls handle_payment.
Parse402(hs) ==
    /\ paying = "no"
    /\ request' = Parsed(hs)
    /\ paying' = "loop"
    /\ UNCHANGED <<handlers, at, asked, outcome>>

---------------------------------------------------------------------------

\* The x402 handler also takes a request that names another network, when
\* some header has its prefix.
CanHandle(h, r) ==
    CASE h = "dummy" -> TRUE
      [] h = "x402" ->
            r.network = "x402" \/ \E i \in DOMAIN r.headers : r.headers[i].name = "x-402"
      [] h = "plugin" -> r.network = "l402"

\* The results pay may have: the dummy always succeeds, the stub always fails.
Results(h) ==
    CASE h = "dummy" -> {"proof"}
      [] h = "x402" -> {"failed"}
      [] h = "plugin" -> {"proof", "failed"}

SkipHandler ==
    /\ paying = "loop" /\ at <= Len(handlers)
    /\ ~CanHandle(handlers[at], request)
    /\ at' = at + 1
    /\ UNCHANGED <<handlers, request, paying, asked, outcome>>

AskHandler ==
    /\ paying = "loop" /\ at <= Len(handlers)
    /\ CanHandle(handlers[at], request)
    /\ paying' = "pay"
    /\ asked' = Append(asked, handlers[at])
    /\ UNCHANGED <<handlers, request, at, outcome>>

\* A mutation: the next handler is tried after one has failed.
AfterFailure(res) == IF res = "failed" THEN "loop" ELSE "done"

\* A proof is returned, and so is an error.
AfterPay(res) == "done"

PayReturns ==
    /\ paying = "pay"
    /\ \E res \in Results(handlers[at]) :
          /\ paying' = AfterPay(res)
          /\ outcome' = res
    /\ at' = at + 1
    /\ UNCHANGED <<handlers, request, asked>>

\* A mutation: the loop ends one handler early.
LoopOverEarly == at >= Len(handlers)

LoopOver == at > Len(handlers)

NoHandler ==
    /\ paying = "loop"
    /\ LoopOver
    /\ paying' = "done"
    /\ outcome' = "unavailable"
    /\ UNCHANGED <<handlers, request, at, asked>>

PaymentNext ==
    \/ \E h \in Handlers : AddHandler(h)
    \/ \E hs \in Headers : Parse402(hs)
    \/ SkipHandler \/ AskHandler \/ PayReturns \/ NoHandler

PaymentSpec == PaymentInit /\ [][PaymentNext]_paymentVars

---------------------------------------------------------------------------

At(hs, P(_)) == {i \in DOMAIN hs : P(hs[i])}

Tells(h) == h.name = "x-402" \/ (h.name = "www-authenticate" /\ h.value = "l402")

\* Wherever it stands among the headers, an explicit X-Payment-Network
\* decides (the last one); only without one does the first header that
\* gives a protocol away.
ExplicitNetworkWins ==
    LET hs == request.headers
        explicit == At(hs, LAMBDA h : h.name = "network")
        telling == At(hs, Tells)
    IN  paying # "no" =>
        IF explicit # {}
        THEN \E i \in explicit : /\ \A j \in explicit : j <= i
                                 /\ request.network = hs[i].value
        ELSE IF telling # {}
        THEN \E i \in telling :
                /\ \A j \in telling : j >= i
                /\ request.network = IF hs[i].name = "x-402" THEN "x402" ELSE "l402"
        ELSE request.network = None

\* One response costs one payment at most: after a handler was asked, whatever
\* it answered (a failed payment may still have moved money), no other is, and
\* handle_payment does not turn the answer into "no payment handler available".
PaidAtMostOnce ==
    /\ Len(asked) <= 1
    /\ outcome = "unavailable" => asked = <<>>

\* "uses the first one that returns true" (lines 164-165): handle_payment ends
\* without asking anybody only when no handler can, and the handler it asks is
\* the first in the order of registration that can.
FirstCapableAsked ==
    LET capable == At(handlers, LAMBDA h : CanHandle(h, request)) IN
    paying = "done" =>
        /\ asked = <<>> <=> capable = {}
        /\ \A i \in capable :
              (\A j \in capable : i <= j) => asked[1] = handlers[i]
===========================================================================
