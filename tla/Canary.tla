------------------------------- MODULE Canary -------------------------------
(***************************************************************************)
(* The canary runners (pkg/canary/http, tls, dns): the phases one          *)
(* execution of a test goes through on the network, and the result it      *)
(* makes of how far it got.                                                *)
(***************************************************************************)
EXTENDS Integers, Sequences, SequencesExt

Kinds   == {"dns", "http", "tls"}
Targets == {"ok", "empty", "unparsable", "hostless"}    \* what may be wrong with Test.Target

\* A plaintext or reused connection, which skips phases, is not told apart.
Phases == [dns  |-> <<"dns">>,
           tls  |-> <<"dns", "connect", "tls">>,
           http |-> <<"dns", "connect", "tls", "answer">>]
Phase == ToSet(Phases["http"])

Position(kind, phase) == CHOOSE i \in 1 .. Len(Phases[kind]) : Phases[kind][i] = phase
After(kind, phase)    == Phases[kind][Position(kind, phase) + 1]
UpTo(kind, phase)     == {Phases[kind][i] : i \in 1 .. Position(kind, phase)}

(***************************************************************************)
(* A result: its ErrorKind and the phases it has timings of; and, for the  *)
(* properties only, the phase that failed and what had become of the       *)
(* runner's context by then.                                               *)
(***************************************************************************)
Result(err, timed, failed, ctxErr) == [err |-> err, timed |-> timed, failed |-> failed, ctxErr |-> ctxErr]
NoResult == Result("", {}, "none", "none")

\* Run's first look at the target: an empty one, a URL that does not parse, or, for
\* splitHostPort, no host.
badTarget(kind, target) ==
    \/ target = "empty"
    \/ kind = "http" /\ target = "unparsable"
    \/ kind = "tls" /\ target = "hostless"

BadConfig == Result("bad_config", {}, "none", "none")

\* A URL without a host parses; the client then refuses to send the request.
unsendable(kind, target) == kind = "http" /\ target = "hostless"
Unsent == Result("connect", {}, "request", "none")

(***************************************************************************)
(* A failure: ctxErr, what the context's Err returns after it; timeout:    *)
(* the resolver says it timed out; handshake: the error's text has "tls"   *)
(* and "handshake" in it.                                                  *)
(***************************************************************************)
Failures(phase, ctxErr) ==
    {f \in [phase : {phase}, ctxErr : {ctxErr}, timeout : BOOLEAN, handshake : BOOLEAN] :
       (f.timeout => phase = "dns") /\ (f.handshake => phase = "tls")}

classifyDNSError(f) ==
    IF f.ctxErr = "deadline" \/ f.timeout THEN "timeout" ELSE "dns_resolve"

isTLSError(f) == f.handshake

\* A plausible mistake: the error is looked at before the deadline.
classifyHTTPError_Order(f) ==
    IF isTLSError(f) THEN "tls_handshake" ELSE IF f.ctxErr = "deadline" THEN "timeout" ELSE "connect"

\* There is no case for a failed lookup: it counts as a failure to connect.
classifyHTTPError(f) ==
    IF f.ctxErr = "deadline" THEN "timeout" ELSE IF isTLSError(f) THEN "tls_handshake" ELSE "connect"

classifyTLSError(f) ==
    IF f.ctxErr = "deadline" THEN "timeout"
    ELSE CASE f.phase = "tls" -> "tls_handshake" [] f.phase = "dns" -> "dns_resolve" [] OTHER -> "connect"

(***************************************************************************)
(* What a failure may leave timed: the phases before it and itself, save   *)
(* for the first byte of an answer that never came. When the context ends, *)
(* the http client returns while its dial goes on by itself: whether the   *)
(* hook at the end of the phase has run when the timings are read is a     *)
(* race. The tls and dns runners time each call themselves.                *)
(***************************************************************************)
Timings(kind, f) ==
    {UpTo(kind, f.phase) \ {"answer"}}
      \cup (IF kind = "http" /\ f.ctxErr # "none" THEN {UpTo(kind, f.phase) \ {"answer", f.phase}} ELSE {})

Failed(kind, f, timed) ==
    Result(CASE kind = "dns" -> classifyDNSError(f) [] kind = "http" -> classifyHTTPError(f)
             [] kind = "tls" -> classifyTLSError(f),
           timed, f.phase, f.ctxErr)

\* expected: Config.ExpectedStatus as nothing, one number, or the two ends of a range.
statusInRange(status, expected) ==
    CASE expected = <<>>   -> status >= 200 /\ status < 300
      [] Len(expected) = 1 -> status = expected[1]
      [] OTHER             -> expected[1] > 0 /\ expected[2] > 0 /\ status \in expected[1] .. expected[2]

\* Every phase went well; what is left to go wrong is the status of the answer. The agent
\* gives its tests no Config, so any 2xx is expected.
Statuses(kind) == IF kind = "http" THEN {200, 301, 503} ELSE {200}
Completed(kind, status) ==
    Result(IF statusInRange(status, <<>>) THEN "" ELSE "http_status", ToSet(Phases[kind]),
           IF statusInRange(status, <<>>) THEN "none" ELSE "status", "none")
=============================================================================
