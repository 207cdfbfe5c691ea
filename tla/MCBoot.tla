------------------------------- MODULE MCBoot -------------------------------
(***************************************************************************)
(* Two processes: a control plane started with any of the environments     *)
(* below, and another of a newer version or an operator's ns seed admin.   *)
(***************************************************************************)
EXTENDS Boot, TLC

CONSTANTS p1, p2, v1, v2

Sound == [cmd |-> "controlplane", dsn |-> TRUE, chURL |-> TRUE, want |-> v1, host |-> "other",
          cert |-> TRUE, key |-> TRUE, autotls |-> FALSE, plaintext |-> FALSE, tlsMin |-> 0]

\* No certificate of one's own: the process listens in plaintext or makes one itself,
\* both only where asked to, the latter only on the loopback interface.
Bare == [Sound EXCEPT !.cert = FALSE, !.key = FALSE]
Plaintext == [Bare EXCEPT !.plaintext = TRUE]
SelfSigned(host) == [Bare EXCEPT !.autotls = TRUE, !.host = host]

MCEnvs ==
    (p1 :> {Sound, Plaintext, SelfSigned("empty"), [Plaintext EXCEPT !.cert = TRUE],
            [Sound EXCEPT !.dsn = FALSE], [Sound EXCEPT !.chURL = FALSE]})
 @@ (p2 :> {[SelfSigned("loopback") EXCEPT !.want = v2], [Sound EXCEPT !.cmd = "seed"]})
=============================================================================
