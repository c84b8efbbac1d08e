------------------------------- MODULE Probe --------------------------------
(***************************************************************************)
(* The HTTP probe of a site (internal/collector/probe.go): up to           *)
(* probeAttempts requests, spaced out, under what is left of the context   *)
(* of the collection.  Nothing of it is shared before it returns, so it is *)
(* the set of the results it may return.                                   *)
(***************************************************************************)
EXTENDS Integers

CONSTANTS
    NoCert,         \* CertExpiry is the zero time
    Certs,          \* expiries a response may carry, NoCert over plain HTTP
    Budget,         \* what the context of collectOne gives, in units of 4 s
    Attempts, Spacing, Timeout      \* probeAttempts, probeSpacing, probeTimeout

\* What is left of the context after a request, which ends by itself, by the
\* client's timeout or by the context.
AfterMutNoTimeout(left) == 0..left

After(left) == (IF left > Timeout THEN left - Timeout ELSE 0)..left

\* A request is answered, as expected or not, while the context lasts; or it
\* fails.  Each outcome with the expiry known afterwards.
Answers(left, cert) ==
    IF left = 0 THEN {}
    ELSE {<<r[1], IF r[2] = NoCert THEN cert ELSE r[2]>>
            : r \in After(left) \X Certs}

Failures(left, cert) == Answers(left, cert) \cup (After(left) \X {cert})

\* The pause between two requests ends by itself, or with the time of the
\* context; Cancelled has the other end of a context.
Pause(left) == IF left >= Spacing THEN {left - Spacing} ELSE {}
Cut(left) == left <= Spacing

Result(up, i, left, cert) ==
    [up |-> up, attempts |-> i, left |-> left, certExpiry |-> cert]

\* Request i, by what is left and by the expiry known; next is the same for
\* the request after it.
Request(i, next) ==
    [left \in 0..Budget |-> [cert \in Certs \cup {NoCert} |->
        {Result(TRUE, i, a[1], a[2]) : a \in Answers(left, cert)}
        \cup UNION {
            IF i = Attempts THEN {Result(FALSE, i, f[1], f[2])}
            ELSE (UNION {next[l][f[2]] : l \in Pause(f[1])})
                 \cup (IF Cut(f[1]) THEN {Result(FALSE, i, 0, f[2])} ELSE {})
            : f \in Failures(left, cert)}]]

\* probeHTTP from request i on.
ProbeFrom[i \in 1..Attempts] ==
    Request(i, IF i = Attempts THEN NoCert ELSE ProbeFrom[i + 1])

\* The context of Run is cancelled (SIGTERM) during request i or the pause
\* after it: the request fails, and the pause ends, with time left.
Cancelled(left) ==
    UNION {{Result(FALSE, i, l, cert) : l \in 0..(left - (i - 1) * Spacing),
                                        cert \in Certs \cup {NoCert}}
            : i \in 1..Attempts}

\* parsed says that http_check can be parsed: NewRequestWithContext fails at
\* the first attempt when it cannot.
ProbeHTTP(left, stop, parsed) ==
    IF parsed
    THEN ProbeFrom[1][left][NoCert]
         \cup (IF stop THEN Cancelled(left) ELSE {})
    ELSE {Result(FALSE, 1, left, NoCert)}

\* What three full requests and their pauses take: 52 of the 60 seconds.
Room == Attempts * Timeout + (Attempts - 1) * Spacing

Spaced == (Attempts - 1) * Spacing
=============================================================================
