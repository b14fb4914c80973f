----------------------------- MODULE CertVerify -----------------------------
(***************************************************************************)
(* Net::SSL::Verification (src/net/ssl_verification.cc): the verify        *)
(* callback the TLS handshake invokes once per verification step of the    *)
(* peer's chain.  It counts its invocations in pos_, caches a successful   *)
(* fingerprint match in result_, compares the pinned SHA-1 fingerprint     *)
(* (upper-cased at construction) with the certificate of invocation 1,     *)
(* and otherwise defers to the default rfc2818 verifier.                   *)
(*                                                                         *)
(* The TLS library is the environment: it builds the chain (depth 0 is    *)
(* the leaf), invokes the callback for the depths of VerifyCalls, passes  *)
(* the PKI verdict so far as preverified, and aborts the handshake at the *)
(* first invocation that returns false.                                   *)
(***************************************************************************)
EXTENDS Naturals, Sequences, FiniteSets

CONSTANTS
  Certs,      \* certificates, identified by their SHA-1 digest
  MaxChain,   \* longest chain the peer presents
  NoPin       \* model value: no fingerprint configured

ASSUME MaxChain \in Nat \ {0}

(* A fingerprint as text: its digest and whether it is written in lower  *)
(* case; boost::algorithm::hex writes upper case.                        *)
Hex(cert) == [digest |-> cert, lower |-> FALSE]
Pins == {[digest |-> c, lower |-> l] : c \in Certs, l \in BOOLEAN}

(* boost::to_upper_copy in the constructor *)
ToUpper(fp) == [fp EXCEPT !.lower = FALSE]

(* asio::ssl::rfc2818_verification: the PKI verdict, and at depth 0 the *)
(* host name check as well.                                             *)
DefaultVerify(preverified, depth, hostOK) ==
  preverified /\ (depth > 0 \/ hostOK)

(* OpenSSL's X509_verify_cert: an optional early report at the top of   *)
(* the chain (untrusted or self-signed root), then internal_verify from *)
(* the top of the chain down to the leaf.                               *)
TopDown(n) == [i \in 1..n |-> n - i]
VerifyCalls(n) == {TopDown(n), <<n - 1>> \o TopDown(n)}

VARIABLES
  chain,     \* the chain: chain[d + 1] is the certificate at depth d
  pin,       \* the fingerprint option as the user wrote it, or NoPin
  hostOK,    \* the leaf names the host
  calls,     \* depths of the invocations still to come
  pos,       \* pos_
  result,    \* result_
  outcome,   \* "pending", "accepted" or "rejected"
  pkiOK      \* the default verifier accepts every invocation made so far

vars == <<chain, pin, hostOK, calls, pos, result, outcome, pkiOK>>

(* Variant: the option kept as written, without to_upper_copy. *)
FingerprintAsWritten == pin

(* Verification::Verification: fingerprint_ is the upper-cased option. *)
Fingerprint == IF pin = NoPin THEN NoPin ELSE ToUpper(pin)

(* Verification::operator(): the value returned for the certificate at *)
(* depth d, once pos_ has been incremented to p.                        *)
Verdict(p, d, preverified) ==
  IF result THEN TRUE
  ELSE IF Fingerprint # NoPin /\ p = 1 THEN Fingerprint = Hex(chain[d + 1])
  ELSE DefaultVerify(preverified, d, hostOK)

(* Variant: the default verifier's verdict cached in result_ too. *)
VerifyCachesDefault ==
  /\ outcome = "pending"
  /\ \E preverified \in BOOLEAN :
       LET d == Head(calls)
           r == Verdict(pos + 1, d, preverified)
       IN /\ pos' = pos + 1
          /\ result' = r
          /\ calls' = Tail(calls)
          /\ outcome' = CASE ~r -> "rejected"
                          [] Tail(calls) = <<>> -> "accepted"
                          [] OTHER -> "pending"
          /\ pkiOK' = (pkiOK /\ DefaultVerify(preverified, d, hostOK))
  /\ UNCHANGED <<chain, pin, hostOK>>

(* One invocation of the callback by the TLS library. *)
Verify ==
  /\ outcome = "pending"
  /\ \E preverified \in BOOLEAN :
       LET d == Head(calls)
           r == Verdict(pos + 1, d, preverified)
       IN /\ pos' = pos + 1
          /\ result' = IF ~result /\ Fingerprint # NoPin /\ pos + 1 = 1
                       THEN r ELSE result
          /\ calls' = Tail(calls)
          /\ outcome' = CASE ~r -> "rejected"
                          [] Tail(calls) = <<>> -> "accepted"
                          [] OTHER -> "pending"
          /\ pkiOK' = (pkiOK /\ DefaultVerify(preverified, d, hostOK))
  /\ UNCHANGED <<chain, pin, hostOK>>

Init ==
  /\ \E n \in 1..MaxChain : chain \in [1..n -> Certs] /\ calls \in VerifyCalls(n)
  /\ pin \in Pins \cup {NoPin}
  /\ hostOK \in BOOLEAN
  /\ pos = 0 /\ result = FALSE /\ outcome = "pending" /\ pkiOK = TRUE

Done == outcome # "pending" /\ UNCHANGED vars

Next == Verify \/ Done

Spec == Init /\ [][Next]_vars /\ WF_vars(Verify)

=============================================================================
