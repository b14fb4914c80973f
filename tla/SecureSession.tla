--------------------------- MODULE SecureSession ---------------------------
(***************************************************************************)
(* The session of Session.tla with its TLS handshake made by the verify   *)
(* callback of CertVerify.tla: while async_handshake is pending, OpenSSL  *)
(* invokes Net::SSL::Verification for the peer's chain, and the handshake *)
(* handler of do_handshake (src/unnamed/part_000) completes with success  *)
(* only when every invocation returned true.  Only then does the session  *)
(* enter ESTABLISHED and, after the greeting, send LOGIN with the user's  *)
(* password.                                                              *)
(***************************************************************************)
EXTENDS Session

CONSTANTS Certs, MaxChain, NoPin

VARIABLES chain, pin, hostOK, calls, pos, result, outcome, pkiOK

certVars == <<chain, pin, hostOK, calls, pos, result, outcome, pkiOK>>

Cert == INSTANCE CertVerify

Handshaking == cl.conn = "handshaking"

(* OpenSSL runs the verify callback inside the pending async_handshake. *)
TLSVerify ==
  /\ Alive /\ Handshaking
  /\ Cert!Verify
  /\ UNCHANGED vars

(* The handshake handler runs once verification has decided; a success  *)
(* requires the callback to have accepted the chain.                    *)
HandshakeDone ==
  /\ Handshaking /\ outcome # "pending"
  /\ ConnectHandler
  /\ cl'.conn = "open" => outcome = "accepted"
  /\ UNCHANGED certVars

(* Every other handler of the session leaves the verifier alone. *)
SessionStep ==
  /\ Next /\ ~(Handshaking /\ ConnectHandler)
  /\ UNCHANGED certVars

SecureInit == Init /\ Cert!Init

SecureNext == TLSVerify \/ HandshakeDone \/ SessionStep

SecureSpec == SecureInit /\ [][SecureNext]_<<vars, certVars>>

-----------------------------------------------------------------------------
(* Properties.                                                              *)

(* Without a pinned fingerprint the callback adds nothing to the default  *)
(* verification: the handshake is accepted exactly when every invocation *)
(* passes the PKI and host-name check (result_ never caches a success).  *)
TransparentWithoutPin ==
  (pin = NoPin /\ outcome # "pending") => (outcome = "accepted" <=> pkiOK)

(* For the self-signed server certificate that pinning exists for, the   *)
(* handshake is accepted exactly when its fingerprint equals the pinned  *)
(* one, in whatever case the user wrote it, whatever the PKI says.       *)
PinsSelfSignedLeaf ==
  (pin # NoPin /\ Len(chain) = 1 /\ outcome # "pending")
    => (outcome = "accepted" <=> pin.digest = chain[1])

PasswordOnlyToPinnedServer ==
  ("LOGIN" \in ToSet(cl.sent) /\ pin # NoPin) => pin.digest = chain[1]

=============================================================================
