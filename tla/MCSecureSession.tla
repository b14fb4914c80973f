-------------------------- MODULE MCSecureSession --------------------------
(* One message, one capability set, no deletion: the session part only    *)
(* has to reach LOGIN; the server's certificate and a CA in chains of one *)
(* and two certificates, every pin in either letter case, and none.       *)
EXTENDS SecureSession

CONSTANTS server, ca

MCUIDs == {1}
MCCapSets == {{"IMAP4REV1"}}
MCCerts == {server, ca}

=============================================================================
