----------------------------- MODULE HostErrors -----------------------------
(***************************************************************************)
(* Errors on their way between the core and its native host (src/src/ffi.rs *)
(* and src/src/error.rs). The host sees the error of a call; an error it   *)
(* raises from a callback comes back through that callback's bridge, which *)
(* keeps the few the core acts upon and makes the rest plain callback      *)
(* errors. Messages are left out.                                          *)
(***************************************************************************)

\* WscdError.
WscdError ==
  {"NoPlugin", "NoDefault", "Unsupported", "KeyNotFound", "AuthRequired",
   "AuthCancelled", "ReEnrollmentRequired", "Plugin", "Callback",
   "Serialization", "Crypto", "Pin", "StrongBoxUnavailable",
   "UnconfirmedCleanup"}

\* Errors a host can raise or be told of.
FfiWscdError == WscdError \ {"NoDefault"}

\* What the host is told of a call's error.
ToFfi(err) == IF err = "NoDefault" THEN "NoPlugin" ELSE err

Kept(raised, kept) == IF raised \in kept THEN raised ELSE "Callback"

\* Mutant: a refusal is an error like any other.
AuthCollapses(raised) == Kept(raised, {})

\* AuthCallbackBridge: PIN prompts and WebAuthn ceremonies.
AuthError(raised) == Kept(raised, {"AuthCancelled", "AuthRequired"})

\* AndroidKeystoreCallbackBridge: its generate, and its other calls.
KeystoreGenerateError(raised) == Kept(raised, {"StrongBoxUnavailable"})
KeystoreError(raised) == Kept(raised, {})

\* Mutant: what is gone already is an error like any other.
EnclaveForgetsNotFound(raised) == Kept(raised, {"AuthCancelled", "AuthRequired"})

\* SecureEnclaveCallbackBridge.
SecureEnclaveError(raised) ==
  Kept(raised, {"AuthCancelled", "AuthRequired", "KeyNotFound"})

\* Ctap2TransportBridge, FfiTransportBridge.
TransportError(raised) == Kept(raised, {})
=============================================================================
