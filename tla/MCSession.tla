------------------------------ MODULE MCSession -----------------------------
(* Account a is registered, b may be registered or come in with Google. *)
EXTENDS Session
============================================================================
