----------------------------- MODULE MCManifest -----------------------------
(* Small instances of module Manifest. *)
EXTENDS Manifest, TLC

=============================================================================
