----------------------------- MODULE MCLauncher -----------------------------
(* The launcher for TLC: what an arbitrary backend may send it. *)
EXTENDS LauncherHarness

\* One frame on which the receive loop blocks, in the write of a prompt, and
\* one that ends it.  After any other frame the loop goes round or ends without
\* touching the PTY; the theorems of LauncherProofs hold for every set of frames.
TypeOrShutdown == {Frame("type", TRUE, ""), Frame("shutdown", TRUE, "")}

=============================================================================
