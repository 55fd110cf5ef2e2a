----------------------------- MODULE EngineLife -----------------------------
(* What the two pumps of the asynchronous engine share: the latch that       *)
(* admits work and the progress of the unload.                               *)
EXTENDS Integers

CONSTANT None   \* NULL

VARIABLES
  alive,    \* rc_amd_engine.alive
  unload    \* where rc_amd_exit_async_subsystem() stands

Unloading == {"drain", "forced", "flush", "purge", "stop", "flush_last"}
Phases == {"up"} \cup Unloading \cup {"down"}

lifeVars == <<alive, unload>>

\* The engine after a successful rc_amd_init_async_subsystem().
LifeInit == alive = TRUE /\ unload = "up"
=============================================================================
