----------------------------- MODULE MCExecutor -----------------------------
(* Two tasks, as main.rs spawns them: the keyboard's, whose queue exists   *)
(* before it is spawned and which may complete (a getline task), and the   *)
(* mouse's, which creates its queue and runs for ever.                     *)
EXTENDS Executor

CONSTANTS kbd, mouse

MCTasks == {kbd, mouse}
MCFinite == {kbd}
MCEager == {kbd}
=============================================================================
