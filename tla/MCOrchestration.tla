--------------------------- MODULE MCOrchestration ---------------------------
(* Model values and scripts for the runs of Orchestration. *)
EXTENDS Orchestration

CONSTANTS a, b

(* The autonomous participant creates a controller. *)
CreateOne == { {<<"Create", b>>} }

(* One participant pauses and continues while the other stops; one reports   *)
(* an error and aborts the simulation or stops.                              *)
PauseErrorAbort ==
  { {<<"Pause", a>>, <<"Continue", a>>, <<"Stop", b>>},
    {<<"Error", b>>, <<"Abort", b>>},
    {<<"Error", b>>, <<"Stop", b>>} }

(* A participant stops or aborts the simulation, or both, while the other    *)
(* crashes.                                                                  *)
StopAbortCrash ==
  { {<<"Stop", a>>, <<"Crash", b>>},
    {<<"Abort", a>>, <<"Crash", b>>},
    {<<"Stop", a>>, <<"Abort", a>>} }
Endings == PauseErrorAbort \cup StopAbortCrash
=============================================================================
