------------------------------- MODULE Config -------------------------------
(***************************************************************************)
(* config/config.go: the configuration main gets from the environment.     *)
(* envconfig.Process (external) fills the fields in their order and stops  *)
(* at the first value it cannot parse, Get returns what is filled in so    *)
(* far with the error, and main logs the error and goes on.                *)
(***************************************************************************)
EXTENDS Integers

CONSTANT Limits  \* the values of MAX_CONCURRENT_HANDLERS in use

ASSUME ConfigAssumption == Limits \subseteq Int

\* The place of each setting among the fields of Config. "timings" stands for the
\* durations, which come first; "none" for an environment in which all parse.
Place == [timings |-> 1, publishing |-> 2, url |-> 3, limit |-> 4, none |-> 5]

\* unreadable: the first setting that does not parse. The authorisation settings come
\* last, and their defaults are those of a library: auth is what they amount to.
Environments == [publishing : {"unset", "true", "false"}, limit : Limits,
                 auth : BOOLEAN, unreadable : DOMAIN Place]

Configs == [publishing : BOOLEAN, limit : Int, auth : BOOLEAN]

\* Faulty variant: the service is a web one unless it is told otherwise.
DefaultsOfWeb == [publishing |-> FALSE, limit |-> 0]

\* The fields before Process; a limit of 0 is none.
Defaults == [publishing |-> TRUE, limit |-> 0]

\* Process has got past the setting.
IsRead(e, setting) == Place[setting] < Place[e.unreadable]

Get(e) ==
  [publishing |-> IF IsRead(e, "publishing") /\ e.publishing # "unset"
                    THEN e.publishing = "true" ELSE Defaults.publishing,
   limit |-> IF IsRead(e, "limit") THEN e.limit ELSE Defaults.limit,
   auth |-> e.auth]
=============================================================================
