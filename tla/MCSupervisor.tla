---------------------------- MODULE MCSupervisor ----------------------------
(***************************************************************************)
(* Supervisor on small instances for TLC, and what application.hpp says of *)
(* the children of a master, which what the code does refutes.             *)
(***************************************************************************)
EXTENDS Supervisor, TLC

Symmetric == Permutations(Pid)

\* "spawn_workers() -- fork N workers" and "SIGHUP -> reload config + rolling
\* restart of workers" (application.hpp): while the master waits for events, no
\* name has two children that are to stay.
OnePerName ==
    at = "loop" => \A p, q \in children \ retiring : name[p] = name[q] => p = q
=============================================================================
