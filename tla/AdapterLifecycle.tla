-------------------------- MODULE AdapterLifecycle --------------------------
(***************************************************************************)
(* What adapter.h demands of the callers of one adapter ("An adapter must  *)
(* be used in the following order"): the abstract specification the        *)
(* benchmark driver is shown to implement.  get_result changes nothing and *)
(* is a stutter here.                                                      *)
(***************************************************************************)
VARIABLE life

Init == life = "down"

Setup == life = "down" /\ life' = "up"

Prepare == life = "up" /\ life' = "prepared"

InitOutputs == life = "prepared" /\ life' = "outputs"

\* A failed run leaves outputs too; they hold no result.
Run == life = "outputs" /\ life' \in {"ran", "failed"}

FreeOutputs == life \in {"ran", "failed"} /\ life' = "prepared"

Cleanup == life = "prepared" /\ life' = "up"

Teardown == life = "up" /\ life' = "down"

Next ==
  \/ Setup \/ Prepare \/ InitOutputs \/ Run
  \/ FreeOutputs \/ Cleanup \/ Teardown

Spec == Init /\ [][Next]_life
=============================================================================
