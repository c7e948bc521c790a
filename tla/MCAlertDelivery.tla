-------------------------- MODULE MCAlertDelivery --------------------------
(* Model values and symmetry for the runs of AlertDelivery. *)
EXTENDS AlertDelivery

AlertSymmetry == Permutations(Alerts)
=============================================================================
