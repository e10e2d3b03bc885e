------------------------------- MODULE MCHarness -------------------------------
(* Two titles that can be loaded, the second with a frozen picture, and a  *)
(* third without an MGL; every harness on the first list, crashrate alone  *)
(* on the second.                                                          *)
EXTENDS Harness

MCTitles  == {"chaotix", "vrdx", "doom"}
MCOrders  == {<< "chaotix", "vrdx" >>, << "chaotix", "doom", "vrdx" >>}
MCMissing == {"doom"}
MCMoving  == {"chaotix"}
MCKinds   == {"sweep", "capture", "watch"}
=============================================================================
