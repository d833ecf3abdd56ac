------------------------ MODULE SubscriberDeliveriesMC ------------------------
(* A webhook that follows two events.                                          *)
EXTENDS SubscriberDeliveries, TLC

CONSTANTS hook, e1, e2

Hook == {hook}
Happenings == {e1, e2}
BothEvents == hook :> Happenings
===============================================================================
