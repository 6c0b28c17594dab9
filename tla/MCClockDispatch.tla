-------------------------- MODULE MCClockDispatch --------------------------
(* ClockDispatch for TLC: the workloads of the runs, as sets of calls.      *)
EXTENDS ClockDispatch, TLC

CONSTANTS u1, u2, c1, c2, d1, d2

ClocksOnly  == {<<"register", Dispatcher>>, <<"unregister", Dispatcher>>}
DriversOf(c) == {<<"register", c>>, <<"unregister", c>>}
Destroy     == {<<"destroy", Dispatcher>>}
Shutdown    == {<<"shutdown", Dispatcher>>}

\* The selftest: one thread does everything, the dispatcher's walks aside.
Selftest == [u \in Users |-> ClocksOnly \cup DriversOf(c1) \cup Destroy \cup Shutdown]
=============================================================================
