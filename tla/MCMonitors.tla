----------------------------- MODULE MCMonitors -----------------------------
(* The two measurements of the main loop side by side, for TLC: an instance *)
(* that earns one credit or spends two in a minute, while requests arrive.  *)
EXTENDS CreditMonitor

CONSTANT MaxReqs
VARIABLES counter, prevReqs, reqs, arrived, between, goodReads

requestVars == <<counter, prevReqs, reqs, arrived, between, goodReads>>

Requests == INSTANCE RequestMonitor

EarnOrSpend == {1, -2}

MonitorsInit == Init /\ Requests!Init

MonitorsNext == \/ Next /\ UNCHANGED requestVars
                \/ Requests!Next /\ UNCHANGED vars

MonitorsSpec == MonitorsInit /\ [][MonitorsNext]_<<vars, requestVars>>

\* The measured arrivals are exactly the client requests between two readings
\* that both succeeded (RequestMonitor).
ArrivalsExact == Requests!ArrivalsExact
=============================================================================
