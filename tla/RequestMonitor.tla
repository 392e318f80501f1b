---------------------------- MODULE RequestMonitor ----------------------------
(***************************************************************************)
(* How the main loop measures the arrival rate: it reads nginx's request   *)
(* counter over ssh (getNumberOfReqs, src/src/LoadBalancerUtility.py) once *)
(* per iteration and takes the difference to the previous reading          *)
(* (src/src/autoBurstController.py).  A reading is itself a request, and   *)
(* it may fail before or after nginx has counted it.                       *)
(***************************************************************************)
EXTENDS Integers

CONSTANT MaxReqs     \* bound of nginx's counter

VARIABLES
  counter,     \* requests nginx has handled, the third number of stub_status
  prevReqs,    \* the controller's local: the previous reading
  reqs,        \* currReqs - prevReqs - 1, the last result
  arrived,     \* client requests since the last attempt to read (history)
  between,     \* client requests between the last two attempts (history)
  goodReads    \* successful readings in a row, counted up to 2 (history)

vars == <<counter, prevReqs, reqs, arrived, between, goodReads>>

\* LoadBalancerUtility.prevReqs: only getArrivalRate assigns it, which the
\* controller does not call, so it keeps its first value
modulePrevReqs == 0

\* Mutant: the reading itself is counted as a client request
DifferenceWithCurl(currReqs) == currReqs - prevReqs

\* reqs = currReqs - prevReqs - 1
Difference(currReqs) == currReqs - prevReqs - 1

\* the first reading, before the loop, succeeded
Init ==
  /\ counter = 1 /\ prevReqs = 1 /\ reqs = 0
  /\ arrived = 0 /\ between = 0 /\ goodReads = 1

\* nginx handles a request of a client
Serve ==
  /\ counter < MaxReqs
  /\ counter' = counter + 1 /\ arrived' = arrived + 1
  /\ UNCHANGED <<prevReqs, reqs, between, goodReads>>

\* the part of the main loop that uses a reading
Use(currReqs, good) ==
  /\ reqs' = Difference(currReqs)
  /\ prevReqs' = currReqs
  /\ between' = arrived /\ arrived' = 0
  /\ goodReads' = IF ~good THEN 0 ELSE IF goodReads = 2 THEN 2 ELSE goodReads + 1

\* the status page is fetched and its number parsed
ReadOk ==
  /\ counter < MaxReqs
  /\ counter' = counter + 1
  /\ Use(counter', TRUE)

\* ssh or curl fails before nginx is reached: nothing to parse
ReadUnreached ==
  /\ UNCHANGED counter
  /\ Use(modulePrevReqs, FALSE)

\* nginx counted the request, but its answer was lost
ReadLost ==
  /\ counter < MaxReqs
  /\ counter' = counter + 1
  /\ Use(modulePrevReqs, FALSE)

Next == Serve \/ ReadOk \/ ReadUnreached \/ ReadLost

Spec == Init /\ [][Next]_vars

-----------------------------------------------------------------------------

\* The measured arrivals are exactly the client requests between two readings
\* that both succeeded, the readings themselves left out, whatever failed
\* before them.
ArrivalsExact == goodReads = 2 => reqs = between

\* "If there was an error parsing the result, return the previous count": a
\* reading that fails leaves the count where it was.
FailureKeepsCount == [][goodReads' = 0 => prevReqs' = prevReqs]_vars

=============================================================================
