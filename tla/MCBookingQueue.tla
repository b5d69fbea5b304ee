--------------------------- MODULE MCBookingQueue ---------------------------
(* Constants of the TLC instances of BookingQueue. *)
EXTENDS BookingQueue, TLC

CONSTANTS a1, a2, b1, b2, b3, p1, p2

Scene(does, versions, booked) ==
  [does |-> does, versions |-> versions, bookings |-> booked]

\* Requests race for the places of three bookings; the population and closing jobs
\* race with status changes over two bookings, with each other, and with the end of
\* the process.
Races == {
  Scene({"walkIn", "status", "reorder", "delete"}, 3, 3),
  Scene({"walkIn", "add", "status", "remove", "reorder"}, 3, 2),
  Scene({"create", "status", "populate", "closed", "crash"}, 1, 2)}

Overnight ==
  {Scene({"create", "update", "status", "remove", "remind", "past", "stale"}, 2, 1)}

NoShows == {Scene({"walkIn", "status"}, 1, 1)}

Interchangeable == Permutations(Bookings) \cup Permutations(Procs)
=============================================================================
